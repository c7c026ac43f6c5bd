SPECIFICATION HeapSpec
CONSTANTS
  BlockSize = 5
  TokenSize = 2
  TextSizes = {1, 2, 3, 5, 6}
  MaxTokens = 4
INVARIANT
  LastRecognizedLive
\* the program stops on a text that is too long, and the bound stops the rest
CHECK_DEADLOCK FALSE
