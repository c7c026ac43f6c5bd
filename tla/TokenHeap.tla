----------------------------- MODULE TokenHeap -----------------------------
(***************************************************************************)
(* The memory of the tokens: class Scanner allocates every token and its   *)
(* text in a chain of blocks, keeps the tokens from the current one on in  *)
(* a list for Peek, and frees the blocks before the current token when it  *)
(* needs another block.  Parser::Get walks that list.                      *)
(*                                                                         *)
(* Blocks are numbered as they are allocated; since only the oldest are    *)
(* freed, the blocks on the heap are first..last.  Tokens are numbered as  *)
(* NextToken makes them, which is their order in the input; token 0 is the *)
(* dummy Scanner::Init makes.  What NextToken reads is a free choice.      *)
(***************************************************************************)
EXTENDS Integers

CONSTANTS
  BlockSize,   \* HEAP_BLOCK_SIZE
  TokenSize,   \* sizeof(Token)
  TextSizes,   \* bytes a text may take, its terminator included
  MaxTokens    \* bound on the tokens made

ASSUME SizesAssumption ==
  /\ BlockSize \in Nat /\ TokenSize \in Nat /\ 0 < TokenSize /\ TokenSize < BlockSize
  /\ TextSizes \subseteq Nat \ {0}
  /\ MaxTokens \in Nat

VARIABLES
  heap,     \* first, last: the blocks; top: bytes taken of the last one
  made,     \* the newest token
  token,    \* the tokens made so far, those whose memory was freed included
  tokens,   \* Scanner.tokens: the current token
  pt,       \* Scanner.pt: the token Peek looked at last
  t,        \* Parser.t: last recognized token
  la,       \* Parser.la: lookahead token
  copied,   \* the token whose fields and text Parser.dummyToken holds
  peeked,   \* history: Peek was called since Get returned
  pc        \* parsing: parser and semantic actions run; getting: in the loop of
            \* Get; pragma: a pragma's action runs there; peeking, pragma peeking: in
            \* the loop of Peek, called by one of these; stopped: exit(1)

heapVars == <<heap, made, token, tokens, pt, t, la, copied, peeked, pc>>
parserVars == <<t, la, copied>>

Null == 0       \* no token has the dummy token of Init for its successor
Dummy == -1     \* Parser.dummyToken, allocated by itself
None == -1      \* not a token of the heap

Kinds == {"normal", "pragma", "eof"}

\* A token of n bytes is n of them at place at of a block, and so is its text.
Area(block, at, size) == [block |-> block, at |-> at, size |-> size]

\* The dummy's val is NULL: an area of no bytes.
NoText == Area(0, TokenSize, 0)

HeapInit ==
  /\ heap = [first |-> 0, last |-> 0, top |-> TokenSize]
  /\ made = 0 /\ tokens = 0 /\ pt = 0
  /\ token = [i \in {0} |-> [kind |-> "normal", next |-> Null,
                             self |-> Area(0, 0, TokenSize), text |-> NoText]]
  /\ t = Dummy /\ la = Dummy /\ copied = 0
  /\ peeked = FALSE /\ pc = "parsing"

----------------------------------------------------------------------------
(* CreateHeapBlock, CreateToken and AppendVal.                             *)

CurrentBlock == token[tokens].self.block

\* Mutant: the blocks are freed up to the one in use.
FirstInUse(h) == h.last

\* The blocks are walked and freed up to the one that holds tokens: if none does,
\* none is left.
FirstKept(h) == IF CurrentBlock \in h.first..h.last THEN CurrentBlock ELSE h.last + 1

CreateHeapBlock(h) == [first |-> FirstKept(h), last |-> h.last + 1, top |-> 0]

\* Mutant: only a full block makes another one necessary.
RoomWhenFull(h, size) == IF h.top >= BlockSize THEN CreateHeapBlock(h) ELSE h

\* The heap with room for size bytes at its top.
Room(h, size) == IF h.top + size >= BlockSize THEN CreateHeapBlock(h) ELSE h

\* Mutant: the top stays below what was taken last.
TakeNothing(h, size) == h

Take(h, size) == [first |-> h.first, last |-> h.last, top |-> h.top + size]

\* NextToken, for a token of that kind with a text of that size.
WithToken == Room(heap, TokenSize)
WithText(size) == Room(Take(WithToken, TokenSize), size)

\* before: the token it is linked behind, if any.
NextToken(kind, size, before) ==
  /\ heap' = Take(WithText(size), size)
  /\ made' = made + 1
  /\ token' = [i \in 0..(made + 1) |->
       IF i > made
       THEN [kind |-> kind, next |-> Null,
             self |-> Area(WithToken.last, WithToken.top, TokenSize),
             text |-> Area(WithText(size).last, WithText(size).top, size)]
       ELSE IF i = before
       THEN [kind |-> token[i].kind, next |-> made + 1,
             self |-> token[i].self, text |-> token[i].text]
       ELSE token[i]]

\* What the input may hold next: nothing but its end once that was seen.
Readable(kind, size) ==
  /\ made < MaxTokens
  /\ kind \in Kinds /\ size \in TextSizes
  /\ token[made].kind = "eof" => kind = "eof"

\* "Too long token value"
TooLong(size) == size > BlockSize

Exit ==
  /\ pc' = "stopped"
  /\ UNCHANGED <<heap, made, token, tokens, pt, parserVars, peeked>>

----------------------------------------------------------------------------
(* One iteration of the loop of Parser::Get, with Scanner::Scan.           *)

IsPragma(kind) == kind = "pragma"

Recognize == t' = la /\ peeked' = FALSE /\ UNCHANGED copied

\* Mutant: Scan goes on where Peek stopped.
LastPeeked == pt

Successor == token[tokens].next

\* The token is new.  It is not linked behind the current one, which no one
\* will look at again.
ScanNew(kind, size) ==
  /\ pc \in {"parsing", "getting"} /\ Successor = Null
  /\ Readable(kind, size)
  /\ IF TooLong(size) THEN Exit
     ELSE /\ NextToken(kind, size, None)
          /\ tokens' = made' /\ pt' = made'
          /\ la' = made' /\ Recognize
          /\ pc' = IF IsPragma(kind) THEN "pragma" ELSE "parsing"

\* The token was seen by Peek.
ScanPeeked ==
  /\ pc \in {"parsing", "getting"} /\ Successor # Null
  /\ tokens' = Successor /\ pt' = tokens'
  /\ la' = tokens' /\ Recognize
  /\ pc' = IF IsPragma(token[tokens'].kind) THEN "pragma" ELSE "parsing"
  /\ UNCHANGED <<heap, made, token>>

\* Mutant: dummyToken is also copied to itself.
CopiedAlways == t

\* "if (dummyToken != t)"
CopiedToken == IF t = Dummy THEN copied ELSE t

\* A token can be read if neither its block nor that of its text was freed.
Live(i) ==
  /\ token[i].self.block \in heap.first..heap.last
  /\ token[i].text.block \in heap.first..heap.last

\* After the pragma's action: dummyToken becomes a copy of t and takes its place.
\* If that was freed, by a Peek of the action, the copy may be of anything: what comes
\* of it is not followed.
AfterPragma ==
  /\ pc = "pragma"
  /\ IF t # Dummy /\ ~Live(t) THEN Exit
     ELSE /\ copied' = CopiedToken
          /\ t' = Dummy /\ la' = Dummy
          /\ pc' = "getting"
          /\ UNCHANGED <<heap, made, token, tokens, pt, peeked>>

----------------------------------------------------------------------------
(* One iteration of the loop of Scanner::Peek, and Scanner::ResetPeek.     *)

\* What called Peek, and the loop that goes on if it looked at a pragma.
Caller == IF pc \in {"pragma", "pragma peeking"} THEN "pragma" ELSE "parsing"
PeekLoop == IF Caller = "pragma" THEN "pragma peeking" ELSE "peeking"
AfterPeek(kind) == IF IsPragma(kind) THEN PeekLoop ELSE Caller

PeekNew(kind, size) ==
  /\ pc \in {Caller, PeekLoop} /\ token[pt].next = Null
  /\ Readable(kind, size)
  /\ IF TooLong(size) THEN Exit
     ELSE /\ NextToken(kind, size, pt)
          /\ pt' = made' /\ peeked' = TRUE
          /\ pc' = AfterPeek(kind)
          /\ UNCHANGED <<tokens, parserVars>>

PeekKnown ==
  /\ pc \in {Caller, PeekLoop} /\ token[pt].next # Null
  /\ pt' = token[pt].next /\ peeked' = TRUE
  /\ pc' = AfterPeek(token[pt'].kind)
  /\ UNCHANGED <<heap, made, token, tokens, parserVars>>

ResetPeek ==
  /\ pc = Caller
  /\ pt' = tokens
  /\ UNCHANGED <<heap, made, token, tokens, parserVars, peeked, pc>>

HeapNext ==
  \/ \E kind \in Kinds, size \in TextSizes : ScanNew(kind, size) \/ PeekNew(kind, size)
  \/ ScanPeeked \/ PeekKnown \/ AfterPragma \/ ResetPeek

HeapSpec == HeapInit /\ [][HeapNext]_heapVars

----------------------------------------------------------------------------
(* Properties.                                                             *)

Areas == [block : Nat, at : Nat, size : Nat]
Tokens == [kind : Kinds, next : Nat, self : Areas, text : Areas]

ControlPoints == {"parsing", "getting", "pragma", "peeking", "pragma peeking", "stopped"}

TypeOK ==
  /\ heap \in [first : Nat, last : Nat, top : Nat]
  /\ made \in Nat /\ token \in [0..made -> Tokens]
  /\ tokens \in 0..made /\ pt \in 0..made
  /\ t \in {Dummy} \cup 0..made /\ la \in {Dummy} \cup 0..made
  /\ copied \in 0..made
  /\ peeked \in BOOLEAN
  /\ pc \in ControlPoints

\* Whatever was peeked at, and whatever was freed meanwhile: the current token
\* and every one after it can be read, so what Scan and Peek follow is there.
ListLive == \A i \in tokens..made : Live(i)

\* What t points to can be read by the semantic actions, and by Get when it has
\* to copy it, as long as Peek was not called.
RecognizedLive ==
  (pc \in {"parsing", "pragma"} /\ t # Dummy /\ ~peeked) => Live(t)

\* The same whether or not Peek was called: "last recognized token".
LastRecognizedLive == (pc \in {"parsing", "pragma"} /\ t # Dummy) => Live(t)

Overlap(a, b) ==
  a.block = b.block /\ a.at < b.at + b.size /\ b.at < a.at + a.size

\* No token or text reaches past the end of its block, where the pointer to the
\* next block is, or into another one.
NoOverlap ==
  /\ heap.top <= BlockSize
  /\ \A i \in 0..made :
       /\ token[i].self.at + token[i].self.size <= BlockSize
       /\ token[i].text.at + token[i].text.size <= BlockSize
       /\ ~Overlap(token[i].self, token[i].text)
       /\ \A j \in 0..(i - 1), a \in {token[i].self, token[i].text} :
            ~Overlap(a, token[j].self) /\ ~Overlap(a, token[j].text)

\* The parser sees the tokens of the input once each and in order, and t stays
\* the last one that is not a pragma, however Scan and Peek alternate.
Stream == INSTANCE TokenStream WITH
  scanned <- tokens, peekedAt <- pt,
  ahead <- IF la = Dummy THEN copied ELSE la,
  last <- IF t = Dummy THEN copied ELSE t

InOrder == Stream!StreamSpec
=============================================================================
