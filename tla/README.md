# Verification of coco-cpp in TLA+

coco-cpp is the C++ version of the compiler generator Coco/R.  It reads an
attributed grammar and writes a scanner (a deterministic automaton) and a
recursive descent parser, by copying the frame files `Scanner.frame` and
`Parser.frame` and filling in their gaps.  It is built with itself, so
`src/Scanner.cpp` and `src/Parser.cpp` are at the same time part of the generator
and samples of what it generates.

The modules here model its algorithms and the runtime it generates, check them
with TLC on small instances and prove the most important facts about them with
TLAPS for all instances.  File names below are relative to `src/`.

## Inventory

The program is sequential.  What makes it hard is not concurrency but linked
lists that are changed while they are walked, state that survives from one phase
into the next, memory that is freed early, and recursive set computations whose
results depend on an order.

| Component | Source | State | Operations | What makes it correct |
|---|---|---|---|---|
| Scanner automaton | `DFA.*`, `Action.*`, `State.*`, `Target.h`, `Melted.h` | states with action lists, numbers, melted list, `dirtyDFA` | `NewTransition`, `MatchLiteral`, `MakeDeterministic`, `WriteScanner` | the written automaton is deterministic and recognises the declared tokens; ambiguities are reported; it ends |
| Token graphs to automaton | `DFA.cpp` 239-397, `Coco-cpp.atg` 341-535 | node states, visited marks | `NumberNodes`, `FindTrans`, `Step`, `ConvertToStates` | the automaton accepts the words of the graph |
| Comments | `DFA.cpp` 797-915, `Comment.h` | delimiters, nesting | `NewComment`, `GenComment` | a comment is skipped as a whole, or nothing of it |
| Character sets | `CharSet.*` | sorted list of ranges | set operations | the list is canonical and stands for the right set |
| Bit sets | `BitArray.*`, `Sets.h` | bytes | set operations | no operation sees bits past the end |
| Containers | `ArrayList.*`, `HashTable.*`, `StartStates`, `KeywordMap` | arrays, chains | add, remove, look up | maps and sequences |
| Syntax graphs and analysis | `Tab.*`, `Node.*`, `Symbol.h`, `Graph.h` | nodes, symbols, `visited`, First, Follow, ANY and SYNC sets | graph building, `CompSymbolSets`, `GrammarOk` | every set is the least one its definition asks for |
| Parser generation | `ParserGen.*` | condition sets, error messages | `GenCode`, `WriteParser` | the parser enters a branch exactly when its set says so |
| Frame directives | `Preproc.h`, `Tab::CopyFramePart` | `curr_`, `prev_`, `exec_`, names | `okay`, `reset`, `define`, `undef` | a line is copied exactly when its branches are selected |
| Token memory | `Scanner.cpp` 658-698, 786-885, 1269-1301 | blocks, `tokens`, `pt` | `CreateHeapBlock`, `CreateToken`, `AppendVal`, `Scan`, `Peek` | nothing that is followed is freed; nothing overlaps |
| Scanner main loop | `Scanner.cpp` 702-1265, `Scanner.frame` | `ch`, `pos`, `col`, `tval` | `NextCh`, `AddCh`, `NextToken`, comments | the longest token is delivered and reading goes on behind it |
| Input buffer | `Scanner.cpp` 262-575 | window over a file or stream | `Read`, `Peek`, `GetPos`, `SetPos` | reads the characters of the input whatever the window |
| Parser runtime | `Parser.frame` | `t`, `la`, `errDist` | `Get`, `Expect`, `ExpectWeak`, `WeakSeparator` | ends on every input; the first error is reported |
| Grammar front end | `Coco-cpp.atg` | symbol under construction | semantic actions | calls the others in the right order |
| Driver, strings, files | `Coco.cpp`, `Utils.*`, `Position.h` | none | | not modelled: straight-line input and output |

How they interact: the front end builds token graphs and calls `ConvertToStates`
or `MatchLiteral` for every token; at `PRODUCTIONS` it calls `MakeDeterministic`;
literals in productions call `MatchLiteral` again; at the end of a grammar without
errors `CompSymbolSets`, `GrammarOk`, `WriteParser` and `WriteScanner` run in this
order, and `WriteScanner` calls `MakeDeterministic` once more if literals made the
automaton dirty.  Both writers copy a frame file through the one `Preproc` object.
In the generated program the parser calls `Scan`, its actions may call `Peek`, and
both take tokens from the scanner's heap.  The scanner reads characters from its
buffer, and goes back in it after a comment that was none, a context, or a token
that turned out to be shorter.

## Modules

| Module | Models | Extends |
|---|---|---|
| `ActionLists` | the action list of one state and how `SplitActions` rewrites it | |
| `Determinize` | the automaton through all phases of a grammar | `ActionLists` |
| `SubsetConstruction` | the inductive invariant of `Determinize`: which set a melted state stands for | `Determinize` |
| `Recognition` | the invariant that follows the words of the declared tokens to the written automaton | `SubsetConstruction` |
| `SyntaxGraph` | the syntax graph and how `Tab` builds it while its parser reads an expression | |
| `TokenNFA` | token graphs to states and transitions: `NumberNodes`, `FindTrans`, `Step` | `SyntaxGraph` |
| `Tokens` | composition: the tokens of a grammar from their expressions to the written automaton, and the words they stand for | `Recognition`, `TokenNFA` |
| `CharSet` | class `CharSet` | |
| `Conditionals` | abstract: a stack of conditionals | |
| `Preproc` | class `Preproc` and `CopyFramePart`, implements `Conditionals` | `Conditionals` |
| `TokenStream` | abstract: what a scanner promises its parser | |
| `TokenHeap` | token memory, `Scan`, `Peek`, `Parser::Get`; implements `TokenStream` | |
| `Buffer` | classes `Buffer` and `UTF8Buffer` | |
| `ScannerLoop` | the rest of class `Scanner`: `NextCh`, `AddCh`, comments, `NextToken` | `Buffer` |
| `Lexing` | abstract: the tokens of an input, by the longest word | |
| `ScannerChecks` | the scanner's tokens compared with those of `Lexing` | `ScannerLoop`, `Lexing` |
| `Symbols` | the symbols of a grammar | |
| `SymbolSets` | the set computations of class `Tab` | `SyntaxGraph`, `Symbols` |
| `GrammarChecks` | `Tab::GrammarOk` | `SymbolSets` |
| `Productions` | what the front end does with productions | `GrammarChecks` |
| `Grammars` | abstract: nullable, First, Follow, LL(1) on the text of productions | `Symbols` |
| `Analysis` | a grammar from its productions to its report | `Productions`, `Grammars` |
| `Statements` | the statements of a generated parser | |
| `ParserGen` | class `ParserGen`: the statements of the generated parser | `Productions`, `Statements` |
| `ParserFrame` | `Get` and the errors of `Parser.frame`, for any parser | `Symbols` |
| `Sentences` | abstract: sentences and their beginnings, on the text | `Grammars` |
| `ParserRun` | a parser of whatever statements at work on an input | `Statements`, `ParserFrame` |
| `ParserChecks` | composition: the parsers `ParserGen` writes, against the sentences | `ParserRun`, `ParserGen`, `Sentences` |
| `MC...` | constants for TLC | the module of that name, `MCTokens`: `Tokens`, `MCParser`: `ParserChecks`, `MCScannerLoop`: `ScannerChecks` |
| `..._proofs` | theorems | the module of that name, `TLAPS` |

### Determinize, TokenNFA, Tokens

A state is an index into the sequences `acts`, `endOf`, `ctx`, `nr` (the fields of
class `State`) and never changes; `chain` is the linked list from `firstState` to
`lastState`.  A character class is the set of characters it denotes and a target
list the set of states on it; the order of actions in a list is kept, since
`MakeUnique` walks a list that `SplitActions` changes: `ia` and `ib` are the
positions of its pointers, and `SplitActions` says where they stand afterwards.
`MakeDeterministic` is a loop of small actions named after its functions
(`Compare`, `NextA`, `MeltKnown`, `MeltNew`, `MeltWith`, `NewMelted`, `FindUsed`,
`CombineFinals`, `DeleteState`, `Combine`); `pc` says which loop the program is
in.  What a declaration adds is a constant of `Determinize`: `Graph`, the states and
transitions of a token graph, or `Text`, the characters of a string.

`TokenNFA` is where `Graph` comes from.  `TokenGraph` of `SyntaxGraph` builds the
linked nodes of an expression as `TokenExpr` does, and `Converted` runs
`ConvertToStates` on them: `NumberNodes` gives every node a state, shared or its
own, and `FindTrans` walks the nodes once more and adds transitions.  `Tokens` ties
the two with the assumption `ExprAssumption` and has a definition of what an
expression means (`Words`) that knows neither nodes nor states.

`melted` is the list `firstMelted`.  Its sets hold state numbers, and numbers
change when `DeleteRedundantStates` renumbers; the list is never emptied.  The
history variable `stale` says that an entry of an earlier round was used.  Bits
past the end of a shorter set, which `Sets::Equals` reads, are a free choice.

### CharSet

The list of ranges of two objects, each operation of the class as an action.
Every set over the characters is reached.

### Preproc

`curr`, `prev`, `exec` are the three integers; `open` is a history variable with
the conditionals as a reader of the frame file sees them.  `KeepsSelected` is the
refinement: every step of the code is a step of `Conditionals` or changes nothing
in it.  Frame files are taken to be balanced (an `$else` or `$endif` belongs to an
open conditional), as the two in the repository are; the code checks nothing of
it.  A second `$else` is modelled, and selects nothing.

### TokenHeap

Blocks are numbered as they are allocated, tokens as they are made; what
`NextToken` recognises (kind, length) is a free choice.  `FirstKept` is the loop
that frees blocks.  `Get` and `Peek` are loops over pragmas, so an iteration is an
action, and the action of a pragma, which may call `Peek`, runs between two of them.
If that frees `t`, `Get` copies from freed memory: what comes of it is not followed.  Token 0 is the dummy
token of `Scanner::Init`; `Dummy` is the parser's `dummyToken`.  The refinement to
`TokenStream` maps `t` and `la` to the token they are, or are a copy of.

### Buffer, ScannerLoop, Lexing, ScannerChecks

A buffer is a record with the fields of the class and the stream behind it: its
bytes, its position, the state bits of a `std::istream`.  `ReadByte`, `Read`, `Peek`
and `SetPos` are operators on it that call one another as the functions do, and
`Memory`, `File` and `Buffered` make it as the constructors do.  A `UTF8Buffer` takes
all fields of the buffer it replaces, so it is the same record with `utf8` set.

In `ScannerLoop`, `in` is the buffer with `ch`, `valCh`, `pos`, `line`, `col` and
`oldEols`, and `txt` is `tval` with its lengths.  One action is one turn of a loop:
`SkipBlank` is a turn of the loop over blanks at the head of `NextToken`; `Comment`
(with the way back when the second character is another one), `CommentStart`,
`CommentStop`, `CommentBody` and `CommentUnclosed` are `Comment<i>`; `StartToken`,
`Matching`, `Accept`, `Cut` and `Fallback` are the switch, and `SkipText` a turn of the loop
in `SetScannerBehindT`.  The tables that `DFA` writes into a scanner (`start`, the states, the
comments, keywords, ignored characters) are the constant `Grammar`.

`Lexing` is the reference: it decodes the whole input to characters with a place,
takes comments out, and asks which of the declared words is the longest.  It knows
of no buffer, no automaton and no way back.  `TokensRight` compares kind, position,
line, column and text of every token delivered.

### SyntaxGraph, SymbolSets, GrammarChecks, Productions, Analysis

`Production` is the production of `Coco-cpp.atg` that reads one production of the
grammar: it builds the graph of its expression with `MakeSequence`,
`MakeAlternative` and the like (`SyntaxGraph`), links it to the symbol and notes the
nonterminals it meets.  Productions come in any order.  `EndOfGrammar` is the action
at `END`: `SetupAnys`, `CompSymbolSets` and `GrammarOk`, one after the other with
nothing in between, as in the code.  `tab` is the state of class `Tab`; the fields
`visited` and `curSy` live only within one walk, and are passed along by it.

The walks of `Tab` are recursive functions on linked nodes that stop at nodes they
have visited, change the sets while they go and rely on where `next`, `up` and `down`
of the last node of a substructure lead.  `SymbolSets` and `GrammarChecks` keep all
that: the order of the nonterminals, what is marked when, which set is read before
it is complete.  `Grammars` is the reference they are compared with.  It knows
nothing of nodes: it reads the text (`prod`, a history variable) and defines each set
as the least fixed point of its equations.

The text is that of a production without attributes.  Semantic actions leave no
trace in what `Analysis` looks at; the generated parser has them.  Text the front end
itself reports is left out, since the sets are not computed then.

### ParserGen, ParserFrame, ParserRun, ParserChecks, Sentences

`GenCode` walks the graph as the code does and yields statements instead of text: a
condition is a test for a few symbols, a `StartOf` of a numbered set, a resolver or
nothing (a plain `else`).  What it passes along is kept: `isChecked`, and when it is
forgotten, the list `symSet` of the sets written so far, and when an alternative
becomes a `switch`.

`ParserFrame` is the part of the runtime every generated parser shares: the position
in the input, `errDist`, and two history variables, the errors `raised` and those
`reported`.  `ParserRun` executes the statements: `todo` is what is left of the block
being executed and of those around it, so a call puts a block in front.  Each
action is a statement or a turn of one of the skipping loops, and what it does to
the variables of `ParserFrame` is `Get`, `Err` or `Quiet`.  What a resolver answers
and whether a semantic action, or that of a pragma `Get` passes, reports an error are free
choices (of several pragmas before one token only the first error is kept: the others are
too near to it to be reported).  A parser in `ExplicitEof` does not expect the end of the
input behind the sentence, and may leave text there.  `ParserRun` asks nothing
of the statements, so what is proved of it holds of every parser; `ParserChecks` gives it
those `ParserGen` writes and says what they must do.

`Sentences` says which texts are derived from the productions and which begin such a
text, by positions in the input.

## Runs

| Run | Question | Bounds | Result |
|---|---|---|---|
| `determinize` | does the written automaton know the words of the tokens and no others? | up to 3 tokens of a pool of 11 overlapping definitions over 3 characters, or one of some 60 small expressions (size up to 4) and 4 larger ones; 1 literal; words up to length 4 | holds, if no stale entry is used |
| `stale_melted` | and if one is? | the same | violated, see below |
| `token_states` | has every node of a token its transitions? | two tokens with an iteration in alternatives that something follows | violated, see below |
| `char_set` | do ranges behave as sets? | 2 objects, 7 characters | holds |
| `preproc` | do three integers stand for a stack? | nesting up to 5, 2 names, any sequence of lines | holds |
| `token_heap` | is the memory safe, are the tokens in order? | 4 tokens, blocks of 5 bytes, tokens of 2, texts of 1, 2, 3, 5, 6 | holds |
| `dangling_t` | may an action use `t` after `Peek`? | the same | violated, see below |
| `scanner` | are the tokens those of the declarations, from any kind of input? | 6 grammars, all inputs up to 3-7 bytes, 5 kinds of buffer, a window of 2 bytes, `tval` of 2 characters | holds |
| `keywords` | also for a literal found by going back? | 1 grammar, inputs up to 4 bytes in memory | violated, see below |
| `analysis` | does `Tab` compute the sets and reports of the theory? | every grammar of size up to 4 over 2 nonterminals, in either order, and 2 terminals; flat ones over 3 nonterminals, with up to 2 leaves in an expression; some 9000 with up to 2 brackets of up to 3 alternatives around, before and behind an ANY | holds |
| `stale_first` | are first sets right once ANY sets were reduced? | as `analysis` | violated, see below |
| `parser` | do generated parsers accept the sentences, and come through errors? | some 200 small grammars without warnings on all inputs up to 3 tokens, 13 larger ones on inputs up to 3-5 tokens | holds |

Why the bounds are enough.  The pool of `determinize` has common prefixes, classes
that include, cut or equal each other, iterations, contexts and strings that other
tokens match, so that each case of `SplitActions`, `MatchLiteral` and
`DeleteRedundantStates` occurs, in both rounds; the small expressions put every
structure inside, before, behind and beside every other, which is what decides
whether nodes share a state.  Five levels of conditionals are more than the three
integers can hold one by one.  The sizes of `token_heap` make a text fit beside its
token, need a block of its own, fill it to the last byte, or be too long; four tokens
are enough to have `t`, `la` and two peeked ones in different blocks.  Seven
characters make four ranges with gaps of every width.

In `scanner` a window of two bytes is shorter than every token that is gone back
over, so that each border of the window is crossed in both directions; `tval` doubles
at the third character.  The grammars have a context (`numbers`: `1` before `..`) and
a token to cut back (`1..`, `1.`), nested comments of two characters and a line
comment behind the same first one (`nested`), comments of one character and ends of
line that are tokens, with CR and LF in any order (`lines`), literals without case
(`words`), characters of two and three bytes behind a byte order mark (`signs`), a context in the
middle of a token, after which the text is cut and what follows the context can never be
recognised (`inner`).
`MaxTokens` is larger than any input yields.  `MaxColumn` bounds what is read into a
comment by a scanner whose buffer gives out no end.

In `analysis` a leaf, a bracket, a resolver and a bar count 1 each and SYNC counts 2;
parentheses stand around at least two alternatives, because around one they change
nothing.  Size 4 makes every structure inside every other, before and behind every
other, left and right recursion, both kinds of cycle between two nonterminals, and
each error and warning of `GrammarOk`; only an `A` of size 4 is left out, which an empty
`S` would not lead to.  The terminals are interchangeable, so
symmetry over them is sound; nonterminals are not, since the order in which they are
met matters.  `Complete` drops edges of the symbol it was started for while others
on the same cycle are not complete; only with a third nonterminal can this go wrong,
which is why the flat grammars have one, and give up brackets for it.  How ANY sets
depend on one another shows in grammars of size 5 and more, such as `[a] ANY | ANY`,
of which there are too many: the third pool takes those with a single nonterminal in
which brackets, alternatives and ANYs meet (`AnyTexts`).

The larger grammars of `parser` are there for what small ones do not have: lists with
weak separators, statements that begin at a SYNC symbol, six alternatives (a
`switch`), four symbols in a set (`StartOf`), tests left out because they were made
before, resolvers, semantic actions that report errors, pragmas, and a grammar that deals
with the end of the input itself (`EXPLICIT_EOF`).  Inputs of three
to five tokens hold two errors with tokens between them.  `MaxErrors` stops loops a
resolver never ends.

### What the main properties say

* `WordsRecognised`: of all words up to the bound the written automaton accepts
  those of the declared tokens, and says the right token for each.
  `SameTokensUnlessStale`, `Closed`, `WrittenDeterministic` and `UniqueKeepsMoves` say
  it of single phases, where a failure is easier to read.
* `TokensRight`: see `Lexing`.  `WindowRight`: the window shows the bytes of the
  input at its place.  `InBounds`: the scanner exits for no other reason than three
  bytes that begin like a byte order mark and are none.
* `FirstRight`, `FollowRight`, `SyncRight`, `DeletableRight`: each set is the least
  one its equations allow.  `ChecksRight` and `WarningsRight`: the reports are exactly
  those of the definitions; for circular productions these are the steps on a way
  from a nonterminal that derives itself to one that does.
* `AnyRight`: an ANY shares nothing with its rivals (`Rivals`: other alternatives, what
  comes behind its brackets, what can be passed by before it), and it lost only what
  one of them may start with, ANYs taken as they were set up.  Of several alternatives
  that begin with an ANY the last keeps what is left: an ANY has no rivals before it
  that begin with one.  A choice before an ANY is no rival (see below), and
  what an ANY loses behind a choice or behind brackets around something deletable is
  left open.
* `Accepts`: the generated parser raises no error exactly on the sentences, although
  it leaves out tests.  `FirstErrorRight`: the first error is at the first token that
  no sentence goes on with.  `WeakForgiven`: a weak terminal that is all that is
  missing costs one error.  `Reported`: errors are suppressed only near others.

### Deviations

`stale_melted`: with the tokens `cd = "c" "d"`, one with the string `"cdd"` and
the literal `"c"` used in a production, the second determinization finds a melted
state of the first one under numbers that now mean other states, and the scanner
that is written does not recognise `cd`.  `Melted.h` calls an entry the "set of
old states" of a "new state"; it is one only within a round.

`token_states`: in `({"c"} | "d") "e"` the node of `"e"` has a state of its own,
which `"d"` leads to.  `FindTrans` goes on from the iteration to `"e"` without starting
a step there, as if the two shared a state, and marks it as visited: nothing ever
steps from that state, and `de` is not a token.  `WordsRecognised` leaves such declarations out (`Faithful`).

`keywords`: a literal that ends at the last end recognised before a longer token
failed is delivered with the kind of its class: with `dotted = letter {letter} '.'
letter` and the literal `"ab"` the input `ab.` yields an identifier.

`dangling_t`: `Peek` may free the block that holds `t`, since only the block of
the current token (`la`) is spared.  `RecognizedLive` is what does hold: `t` can be
read until the first `Peek` after it was recognized.

`stale_first`: `CompSymbolSets` computes First before `CompAnySets` takes terminals
out of ANY sets, and not again.  For `S = { ANY { a } }` the ANY loses `a`, so that
`S` can no longer start with it, but `a` stays in the first set of `S`, although
`Symbol.h` says these are its "terminal start symbols" and nothing is reported.
`FirstRight` is what does hold: First sets are those of the ANY sets as set up.

Met on the way, and left out of properties by a premise that names them:

* `skewed`: the length of a token that is cut back is a difference of byte positions,
  and `SetScannerBehindT` skips as many characters.  With characters of several
  bytes, or an isolated CR read as end of line, the token gets another length.
* `Lost`: `Peek` at the end of a stream that cannot seek sets the position to the end,
  which is in no window, and leaves an empty one.  A scanner that then goes back reads
  the wrong bytes (of `a..b /` and a CR it makes a token `aa`).  It may also go back to
  the first byte (`1.` and a CR, with `numbers`), so that `Lost` says only that the
  window is shorter than what was read; the attempt to prove `WindowRight` showed it.
* `Failed`: a `std::istream` that was read to its end does not go back, and then
  delivers no EoF either (the input `a /` with comments that begin with `//`).
* `Faithful`: a token declared as a single string in brackets, such as `{ "a" }`, is
  taken as the string, because `tokenString` is reset by the brackets of productions
  (`Coco-cpp.atg` 457-458) and not by those of tokens (533-534).
* `asked`: behind a resolver that says no, an alternative may be taken without a test,
  since the resolver's alternative counts as tested: of `[ IF(c) (a | d) x | a y | b ]`
  the last is taken for `d`.
* `Sentences` counts what the generated parser does with an ANY nothing was taken from:
  it is a `Get` without a test, which at the end of the input takes nothing, so that
  `S = a ANY.` accepts `a`.
* `NoInput`: the position of a buffer over an empty file is `INT_MAX`.
* Of nested comments only those with delimiters of one length are checked: with other
  lengths `GenComBody` takes as many characters of the opening delimiter as the
  closing one has.
* `Rivals` knows no choice before an ANY.  The comment in `FindAS` (`Tab.cpp` 841-843) says
  that the terminals before an ANY are removed from it, for `(a|) ANY` as well as for
  `{a|b} ANY`.  The first node of the choice in `(a| |b) ANY` is its first alternative, and
  only what this starts with is removed: `b` stays in the ANY.  Where the first
  alternative is deletable, as in `(|a) ANY`, its First runs on into the ANY itself,
  which becomes empty; `CheckAlts` warns of that.
* `CircularSteps`: in `S = S | A.  A = B.  B = B.` the step `A --> B` is reported as
  circular too, although `A` does not derive itself: `NoCircularProductions` drops a
  step only if nothing leads to it or nothing on from it.

### Fairness

The program is sequential: once a function is entered nothing else can happen, and
while it can take a step it takes one.  `Determinize` assumes weak fairness of the
steps of `MakeDeterministic` only (`Determinizes`: a determinization that starts
ends).  `ScannerLoop` assumes that a scanner that runs goes on running, and
`ParserRun` weak fairness of its steps (`Ends` of both).  Neither assumes anything of
a choice: a resolver may answer as it likes for ever, and `Ends` then promises
nothing.  The other specifications state safety only; that the walks of `Analysis` end
shows in TLC evaluating them.

## Proofs

| Theorem | Says, for every value of the constants |
|---|---|
| `SplitKeepsMoves` | `SplitActions` keeps the meaning of the list and the pointers into it |
| `TypeCorrect` | `TypeOK` of `Determinize` |
| `MakeUniqueKeepsMoves` | no step of `MakeUnique` changes the automaton's moves |
| `DeterministicWritten` | the automaton that is written is deterministic |
| `SubsetConstructed` | every state melting makes stands for the set of states it was made of (`SubsetInv`) |
| `TokensKept`, `TokensKeptAtFirst` | the result ends the tokens the automaton before it ended: if no stale entry was used; in the first round always |
| `AmbiguityReported` | if two tokens have a word in common, an error is reported |
| `RecognitionKept` | at every moment the automaton has the words of the tokens declared so far, and no other (`RecognitionInv`) |
| `ScannerKnowsTokens` | the written scanner knows the words of the declared tokens, each as what it was declared as, and no other word (`ScannerRight`) |
| `LiteralsKnown` | a string is found as its symbol, by the automaton or as a keyword (`LiteralsRecognised`) |
| `AutomatonClosed` | the states of the list lead to states of the list |
| `AlwaysCanonical`, `AlwaysOnSets` | the lists of `CharSet` are the shortest, its operations are those of sets |
| `AlwaysAboutSets`, `EqualsRight` | what is asked of a list is answered of its set; `Equals` compares the sets |
| `PreprocTypes`, `LevelsStandForStack` | the invariants of `Preproc` |
| `ImplementsConditionals` | `Preproc` implements `Conditionals` |
| `TokenHeapTypes`, `ListNeverFreed`, `RecognizedNotFreed`, `AreasApart` | the invariants of `TokenHeap` |
| `TokensInOrder` | `TokenHeap` implements `TokenStream` |
| `WindowKept`, `ReadByteRight`, `SetPosRight` | a buffer over memory or a file shows the bytes of its input, whatever is read and gone back to |
| `PipeReadRight`, `PipeSetPosRight` | a buffer over a stream that cannot seek delivers the bytes of its input, and loses what was read only when it is told the position behind the end |
| `CharacterRight` | a `UTF8Buffer` over any kind of input delivers the characters whose bytes come next |
| `WindowStaysRight` | `WindowRight`: so it does in the scanner, from any kind of input, UTF-8 or not |
| `StaysInBounds` | `InBounds`: the scanner never asks for a position outside of its input |
| `ScannerTypes`, `TextStaysWithin` | `TypeOK` and `TextWithin` of `ScannerLoop` |
| `ImplementsFrame` | `ParserRun` implements `FrameSpec`: `Get`, `SynErr` and `SemErr` in any order |
| `ErrorsReported`, `ParsersReport` | `Reported`, of `FrameSpec` and so of every parser |
| `ParserTypes` | `TypeOK` of `ParserRun` |

Assumptions on constants, each evaluated by TLC in a run of its module:
`SymsAssumption`, `TextAssumption`, `GraphAssumption`, `BoundsAssumption` (what a
grammar can contain), `CharsAssumption`, `DepthAssumption`, `SizesAssumption` (a token
is smaller than a block, which `Scanner::Init` checks), `LengthsAssumption`,
`ScannerAssumption` (inputs are bytes), `GrammarAssumption` (arcs lead to states, EoF is
on none; delimiters of comments have one or two characters, which `DFA::CommentStr`
checks), `SymbolsAssumption`, `ParserAssumption` (inputs are terminals and pragmas).

`TypeOK` of `Determinize` is inductive as it stands because it also says where the
positions are while lists change under them (`PositionTypes`).  Its proof and
`MakeUniqueKeepsMoves` rest on the lemmas at the front of `Determinize_proofs` about
inserting into and removing from a list.

`DeterministicWritten` follows from `DeterministicSoFar`, which says how far each loop
is: `MakeUnique` has compared the pairs before its two pointers (`ComparedApart`) and
the states before the current one are deterministic; melting leaves single targets
behind it, and `CombineEqual` and `DeleteRedundantStates` keep what they find.  The
two theorems do not ask for `~stale`: whatever a stale entry stands for, a list with it
is deterministic.

`TokensKept`, `AmbiguityReported` and `AutomatonClosed` follow from `SubsetInv`
(`SubsetConstruction`).  While states are melted each one has a set it stands for
(`StandsFor`): an old state stands for itself, a melted one for the numbers in its entry,
which are those of old states, since numbers are positions in the list as long as it
only grows (`Numbered`).  A state that is done ends, goes and is reached as its set was
before the round (`StandsWell`).  The state being built is on its way there: `Copied`
says which actions `MeltWith` has added, `Built` that `MakeUnique` keeps the moves they
have.  When final states are combined and unused ones deleted the numbers are
gone; what is left is that some relation between states and sets is respected by every
step (`Simulated`), and the pairs a common word leads to (`Pairs`) lie in each such
relation.  Hence `SameTokensUnlessStale`, and `ConflictsReported`, because a set in the
relation ends two tokens only if `failed` was set.  `EntriesDated` says that entries
of an earlier round exist from the second round on; so the tokens declared under
`TOKENS` are kept without a premise (`TokensKeptAtFirst`).  `SubsetInv` was
checked by TLC on the instance of `determinize` before it was proved; no run repeats that.

`ScannerKnowsTokens` and `LiteralsKnown` follow from `RecognitionInv` (`Recognition`), in
which an automaton is the set of its edges and a word takes it along a path of any
length.  During a round the automaton in question is the one the round began with;
while a token graph is converted, the edges still to be made count as there
(`WordsKept`).  A declaration adds a path or a graph that begins in `firstState`.  No
action leads back to `firstState` (`FirstNotEntered`): `DFA::ConvertToStates` gives no
node its state and melting makes new states.  So a word goes either the old way or the
new one and never changes over (`TwoParts`), and a declaration adds its own words and
nothing else.  `MatchLiteral` walks the automaton; where it has no choice the walk ends
where the word leads, so a string becomes a keyword only if it is a word of a symbol the
scanner looks keywords up for (`KeywordsClassified`).  At the end of a round the relation
of `SubsetInv` takes words of the old automaton to words of the new one and back
(`Determinized`).  The automaton that is written is deterministic and closed
(`DeterministicWritten`, `AutomatonClosed`), so its walk is the only path there is
(`WalkIsAll`).  All of it has two
premises: no stale entry was used and no error reported.  The words are those
of `Graph` and `Text`, so what a token asks for as its context belongs to them.  That
`Graph` has the words of the expression it was converted from is `WordsRecognised`, which
TLC checks.  `RecognitionInv` was checked by TLC on the instance of `determinize` before
it was proved; no run repeats that.

`CharSet`: the inductive invariant is that every list is canonical, and the work is
in `SetRight`, one lemma for each of the three ways `Set` extends a list (a new range,
a longer one, two that are joined).  The loops of the other operations are recursive
functions over a counter; that such a function exists and keeps what one turn keeps
(`LoopExists`, `LoopKeeps`) is proved by the least number for which it would not.
`EqualsRight` needs that there is one canonical list for a set: two different ones
would differ in a first range, and its bounds tell them apart (`NotLater`,
`NotLonger`).  `Elements` adds up the ranges as the loop does, and is the number of
characters because no range has one of another (`OneMore`).

`Levels` of `Preproc` is the inductive invariant that explains the three integers:
`exec` is the number of selected conditionals from the outermost in, and `prev`
tells of the first one that is not selected whether its first branch was.  With it
each line of the refinement is a case of `okay`.

In `TokenHeap` the invariant `IInv` (in `TokenHeap_proofs`) adds what the frees
rely on: tokens lie in the heap in the order of their numbers, the current token
is in a block that is not freed, each token from the current one on has the next
one as successor, and the top of the last block lies behind everything made.

`Sound` of `ScannerLoop_proofs` adds to `Window` what makes going back possible: what is
not in the window can be swapped in (`Reachable`), and the length known is that of
the input (`Direct`).  `UseSpec` is any sequence of `Read` and `SetPos` to positions
of the input, which is how the scanner uses it (`StaysInBounds`).

`CharacterRight` is about a buffer that has lost nothing (`Live`) and is at the first byte
of a character.  The first byte says how many follow (`LeadOfTwo` and its siblings), and
each of them adds six bits (`JoinedByte`); a byte that is read is the next one of the
input, whatever the buffer is over (`NextByte`).  Nothing is assumed of which encoding is
the shortest.  A character of four bytes can have the number of `Buffer::EoF` or a larger
one, which the comment at `Scanner.cpp:388` warns of: U+10000 is delivered as 65536 and
taken for the end of the input.

`WindowStaysRight`, `StaysInBounds` and `ScannerTypes` follow from `SInv`.  A buffer is
`Good` in one of four ways: `Sound`; `Vacant`, over an empty file; `Piped`, over a stream
that cannot seek, whose window is all that was read of it or `Lost`; `Streamed`, over a
`std::istream`, which has no window.  Each operation makes of a good buffer a
good one that still has all that was read (`Follows`), provided `SetPos` is told a
position that was `Seen`; the loops over bytes and chunks are runs of a recursive
function of which one turn is considered (`IsRun`).  So everything depends on what
the scanner goes back to.  `Sane` says it of the character it is at, from which `pos0` of
a comment and `t.pos` are taken, and since the length known never shrinks `t.pos` stays
seen (`Behind`).  That `oldEols` does not get below zero needs that a comment began on
no later line than it ends on (`line0`).  Over an empty file nothing is ever gone back
to: there is no character but EoF, and EoF begins neither comment nor token, which is
what `GrammarAssumption` is for.

`TextStaysWithin` needs, while the automaton runs, that `tlen` counts what was stored
and that the end remembered and the context lie within it (`Matched`); what is stored
does not matter, so the proof takes any characters and any buffer.

`ErrorsReported` is stated of `FrameSpec`, in which `Get` and errors come in any
order.  The invariant says of `errDist` that it counts no more tokens than lie behind
each error (`Behind`).  Every action of `ParserRun` is one of these or leaves the
variables alone (`StatementSteps`), hence `ImplementsFrame`, and `ParsersReport` follows.
Nothing is assumed of the statements; of the inputs only that they are sequences of
terminals and pragmas.  `ParserTypes` needs that reading the first token is all there is
to do until it was read (`RInv`).

Only model-checked: `WordsRecognised`, which beyond `ScannerRight` compares with what the
expressions mean, by a recursive definition; that a determinization ends; `TokensRight`, which compares with words of any
length; all of `TokenNFA`, `Analysis`, `ParserGen` and `ParserChecks`, whose algorithms
and references are recursive over graphs and texts, which is out of the prover's reach;
and liveness.

## Not modelled

The text that is written (formatting, line directives, attributes, the declarations
around the generated code), error messages, the command line, file handling, the
trace and cross reference listings, and the containers, which enter as sequences and
functions.  `CommentStr` and the declarations of character sets in the front end:
they are straight-line checks and calls of `CharSet`.  Frame files that are not
balanced and grammars the front end reports errors of, for which the program promises
nothing.

## What is left

The statements of `ParserChecks` for grammars with resolvers, once it is settled what an
alternative behind a resolver may rely on.
