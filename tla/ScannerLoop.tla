---------------------------- MODULE ScannerLoop ----------------------------
(***************************************************************************)
(* The main loop of a generated scanner: NextCh, AddCh, the comments,      *)
(* NextToken and SetScannerBehindT, as Scanner.frame has them and class    *)
(* DFA fills them in for a grammar.                                        *)
(*                                                                         *)
(* The grammar is what DFA writes into the scanner: the start table, the   *)
(* states, the comments (in the order of its list), the literals and the   *)
(* characters to ignore.  One action is one turn of a loop of the scanner, *)
(* or one case of its switch.                                              *)
(***************************************************************************)
EXTENDS Buffer

CONSTANTS
  Grammar,         \* the grammars, by name
  Inputs,          \* for each of them, the inputs to scan
  InputKinds,      \* what the buffer is made from
  TvalLength,      \* the length tval has at first
  MaxTokens,       \* bound on the tokens delivered
  MaxColumn        \* bound on the characters read into a comment that never ends

ASSUME ScannerAssumption ==
  /\ DOMAIN Inputs = DOMAIN Grammar
  /\ \A g \in DOMAIN Inputs : Inputs[g] \subseteq Seq(0..255)
  /\ InputKinds \subseteq Kinds
  /\ TvalLength \in Nat \ {0}
  /\ MaxTokens \in Nat
  /\ MaxColumn \in Nat

Codes == 0..(EoF - 1)

\* Delimiters have one or two characters, states are entered by characters and lead to
\* states: EoF is no character.
ASSUME GrammarAssumption ==
  \A g \in DOMAIN Grammar :
    LET states == Grammar[g].states
        comments == Grammar[g].comments
        Steps == [syms : SUBSET Codes, to : DOMAIN states, context : BOOLEAN]
    IN /\ Grammar[g].ignoreCase \in BOOLEAN /\ Grammar[g].ignored \subseteq Codes
       /\ DOMAIN comments \subseteq Nat \ {0}
       /\ \A i \in DOMAIN comments : \A d \in {comments[i].start, comments[i].stop} :
            d \in Seq(Codes) /\ Len(d) \in {1, 2}
       /\ \A ch \in DOMAIN Grammar[g].start : Grammar[g].start[ch] \in DOMAIN states
       /\ \A s \in DOMAIN states : states[s].arcs \in Seq(Steps)

VARIABLES
  grammar,     \* the name of the grammar
  in,          \* the buffer b, and ch, valCh, pos, line, col, oldEols of the scanner
  txt,         \* tval, tlen and tvalLength; what tval never held is not in the sequence
  t,           \* pos, line and col of the token
  state,       \* the state of the automaton
  rec,         \* recKind, recEnd, and how many characters the token had then
  apx,         \* length of the context recognized
  left,        \* the characters SetScannerBehindT has still to skip
  com,         \* the comment tried: index, level, pos0, line0, col0
  pc,          \* skipping: in the loop over blanks; opening: in the condition over the
               \* comments; comment: in the body of one; matching: in the switch;
               \* returning: in the loop of SetScannerBehindT; cutting: the same, before case_0;
               \* failing: at case_0, behind the cut; ended: EOF was delivered; stopped: exit(1)
  delivered,   \* the tokens NextToken returned
  skewed       \* history: a token was cut back to another length than it had

vars == <<grammar, in, txt, t, state, rec, apx, left, com, pc, delivered, skewed>>

gr == Grammar[grammar]

EOL == 10
CR == 13
Blank == 32

NoSym == "noSym"
EofSym == "EOF"
NoToken == "none"     \* a state that is not final

\* The letters A..Z.
LowerCase(ch) == IF ch \in 65..90 THEN ch + 32 ELSE ch

----------------------------------------------------------------------------
(* Characters.                                                             *)

Cased(c) ==
  IF gr.ignoreCase THEN [c EXCEPT !.valCh = c.ch, !.ch = LowerCase(c.ch)]
  ELSE [c EXCEPT !.valCh = c.ch]

\* An isolated '\r' is an end of line: what follows it is looked at.
UniformEol(r) ==
  LET eol(next) == [b |-> next.b, ch |-> IF next.ch # EOL THEN EOL ELSE CR]
  IN IF r.ch = CR THEN eol(Peek(r.b)) ELSE r

Moved(c, r) ==
  [c EXCEPT !.b = r.b, !.ch = r.ch, !.pos = GetPos(c.b),
            !.line = IF r.ch = EOL THEN @ + 1 ELSE @, !.col = IF r.ch = EOL THEN 0 ELSE @ + 1]

NextCh(c) ==
  Cased(IF c.oldEols > 0 THEN [c EXCEPT !.ch = EOL, !.oldEols = @ - 1]
        ELSE Moved(c, UniformEol(Read(c.b))))

Goto(c, p) == [c EXCEPT !.b = SetPos(@, p)]

\* Back to a place the scanner was at before.
Return(c, p, l, k) == [NextCh(Goto(c, p)) EXCEPT !.line = l, !.col = k]

\* Mutant: the buffer is doubled only once it is overrun.
GrownLate(x) ==
  IF x.tlen > x.tvalLength
  THEN [x EXCEPT !.tvalLength = @ * 2, !.tval = SubSeq(@, 1, x.tlen)] ELSE x

\* tval is doubled when it is full.
Grown(x) ==
  IF x.tlen >= x.tvalLength
  THEN [x EXCEPT !.tvalLength = @ * 2, !.tval = SubSeq(@, 1, x.tlen)] ELSE x

\* tval[tlen++] = ch
Appended(x, ch) ==
  [x EXCEPT !.tlen = @ + 1,
            !.tval = SubSeq(@, 1, x.tlen) \o <<ch>> \o SubSeq(@, x.tlen + 2, Len(@))]

AddedText(x, c) == IF c.ch = EoF THEN Grown(x) ELSE Appended(Grown(x), c.valCh)
AddedCh(c) == IF c.ch = EoF THEN c ELSE NextCh(c)

----------------------------------------------------------------------------
(* The scanner before the first token: the byte order mark chooses the     *)
(* buffer.                                                                 *)

Start(b) == [b |-> b, ch |-> 0, valCh |-> 0, pos |-> -1, line |-> 1, col |-> 0, oldEols |-> 0]

Illegal(c) == [c EXCEPT !.b = Exit(@)]

\* The other two of the three bytes.
Marked(c1, c2) ==
  IF c1.ch # 187 \/ c2.ch # 191 THEN Illegal(c2)
  ELSE NextCh([c2 EXCEPT !.b = UTF8Buffer(@), !.col = 0])

Scanner(b) ==
  LET behindMark(c1) == Marked(c1, NextCh(c1))
      begin(c) == IF c.ch = 239 THEN behindMark(NextCh(c)) ELSE c
  IN begin(NextCh(Start(b)))

Init ==
  /\ grammar \in DOMAIN Grammar
  /\ \E kind \in InputKinds, data \in Inputs[grammar] : in = Scanner(Buffered(kind, data))
  /\ txt = [tval |-> <<>>, tlen |-> 0, tvalLength |-> TvalLength]
  /\ t = [pos |-> 0, line |-> 0, col |-> 0]
  /\ state = 0 /\ apx = 0 /\ left = 0
  /\ rec = [kind |-> NoSym, end |-> 0, chars |-> 0]
  /\ com = [index |-> 0, level |-> 0, pos0 |-> 0, line0 |-> 0, col0 |-> 0]
  /\ pc = IF in.b.exited THEN "stopped" ELSE "skipping"
  /\ delivered = <<>> /\ skewed = FALSE

\* The program goes on at that place, unless the buffer stopped it.
At(place) == pc' = IF in'.b.exited THEN "stopped" ELSE place

----------------------------------------------------------------------------
(* NextToken up to the token: blanks and comments.                         *)

Ignored(ch) == ch = Blank \/ ch \in gr.ignored

SkipBlank ==
  /\ pc = "skipping" /\ Ignored(in.ch) /\ Len(delivered) < MaxTokens
  /\ in' = NextCh(in)
  /\ At("skipping")
  /\ UNCHANGED <<grammar, txt, t, state, rec, apx, left, com, delivered, skewed>>

\* NextToken is called, or calls itself behind a comment.
Restart == com' = [com EXCEPT !.index = 0] /\ At("skipping")

\* The comments not tried at this place that may begin with the character.
Candidates == {i \in DOMAIN gr.comments : i > com.index /\ gr.comments[i].start[1] = in.ch}
InTurn == CHOOSE i \in Candidates : \A j \in Candidates : i <= j

BehindBlanks ==
  /\ pc = "opening" \/ (pc = "skipping" /\ ~Ignored(in.ch))
  /\ Len(delivered) < MaxTokens

\* std::wstring::operator[](1), of a text of one character too.
Second(text) == IF Len(text) = 2 THEN text[2] ELSE 0

\* Mutant: line and column stay where the second character was.
NoCommentHere(c) == NextCh(Goto(c, in.pos))

\* It was no comment.
BackFromComment(c) == Return(c, in.pos, in.line, in.col)

Comment ==
  /\ BehindBlanks /\ Candidates # {}
  /\ \E c1 \in {NextCh(in)}, start \in {gr.comments[InTurn].start} :
       /\ com' = [index |-> InTurn, level |-> 1,
                  pos0 |-> in.pos, line0 |-> in.line, col0 |-> in.col]
       /\ IF Len(start) = 1 THEN in' = c1 /\ At("comment")
          ELSE IF c1.ch = start[2] THEN in' = NextCh(c1) /\ At("comment")
          ELSE in' = BackFromComment(c1) /\ At("opening")
  /\ UNCHANGED <<grammar, txt, t, state, rec, apx, left, delivered, skewed>>

current == gr.comments[com.index]

\* Mutant: the lines are counted backwards.
EolsBackwards(c) == [c EXCEPT !.oldEols = com.line0 - c.line]

\* The ends of line in the comment come after it.
OldEols(c) == [c EXCEPT !.oldEols = c.line - com.line0]

\* The last character of a closing delimiter was read.
CloseLevel(c) ==
  /\ in' = NextCh(IF com.level = 1 THEN OldEols(c) ELSE c)
  /\ IF com.level = 1 THEN Restart
     ELSE com' = [com EXCEPT !.level = @ - 1] /\ At("comment")

Nest(c) == in' = NextCh(c) /\ com' = [com EXCEPT !.level = @ + 1] /\ At("comment")

GoOn(c) == in' = c /\ com' = com /\ At("comment")

InComment ==
  /\ pc = "comment" /\ in.col < MaxColumn
  /\ UNCHANGED <<grammar, txt, t, state, rec, apx, left, delivered, skewed>>

Closes == in.ch = current.stop[1]
Nests == ~Closes /\ current.nested /\ in.ch = current.start[1]

\* The character that decides on a delimiter: the second one, if it has two.
Deciding(delimiter) == IF Len(delimiter) = 1 THEN in ELSE NextCh(in)

CommentStop ==
  /\ InComment /\ Closes
  /\ \E c \in {Deciding(current.stop)} :
       IF Len(current.stop) = 1 \/ c.ch = Second(current.stop) THEN CloseLevel(c) ELSE GoOn(c)

\* How the opening delimiter is recognized depends on the length of the closing one.
CommentStart ==
  /\ InComment /\ Nests
  /\ \E c \in {Deciding(current.stop)} :
       IF Len(current.stop) = 1 \/ c.ch = Second(current.start) THEN Nest(c) ELSE GoOn(c)

CommentBody ==
  /\ InComment /\ ~Closes /\ ~Nests /\ in.ch # EoF
  /\ GoOn(NextCh(in))

\* It does not end: the next comment is tried, at the end of the input.
CommentUnclosed ==
  /\ InComment /\ ~Closes /\ ~Nests /\ in.ch = EoF
  /\ pc' = "opening" /\ UNCHANGED <<in, com>>

----------------------------------------------------------------------------
(* NextToken: the automaton.                                               *)

EmptyText == [txt EXCEPT !.tlen = 0]

Text(x) == SubSeq(x.tval, 1, Least(x.tlen, Len(x.tval)))

Token(kind, place, x) ==
  [kind |-> kind, pos |-> place.pos, line |-> place.line, col |-> place.col, text |-> Text(x)]

\* AppendVal, and the call of NextToken for the token after it.
Deliver(token) ==
  /\ delivered' = Append(delivered, token)
  /\ com' = [com EXCEPT !.index = 0]
  /\ At(IF token.kind = EofSym THEN "ended" ELSE IF left' > 0 THEN "returning" ELSE "skipping")

Place == [pos |-> in.pos, line |-> in.line, col |-> in.col]
Unrecognized == [kind |-> NoSym, end |-> in.pos, chars |-> 0]

\* The token's first character, which may be none.
StartToken ==
  /\ BehindBlanks /\ Candidates = {}
  /\ t' = Place /\ rec' = Unrecognized /\ apx' = 0 /\ left' = 0
  /\ txt' = AddedText(EmptyText, in)
  /\ in' = AddedCh(in)
  /\ IF in.ch = EoF
     THEN Deliver(Token(EofSym, Place, txt')) /\ UNCHANGED state
     ELSE IF in.ch \in DOMAIN gr.start
     THEN state' = gr.start[in.ch] /\ At("matching") /\ UNCHANGED <<com, delivered>>
     ELSE Deliver(Token(NoSym, Place, txt')) /\ UNCHANGED state
  /\ UNCHANGED <<grammar, skewed>>

here == gr.states[state]

\* recEnd = pos; recKind = ...
Recognized ==
  IF here.endOf # NoToken /\ here.arcs # <<>>
  THEN [kind |-> here.endOf, end |-> in.pos, chars |-> txt.tlen]
  ELSE rec

Arcs == {i \in DOMAIN here.arcs : in.ch \in here.arcs[i].syms}
FirstArc == here.arcs[CHOOSE i \in Arcs : \A j \in Arcs : i <= j]

Apx(arc) == IF arc.context THEN apx + 1 ELSE IF here.ctx THEN 0 ELSE apx

Matching ==
  /\ pc = "matching" /\ Arcs # {}
  /\ rec' = Recognized
  /\ apx' = Apx(FirstArc)
  /\ txt' = AddedText(txt, in)
  /\ in' = AddedCh(in)
  /\ state' = FirstArc.to
  /\ At("matching")
  /\ UNCHANGED <<grammar, t, left, com, delivered, skewed>>

\* Mutant: the text is not skipped.
SetScannerToT(x) == in' = Return(in, t.pos, t.line, t.col) /\ left' = 0

\* SetScannerBehindT: back to the token's first character, and over its text.
SetScannerBehindT(x) ==
  in' = Return(in, t.pos, t.line, t.col) /\ left' = x.tlen

SkipText ==
  /\ pc \in {"returning", "cutting"}
  /\ in' = NextCh(in)
  /\ left' = left - 1
  /\ At(IF left > 1 THEN pc ELSE IF pc = "cutting" THEN "failing" ELSE "skipping")
  /\ UNCHANGED <<grammar, txt, t, state, rec, apx, com, delivered, skewed>>

CutContext == [txt EXCEPT !.tlen = @ - apx]

\* A context state whose actions do not go on in the context: the appendix is cut.
CtxEnd == here.ctx /\ \A i \in DOMAIN here.arcs : ~here.arcs[i].context

Literal(x) == IF gr.ignoreCase THEN [i \in DOMAIN Text(x) |-> LowerCase(Text(x)[i])] ELSE Text(x)

\* keywords.get, for the tokens that may be literals.
KindOf(kind, x) ==
  IF kind \in gr.classLit /\ Literal(x) \in DOMAIN gr.literals THEN gr.literals[Literal(x)]
  ELSE kind

AtEnd == pc = "matching" /\ Arcs = {} /\ rec' = Recognized /\ UNCHANGED <<grammar, t, state, apx>>

\* The state is final.
Accept ==
  /\ AtEnd /\ here.endOf # NoToken
  /\ IF CtxEnd THEN txt' = CutContext /\ SetScannerBehindT(txt')
     ELSE UNCHANGED <<txt, in, left>>
  /\ Deliver(Token(KindOf(here.endOf, txt'), t, txt'))
  /\ UNCHANGED skewed

CutBack == [txt EXCEPT !.tlen = rec.end - t.pos]

\* The state is not final, and reached by a CONTEXT inside of a token.
Cut ==
  /\ AtEnd /\ here.endOf = NoToken /\ CtxEnd
  /\ txt' = CutContext /\ SetScannerBehindT(txt')
  /\ At(IF left' > 0 THEN "cutting" ELSE "failing")
  /\ UNCHANGED <<com, delivered, skewed>>

\* goto case_0
Fails ==
  \/ AtEnd /\ here.endOf = NoToken /\ ~CtxEnd
  \/ pc = "failing" /\ UNCHANGED <<grammar, t, state, rec, apx>>

\* case_0: the longest token recognized on the way, or none.
Fallback ==
  /\ Fails
  /\ IF rec.kind # NoSym THEN txt' = CutBack /\ SetScannerBehindT(txt')
     ELSE UNCHANGED <<txt, in, left>>
  /\ skewed' = (skewed \/ (rec.kind # NoSym /\ txt'.tlen # rec.chars))
  /\ Deliver(Token(rec.kind, t, txt'))

----------------------------------------------------------------------------
(* The loop has work until EOF was delivered, the buffer stopped it, or it *)
(* comes to one of the bounds.                                             *)

Running ==
  /\ pc \notin {"ended", "stopped"}
  /\ pc \in {"skipping", "opening"} => Len(delivered) < MaxTokens
  /\ pc = "comment" => in.col < MaxColumn

Finished == ~Running /\ UNCHANGED vars

Next ==
  \/ SkipBlank
  \/ Comment \/ CommentStop \/ CommentStart \/ CommentBody \/ CommentUnclosed
  \/ StartToken \/ Matching \/ Accept \/ Cut \/ Fallback \/ SkipText
  \/ Finished

\* Nothing else runs: as long as the scanner has work it does some.  This is weak
\* fairness with Running in place of ENABLED, which is not simple to evaluate; that
\* no state is a deadlock says that they agree.
Fairness == []<>~Running \/ []<><<TRUE>>_vars

Spec == Init /\ [][Next]_vars /\ Fairness

----------------------------------------------------------------------------
(* Properties.                                                             *)

Places == [pos : Int, line : Int, col : Int]

\* The tokens the automaton recognizes.
Recognizable == {NoSym} \cup {gr.states[s].endOf : s \in DOMAIN gr.states}

TypeOK ==
  /\ grammar \in DOMAIN Grammar
  /\ in.b.kind \in InputKinds /\ in.b.data \in Seq(0..255)
  /\ in.ch \in Int /\ in.pos \in Int /\ in.line \in Nat /\ in.col \in Nat /\ in.oldEols \in Nat
  /\ txt.tlen \in Int /\ txt.tvalLength \in Nat
  /\ t \in Places
  /\ rec \in [kind : Recognizable, end : Int, chars : Nat]
  /\ apx \in Nat /\ left \in Int
  /\ com \in [index : Nat, level : Nat, pos0 : Int, line0 : Int, col0 : Int]
  /\ pc \in {"skipping", "opening", "comment", "matching", "returning", "cutting", "failing",
            "ended", "stopped"}
  /\ Len(delivered) <= MaxTokens
  /\ skewed \in BOOLEAN

\* What the buffer holds are the bytes of the input around its position, however
\* the scanner went back and forth and the window was moved and swapped in.
WindowRight == in.b.kind # "istream" /\ ~Lost(in.b) => Window(in.b)

\* The scanner goes back only to where it was: it never leaves the input, and stops
\* for no other reason than a byte order mark that is none.
InBounds == in.b.exited => delivered = <<>> /\ in.b.data[1] = 239

\* The text of a token, the longest one too, is inside of tval.
TextWithin ==
  /\ Len(txt.tval) <= txt.tvalLength
  /\ ~skewed => txt.tlen \in 0..Len(txt.tval)

\* A std::istream that failed at its end and was told to go back gives out no EoF.
Failed(b) == b.kind = "istream" /\ b.fail

\* Every input comes to its end: no way back is taken for ever.
Ends == <>(pc \in {"ended", "stopped"} \/ Failed(in.b))
=============================================================================
