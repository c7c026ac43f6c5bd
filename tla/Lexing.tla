------------------------------- MODULE Lexing -------------------------------
(***************************************************************************)
(* What the user of a scanner expects of it, with no buffer, automaton or  *)
(* way back: the input is a sequence of characters, each with its place;   *)
(* comments and blanks are taken out of it; and of the words of the token  *)
(* declarations the longest that the input begins with is the next token.  *)
(*                                                                         *)
(* The tokens are a sequence of [kind, words, context, inner], those       *)
(* before others preferred to them; inner are the places in the words that *)
(* a CONTEXT with something behind it stands for.                          *)
(***************************************************************************)
EXTENDS Integers, Sequences, SequencesExt, FiniteSetsExt

LOCAL EoF == 65536
LOCAL EOL == 10
LOCAL CR == 13

----------------------------------------------------------------------------
(* Characters.                                                             *)

\* UTF-8: the number of bytes of a character, and the bits of the first of them.
Width(byte) == CASE byte < 192 -> 1 [] byte \in 192..223 -> 2 [] byte \in 224..239 -> 3 [] OTHER -> 4
Bits(byte) == CASE byte < 192 -> byte [] byte \in 192..223 -> byte % 32
                [] byte \in 224..239 -> byte % 16 [] OTHER -> byte % 8

Decoded(bytes) == FoldLeft(LAMBDA c, byte : c * 64 + (byte % 64), Bits(Head(bytes)), Tail(bytes))

HasMark(data) == Len(data) > 2 /\ SubSeq(data, 1, 3) = <<239, 187, 191>>

\* The characters from byte i + 1 on, each with its position.
RECURSIVE CharsFrom(_, _, _)
CharsFrom(data, utf8, i) ==
  IF i >= Len(data) THEN <<[c |-> EoF, pos |-> Len(data)]>>
  ELSE LET n == IF utf8 THEN Width(data[i + 1]) ELSE 1
           c == IF utf8 THEN Decoded(SubSeq(data, i + 1, i + n)) ELSE data[i + 1]
       IN <<[c |-> c, pos |-> i]>> \o CharsFrom(data, utf8, i + n)

\* With '\n' for an isolated '\r', line and column, and in lower case if case is ignored.
Characters(gr, data) ==
  LET raw == IF HasMark(data) THEN CharsFrom(data, TRUE, 3) ELSE CharsFrom(data, FALSE, 0)
      val == [i \in DOMAIN raw |->
                IF raw[i].c = CR /\ raw[i + 1].c # EOL THEN EOL ELSE raw[i].c]
      Eols(i) == {j \in 1..i : val[j] = EOL}
  IN [i \in DOMAIN raw |->
        [val |-> val[i], pos |-> raw[i].pos, line |-> 1 + Cardinality(Eols(i)),
         ch |-> IF gr.ignoreCase /\ val[i] \in 65..90 THEN val[i] + 32 ELSE val[i],
         col |-> i - (IF Eols(i) = {} THEN 0 ELSE Max(Eols(i)))]]

Chs(s, n) == [i \in 1..n |-> s[i].ch]
Begins(s, text) == Len(text) <= Len(s) /\ Chs(s, Len(text)) = text

----------------------------------------------------------------------------
(* Comments.                                                               *)

\* The length of a comment whose text from i + 1 on is at that level, 0 if it is not closed.
RECURSIVE CommentLength(_, _, _, _)
CommentLength(s, cm, i, level) ==
  LET rest == SubSeq(s, i + 1, Len(s))
  IN IF Begins(rest, cm.stop)
     THEN IF level = 1 THEN i + Len(cm.stop)
          ELSE CommentLength(s, cm, i + Len(cm.stop), level - 1)
     ELSE IF cm.nested /\ Begins(rest, cm.start)
     THEN CommentLength(s, cm, i + Len(cm.start), level + 1)
     ELSE IF s[i + 1].ch = EoF THEN 0
     ELSE CommentLength(s, cm, i + 1, level)

\* The ends of line in the first n characters, at the place of the last of them.
EolsAfter(s, n) ==
  LET eols == SelectSeq(SubSeq(s, 1, n), LAMBDA x : x.ch = EOL)
  IN [i \in DOMAIN eols |-> [s[n] EXCEPT !.ch = EOL, !.val = EOL]]

----------------------------------------------------------------------------
(* Tokens.                                                                 *)

Matches(s, toks) ==
  {<<i, w>> \in UNION {{i} \X toks[i].words : i \in DOMAIN toks} : Begins(s, w \o toks[i].context)}

MatchLength(toks, m) == Len(m[2]) + Len(toks[m[1]].context)

\* The longest match, and of those the token that is preferred.
Longest(s, toks) ==
  LET all == Matches(s, toks)
      length == Max({MatchLength(toks, m) : m \in all})
  IN CHOOSE m \in all : /\ MatchLength(toks, m) = length
                        /\ \A o \in all : MatchLength(toks, o) = length => m[1] <= o[1]

\* What no token matches is one token as far as one could have, without the inner
\* context it breaks off behind.
Hopeless(s, toks) ==
  LET begun(n) == {i \in DOMAIN toks : \E w \in toks[i].words :
                                         IsPrefix(Chs(s, n), w \o toks[i].context)}
      length == Max({1} \cup {n \in 1..Len(s) : begun(n) # {}})
      broken == {i \in begun(length) : length \in toks[i].inner /\ length + 1 \notin toks[i].inner}
  IN length - Max({0} \cup {Cardinality(toks[i].inner) : i \in broken})

Tok(kind, s, n) ==
  [kind |-> kind, pos |-> s[1].pos, line |-> s[1].line, col |-> s[1].col,
   text |-> [i \in 1..n |-> s[i].val]]

RECURSIVE Lex(_, _, _)
Lex(gr, toks, s) ==
  LET behind(n) == SubSeq(s, n + 1, Len(s))
      opens == {i \in DOMAIN gr.comments : Begins(s, gr.comments[i].start)}
      cm == gr.comments[Min(opens)]
      length == CommentLength(s, cm, Len(cm.start), 1)
      token == Longest(s, toks)
      hopeless == Hopeless(s, toks)
  IN IF s[1].ch = 32 \/ s[1].ch \in gr.ignored THEN Lex(gr, toks, behind(1))
     ELSE IF opens # {}
     THEN Lex(gr, toks, IF length = 0 THEN <<s[Len(s)]>> ELSE EolsAfter(s, length) \o behind(length))
     ELSE IF s[1].ch = EoF THEN <<Tok("EOF", s, 0)>>
     ELSE IF Matches(s, toks) = {}
     THEN <<Tok("noSym", s, hopeless)>> \o Lex(gr, toks, behind(hopeless))
     ELSE <<Tok(toks[token[1]].kind, s, Len(token[2]))>> \o Lex(gr, toks, behind(Len(token[2])))

\* The tokens of the input.
Tokenized(gr, toks, data) == Lex(gr, toks, Characters(gr, data))
=============================================================================
