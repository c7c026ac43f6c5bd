--------------------------- MODULE MCScannerLoop ---------------------------
(***************************************************************************)
(* The main loop of the scanners Coco/R makes of some small grammars: a    *)
(* context and a token that has to be cut back, nested comments and        *)
(* comments of one character, ends of line that matter, literals without   *)
(* case, characters of two and three bytes, contexts with something behind *)
(* them.                                                                   *)
(***************************************************************************)
EXTENDS ScannerChecks

Arc(syms, to) == [syms |-> syms, to |-> to, context |-> FALSE]
CtxArc(syms, to) == [syms |-> syms, to |-> to, context |-> TRUE]
State(endOf, arcs) == [endOf |-> endOf, ctx |-> FALSE, arcs |-> arcs]
CtxState(endOf, arcs) == [endOf |-> endOf, ctx |-> TRUE, arcs |-> arcs]
CommentOf(start, stop, nested) == [start |-> start, stop |-> stop, nested |-> nested]

Simple(start, states) ==
  [ignoreCase |-> FALSE, ignored |-> {}, comments |-> <<>>, classLit |-> {}, literals |-> <<>>,
   start |-> start, states |-> states]

a == 97
b == 98
One == 49
Dot == 46
Slash == 47
Star == 42
Hash == 35
Less == 60
Greater == 62
Eacute == 233
Euro == 8364

Numbers ==
  Simple(One :> 3 @@ Dot :> 6,
         <<CtxState("number", <<>>),
           State("real", <<Arc({One}, 2)>>),
           State("number", <<Arc({One}, 3), CtxArc({Dot}, 4)>>),
           CtxState("none", <<Arc({One}, 2), CtxArc({Dot}, 1)>>),
           State("..", <<>>),
           State(".", <<Arc({Dot}, 5)>>)>>)

Nested ==
  [Simple(a :> 1 @@ Slash :> 2 @@ Star :> 3,
          <<State("ident", <<>>), State("/", <<>>), State("*", <<>>)>>)
   EXCEPT !.ignored = {EOL},
          !.comments = <<CommentOf(<<Slash, Star>>, <<Star, Slash>>, TRUE),
                         CommentOf(<<Slash, Slash>>, <<EOL>>, FALSE)>>]

Lines ==
  [Simple(a :> 1 @@ EOL :> 2 @@ Greater :> 3,
          <<State("ident", <<>>), State("newline", <<>>), State(">", <<>>)>>)
   EXCEPT !.ignored = {CR},
          !.comments = <<CommentOf(<<Less>>, <<Greater>>, TRUE), CommentOf(<<Hash>>, <<EOL>>, FALSE)>>]

Words ==
  [Simple(a :> 5 @@ b :> 1 @@ Dot :> 4,
          <<State("ident", <<Arc({a, b}, 1)>>),
            State("none", <<Arc({b}, 3)>>),
            State("a.b", <<>>),
            State(".", <<>>),
            State("ident", <<Arc({a, b}, 1), Arc({Dot}, 2)>>)>>)
   EXCEPT !.ignoreCase = TRUE, !.classLit = {"ident"}, !.literals = <<b>> :> "b" @@ <<b, a>> :> "ba"]

Signs ==
  [Simple(Eacute :> 3 @@ Euro :> 3 @@ Dot :> 5,
          <<State("none", <<Arc({Eacute, Euro}, 2)>>),
            State("pair", <<>>),
            State("word", <<Arc({Eacute, Euro}, 3), Arc({Dot}, 1)>>),
            State(".a", <<>>),
            State(".", <<Arc({a}, 4)>>)>>)
   EXCEPT !.ignored = {EOL}]

Inner ==
  Simple(a :> 1 @@ Star :> 4,
         <<State("ident", <<CtxArc({b}, 2)>>),
           CtxState("none", <<Arc({Dot}, 3)>>),
           State("ab.", <<>>),
           State("none", <<CtxArc({b}, 5)>>),
           CtxState("none", <<Arc({Dot}, 6)>>),
           State("*b.", <<>>)>>)

Dotted ==
  [Simple(a :> 3 @@ b :> 3 @@ Dot :> 4,
          <<State("none", <<Arc({a, b}, 2)>>),
            State("dotted", <<>>),
            State("ident", <<Arc({a, b}, 3), Arc({Dot}, 1)>>),
            State(".", <<>>)>>)
   EXCEPT !.classLit = {"ident"}, !.literals = <<a, b>> :> "ab"]

----------------------------------------------------------------------------
(* The declarations they were made from.                                   *)

Texts(alphabet, lengths) == {<<>> \o text : text \in UNION {[1..n -> alphabet] : n \in lengths}}
Class(kind, words) == [kind |-> kind, words |-> words, context |-> <<>>, inner |-> {}]
Word(kind, word) == Class(kind, {word})

Ones == Texts({One}, 1..6)

Declarations ==
  [numbers |-> <<Class("number", Ones), [Class("number", Ones) EXCEPT !.context = <<Dot, Dot>>],
                 Class("real", {x \o <<Dot>> \o y : x, y \in Ones}),
                 Word("..", <<Dot, Dot>>), Word(".", <<Dot>>)>>,
   nested |-> <<Word("ident", <<a>>), Word("/", <<Slash>>), Word("*", <<Star>>)>>,
   lines |-> <<Word("ident", <<a>>), Word("newline", <<EOL>>), Word(">", <<Greater>>)>>,
   words |-> <<Word("b", <<b>>), Word("ba", <<b, a>>), Word("a.b", <<a, Dot, b>>), Word(".", <<Dot>>),
               Class("ident", Texts({a, b}, 1..5))>>,
   signs |-> <<Class("word", Texts({Eacute, Euro}, 1..4)),
               Class("pair", {x \o <<Dot, y>> : x \in Texts({Eacute, Euro}, 1..2), y \in {Eacute, Euro}}),
               Word(".", <<Dot>>), Word(".a", <<Dot, a>>)>>,
   inner |-> <<Word("ident", <<a>>), [Word("ab.", <<a, b, Dot>>) EXCEPT !.inner = {2}],
               [Word("*b.", <<Star, b, Dot>>) EXCEPT !.inner = {2}]>>,
   dotted |-> <<Word("ab", <<a, b>>), Word(".", <<Dot>>), Class("ident", Texts({a, b}, 1..4)),
                Class("dotted", {x \o <<Dot, y>> : x \in Texts({a, b}, 1..2), y \in {a, b}})>>]

\* The bytes of the characters, behind a byte order mark.
Utf8(c) == CASE c = Eacute -> <<195, 169>> [] c = Euro -> <<226, 130, 172>> [] OTHER -> <<c>>
WithMark(text) == <<239, 187, 191>> \o FoldLeft(LAMBDA bytes, c : bytes \o Utf8(c), <<>>, text)

SoundGrammars ==
  [numbers |-> Numbers, nested |-> Nested, lines |-> Lines, words |-> Words, signs |-> Signs,
   inner |-> Inner]

SoundInputs ==
  [numbers |-> Texts({One, Dot, Blank}, 0..6) \cup Texts({One, Dot, CR}, 3..4),
   nested |-> Texts({Slash, Star}, 0..7) \cup Texts({Slash, Star, EOL, a}, 3..4),
   lines |-> Texts({Hash, Less, Greater, EOL, CR, a}, 0..3) \cup Texts({Less, Greater, EOL, CR}, 4..6),
   words |-> Texts({a, 65, b, Dot}, 0..5),
   inner |-> Texts({a, b, Dot, Star}, 0..4),
   signs |-> {WithMark(x) : x \in Texts({Eacute, Euro, Dot, a, CR}, 0..4)}
             \cup {<<239, a, a>>, <<239, 187>>}]

DottedGrammars == [dotted |-> Dotted]
DottedInputs == [dotted |-> Texts({a, b, Dot}, 0..4)]

\* LET: TLC does not go through the definitions for the coverage of each use.
MCGrammar == LET grammars == SoundGrammars IN grammars
MCInputs == LET inputs == SoundInputs IN inputs
MCDeclared == LET tokens == Declarations IN tokens
MCDottedGrammar == LET grammars == DottedGrammars IN grammars
MCDottedInputs == LET inputs == DottedInputs IN inputs
MemoryOnly == {"memory"}
AllKinds == Kinds
=============================================================================
