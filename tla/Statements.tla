----------------------------- MODULE Statements -----------------------------
(***************************************************************************)
(* The statements of the productions in a generated parser, their          *)
(* conditions and the messages of the errors they find.                    *)
(***************************************************************************)

\* Statements.
Call(sym)                        == [op |-> "call", sym |-> sym]
GetStatement                     == [op |-> "get"]
Expect(sym)                      == [op |-> "expect", sym |-> sym]
ExpectWeak(sym, follow)          == [op |-> "expectWeak", sym |-> sym, follow |-> follow]
GetIf(cond, err)                 == [op |-> "getIf", cond |-> cond, err |-> err]
Error(err)                       == [op |-> "error", err |-> err]
WhileNot(cond, err)              == [op |-> "whileNot", cond |-> cond, err |-> err]
Choice(branches, err)            == [op |-> "choice", branches |-> branches, err |-> err]
While(cond, body)                == [op |-> "while", cond |-> cond, body |-> body]
WhileWeak(sym, sy, rep, body)    == [op |-> "whileWeak", sym |-> sym, syFol |-> sy, repFol |-> rep,
                                     body |-> body]
SemText                          == [op |-> "semText"]

\* Messages.
AltErr(sym)  == <<"invalid", sym>>
SyncErr(sym) == <<"this symbol not expected in", sym>>
TErr(sym)    == <<"expected", sym>>
NoErr        == <<"none">>

\* Conditions.
OneOf(s)   == [typ |-> "oneOf", s |-> s, i |-> 0]
StartOf(i) == [typ |-> "startOf", s |-> {}, i |-> i]
Resolver   == [typ |-> "rslv", s |-> {}, i |-> 0]
Else       == [typ |-> "else", s |-> {}, i |-> 0]
=============================================================================
