-------------------------- MODULE MCCheckedProgram --------------------------
(***************************************************************************)
(* Functions of one input a with a local d: a compound statement between a *)
(* definition of d and a return; and functions with a contract, some of    *)
(* them through a helper that has one too.                                 *)
(***************************************************************************)
EXTENDS CheckedProgram

CONSTANTS xa, xd

MCWord    == -8..7
MCNarrow  == -4..3
MCUnknown == -9..8

Num(n)       == [e |-> "int", n |-> n]
Id(n)        == [e |-> "ident", name |-> n]
Bin(op, l, r) == [e |-> "bin", op |-> op, lhs |-> l, rhs |-> r]
Cmp(op, l, r) == [e |-> "cmp", op |-> op, lhs |-> l, rhs |-> r]
Neg(x)       == [e |-> "neg", arg |-> x]
At(x)        == [e |-> "index", arg |-> x]
Set1(n, x)   == [e |-> "assign", name |-> n, arg |-> x]
Apply(x)     == [e |-> "call", fn |-> "help", args |-> <<x>>]
Both(x, y)   == [e |-> "and", lhs |-> x, rhs |-> y]
NotE(x)      == [e |-> "not", arg |-> x]
IfE(c, t, e) == [e |-> "if", cond |-> c, then |-> t, els |-> e]
Else(b)      == [k |-> "block", body |-> b]
Elif(c, b, e) == [k |-> "elif", chain |-> IfE(c, b, e)]
NoElse       == [k |-> "none"]

Let(n, ty, v) == [s |-> "let", name |-> n, ty |-> ty, val |-> v]
Do(x)        == [s |-> "expr", val |-> x]
Ret(x)       == [s |-> "return", val |-> x]
While(c, b)  == [s |-> "while", cond |-> c, body |-> b]
Audited(b)   == [s |-> "audited", body |-> b]

Fn(ty, body, pre, post) == [params |-> <<<<xa, ty>>>>, ret |-> ty, body |-> body, pre |-> pre, post |-> post]
Alone(f, vs) == [fns |-> [main |-> f], validates |-> vs, main |-> "main"]

-----------------------------------------------------------------------------
Zero == Cmp("==", Id(xa), Num(0))
Less == Cmp("<", Id(xa), Id(xd))

Leaves(ty) ==
  {Do(Set1(xd, x)) : x \in {Num(1), Id(xa), Neg(Id(xa)), Bin("+", Id(xd), Num(1))}}
  \cup {Let(xd, ty, Bin("-", Id(xa), Num(1))), Do(Bin("/", Num(1), Id(xd))), Do(At(Id(xd))), Ret(Id(xd))}

Blocks(ty, n) == UNION {[1..k -> Leaves(ty)] : k \in 0..n}

Compounds(ty) ==
  UNION {
    {Do(IfE(c, x, Else(y))) : c \in {Zero, Both(NotE(Zero), Less)}, x \in Blocks(ty, 1), y \in Blocks(ty, 1)},
    {Do(IfE(Zero, x, Elif(Less, y, NoElse))) : x \in Blocks(ty, 1), y \in Blocks(ty, 1)},
    {While(c, b) : c \in {Less, Cmp("<", Set1(xd, Bin("+", Id(xd), Num(1))), Id(xa))}, b \in Blocks(ty, 1)},
    {While(Less, b) : b \in [1..2 -> Leaves(ty)]},
    {Audited(b) : b \in Blocks(ty, 1) \cup {<<Ret(Bin("+", Id(xd), Num(1)))>>}},
    {Let(xd, ty, IfE(Zero, <<Do(x)>>, Else(<<Do(y)>>))) : x, y \in {Num(1), Id(xa), Bin("*", Id(xa), Id(xa))}}}

Lasts == {<<Ret(Num(0))>>, <<Ret(Bin("/", Id(xa), Id(xd)))>>, <<Let("x", "i64", At(Id(xd))), Ret(Num(0))>>}

Guarded ==
  {Alone(Fn("i8", <<Let(xd, "i8", v), m>> \o r, NoExpr, NoExpr), <<>>) :
     v \in {Num(0), Id(xa)}, m \in Compounds("i8"), r \in Lasts}
  \cup {Alone(Fn("i64", <<Let(xd, "i64", v), Do(IfE(Zero, x, NoElse))>> \o r, NoExpr, NoExpr), <<>>) :
     v \in {Id(xa), Bin("+", Id(xa), Num(1))}, x \in Blocks("i64", 1), r \in Lasts}

-----------------------------------------------------------------------------
Posts == {Cmp("<=", Id(xa), Id("result")), Cmp("==", Id("result"), Num(1)), Cmp("<", Id("result"), Id(xd))}
Pres  == {NoExpr, Cmp("<", Num(0), Id(xa))}

\* Ways to return: at once, from branches, through a chain, nested, from audited.
Bodies ==
  LET x == Ret(Id(xa))
      y == Ret(Num(1))
      one == {<<x>>, <<y>>, <<>>, <<Do(IfE(Zero, <<y>>, NoElse))>>}
  IN  {<<x>>, <<y>>, <<Ret(IfE(Zero, <<Do(Num(1))>>, Else(<<Do(Id(xa))>>)))>>,
       <<Let(xd, "i8", Bin("+", Id(xa), Num(1))), Ret(Id(xd))>>,
       <<While(Zero, <<>>), x>>, <<Let(xd, "i8", At(Id(xa))), y>>}
      \cup {<<Do(IfE(Cmp("<", Id(xa), Num(1)), p, e)), q>> :
              p \in one, e \in {NoElse} \cup {Else(b) : b \in one} \cup {Elif(Zero, b, NoElse) : b \in one}, q \in {x, y}}
      \cup {<<Audited(b), q>> : b \in one, q \in {x, y}}

Contracted == {Alone(Fn("i8", b, pre, post), <<"main">>) : b \in Bodies, pre \in Pres, post \in Posts}

\* main by the contract of help, whichever is listed first.
Helped ==
  {[fns |-> [main |-> Fn("i8", b, pre, post), help |-> Fn("i8", h, hp, Cmp("<=", Id(xa), Id("result")))],
    validates |-> v, main |-> "main"] :
     b \in {<<Ret(Apply(Id(xa)))>>, <<Let(xd, "i8", Apply(Bin("+", Id(xa), Num(1)))), Ret(Id(xd))>>, <<Ret(Bin("+", Apply(Id(xa)), Num(1)))>>},
     h \in {<<Ret(Id(xa))>>, <<Ret(Bin("+", Id(xa), Num(1)))>>, <<Ret(Bin("/", Num(1), Id(xa)))>>},
     pre \in Pres, hp \in Pres, post \in Posts,
     v \in {<<"main", "help">>, <<"help", "main">>, <<"main">>}}

MCPrograms == Guarded \cup Contracted \cup Helped
=============================================================================
