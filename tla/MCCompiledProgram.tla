------------------------- MODULE MCCompiledProgram -------------------------
(***************************************************************************)
(* Programs over one parameter p and the locals q and p: up to a statement *)
(* before and after one compound statement, whose blocks hold one or two.  *)
(***************************************************************************)
EXTENDS CompiledProgram

CONSTANTS xp, xq

MCSigs ==
  [take |-> [params |-> <<"box">>, ret |-> "bool"],
   wrap |-> [params |-> <<"box">>, ret |-> "box"]]

Num        == [e |-> "int"]
Cond       == [e |-> "bool"]
Id(n)      == [e |-> "ident", name |-> n]
Un(k, x)   == [e |-> k, arg |-> x]
NewBox     == Un("box", Num)
Str        == [e |-> "str"]
Field(x, f) == [e |-> "field", arg |-> x, field |-> f]
Send(x, v) == [e |-> "send", arg |-> x, val |-> v]
Invoke(f, x) == [e |-> "call", fn |-> f, args |-> <<x>>]
Take(n)    == Invoke("take", Id(n))
Set1(n, x) == [e |-> "assign", name |-> n, arg |-> x]
IfE(c, a, els) == [e |-> "if", cond |-> c, then |-> a, els |-> els]
Else(b)    == [k |-> "block", body |-> b]
Match(x, a, b) == [e |-> "match", arg |-> x, bind |-> xq, arms |-> <<a, b>>]

Let(n, t, v) == [s |-> "let", name |-> n, ty |-> t, val |-> v]
Do(x)        == [s |-> "expr", val |-> x]
Ret(x)       == [s |-> "return", val |-> x]
While(c, b)  == [s |-> "while", cond |-> c, body |-> b]
Audited(b)   == [s |-> "audited", body |-> b]

\* The statements worth having around a parameter of type ty, in a function
\* that returns ret.
Leaves(ty, ret) ==
  (CASE ty = "box" ->
         {Let(xq, "box", Id(xp)), Let(xq, "box", NewBox), Let(xq, "box", Invoke("wrap", Id(xp))),
          Do(Take(xp)), Do(Un("deref", Id(xp))), Do(Set1(xp, NewBox)),
          Do(Set1(xp, Invoke("wrap", Id(xp)))), Do(Take(xq)), Let(xp, "box", NewBox), Let(xp, "box", Id(xp)),
          Let(xq, "thread", [e |-> "spawn", args |-> <<Id(xp)>>])}
     [] ty = "boxbox" ->
         {Let(xq, "box", Un("deref", Id(xp))), Do(Un("borrow", Id(xp))), Do(Take(xq)),
          Do(Set1(xp, Un("box", NewBox))), Let(xq, "boxbox", Id(xp))}
     [] ty = "option" ->
         {Do(Match(Id(xp), Take(xq), Cond)), Do(Match(Id(xp), Cond, Cond)), Do(Set1(xp, [e |-> "no"])),
          Let(xq, "option", Un("some", NewBox)), Let(xq, "option", Id(xp)),
          Do(Set1(xp, Un("some", NewBox)))}
     [] ty = "thread" ->
         {Do(Un("join", Id(xp))), Do(Set1(xp, [e |-> "spawn", args |-> <<>>])), Let(xq, "thread", Id(xp))}
     [] ty = "pair" ->
         {Let(xq, "box", Field(Id(xp), "b")), Do(Field(Id(xp), "n")), Do(Take(xq)), Do(Set1(xp, Un("pair", NewBox))),
          Let(xq, "pair", Id(xp)), Let(xq, "froze", Un("froze", Field(Id(xp), "n"))), Do(Un("deref", Id(xq)))}
     [] ty = "chan" ->
         {Do(Send(Id(xp), NewBox)), Let(xq, "box", Un("recv", Id(xp))), Do(Take(xq)), Do(Send(Id(xp), Id(xq))),
          Let(xq, "chan", [e |-> "chan"]), Do(Set1(xp, Id(xq)))}
     [] ty = "listener" ->
         {Let(xq, "tcp", Un("accept", Id(xp))), Do(Un("stop", Id(xp))), Do(Un("stop", Id(xq))), Do(Send(Id(xq), Str)),
          Do(Set1(xp, [e |-> "listen"]))}
     [] ty = "tcp" ->
         {Do(Send(Id(xp), Str)), Let(xq, "str", Un("recv", Id(xp))), Do(Un("stop", Id(xp))),
          Do(Set1(xp, [e |-> "connect"])), Let(xq, "tcp", Id(xp))}
     [] ty = "file" ->
         {Do(Send(Id(xp), Str)), Do(Un("stop", Id(xp))), Do(Set1(xp, [e |-> "open"])), Let(xq, "file", [e |-> "open"])})
  \cup {Ret(IF ret = "unit" THEN NoExpr ELSE Id(x)) : x \in IF ret = "unit" THEN {xp} ELSE {xp, xq}}

Blocks(l, n)  == UNION {[1..k -> l] : k \in 0..n}
Conds(ty)     == {Cond} \cup IF ty = "box" THEN {Take(xp), [e |-> "and", lhs |-> Cond, rhs |-> Take(xp)]} ELSE {}

Compounds(ty, l) ==
  UNION {
    {Do(IfE(c, a, Else(b))) : c \in Conds(ty), a \in Blocks(l, 1), b \in Blocks(l, 1)},
    {Do(IfE(Cond, a, [k |-> "elif", chain |-> IfE(Cond, b, NoElse)])) : a \in Blocks(l, 1), b \in Blocks(l, 1)},
    {While(Cond, b) : b \in Blocks(l, 2)},
    {While(c, b) : c \in Conds(ty), b \in Blocks(l, 1)},
    {While(Cond, <<Do(IfE(Cond, a, NoElse)), s>>) : a \in Blocks(l, 1), s \in l},
    {Audited(b) : b \in Blocks(l, 2)}}

\* A value position: the two ways to a box.
Values(ty) ==
  CASE ty = "box" -> {Let(xq, "box", IfE(Cond, <<Do(x)>>, Else(<<Do(y)>>))) : x, y \in {Id(xp), NewBox, Invoke("wrap", Id(xp))}}
    [] ty = "option" -> {Let(xq, "box", Match(Id(xp), Id(xq), NewBox))}
    [] OTHER -> {}

\* What owns, or has moved, p before; what uses p or q after.
Before(ty) == {<<>>} \cup IF ty = "box" THEN {<<Let(xq, "box", NewBox)>>, <<Let(xq, "box", Id(xp))>>} ELSE {}
After(ty)  == {<<>>} \cup IF ty \in {"box", "boxbox"} THEN {<<Do(Un("deref", Id(xp)))>>, <<Do(Take(xq))>>} ELSE {}

Around(ty, ret) ==
  LET l    == Leaves(ty, ret)
      last == IF ret = "unit" THEN <<>> ELSE <<Ret(Id(xp))>>
  IN  {[params |-> xp :> ty, ret |-> ret, body |-> a \o <<m>> \o b \o last] :
         a \in IF ret = "unit" THEN Before(ty) ELSE {<<>>}, m \in Compounds(ty, l) \cup Values(ty), b \in After(ty)}

MCPrograms ==
  Around("box", "unit") \cup Around("box", "box") \cup Around("boxbox", "unit")
  \cup UNION {Around(ty, "unit") : ty \in {"option", "thread", "pair", "chan", "listener", "tcp", "file"}}
=============================================================================
