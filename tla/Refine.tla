------------------------------- MODULE Refine -------------------------------
(***************************************************************************)
(* The interval analysis of compiler/src/refine.rs: the proof technique    *)
(* that needs no solver. It walks a function once and keeps, for every     *)
(* binding in scope, an interval that its value lies in; what it proves    *)
(* (RefineReport) is of the same kind as what smt.rs proves.               *)
(*                                                                         *)
(* Conditions are walked for the divisions and indexes in them, and narrow *)
(* nothing. The walk's record has sc: name -> [ty, iv, stale], proven, iv  *)
(* the interval of the expression just walked, and the ghost stale of      *)
(* SmtCheck: a binding last assigned on a way that may not have been taken.*)
(***************************************************************************)
EXTENDS SmtCheck, Intervals

ASSUME UnknownWithin == Unknown \subseteq Lowest..Limit

-----------------------------------------------------------------------------
RECURSIVE RefineExpr(_, _, _), RefineIf(_, _, _), RefineArgs(_, _, _, _), RefineStmts(_, _, _, _)

Prove(st, key, yes) == IF yes THEN [st EXCEPT !.proven = @ \cup {key}] ELSE st
Valued(st, iv)      == [st EXCEPT !.iv = iv]

\* Scopes::set; the code keeps no record of where it happened.
SetIv(st, name, iv) ==
  [st EXCEPT !.sc[Holder(st.sc, name)][name] = [@ EXCEPT !.iv = iv, !.stale = st.depth > 0]]

RefineArgs(args, i, p, st) ==
  IF i > Len(args) THEN st ELSE RefineArgs(args, i + 1, p, RefineExpr(args[i], Child(p, i), st))

RefineBlock(ss, p, st) ==
  [RefineStmts(ss, 1, p, [st EXCEPT !.sc = Push(@)]) EXCEPT !.sc = Pop(@)]

\* block_value: the interval of the trailing expression.
RefineBlockValue(ss, p, st) ==
  LET done == RefineBlock(ss, p, st)
  IN  IF ss # <<>> /\ ss[Len(ss)].s = "expr" THEN done ELSE Valued(done, Anything)

\* Either branch from what the other left: nothing is restored or merged.
RefineIf(e, p, st) ==
  LET c    == RefineExpr(e.cond, Child(p, 1), st)
      then == RefineBlockValue(e.then, Child(p, 2), [c EXCEPT !.depth = @ + 1])
      els  == CASE e.els.k = "block" -> RefineBlockValue(e.els.body, Child(p, 3), then)
                [] e.els.k = "elif"  -> RefineExpr(e.els.chain, Child(p, 3), then)
                [] e.els.k = "none"  -> Valued(then, Anything)
  IN  [Valued(els, Union(then.iv, els.iv)) EXCEPT !.depth = st.depth]

RefineExpr(e, p, st) ==
  CASE e.e = "int"   -> Valued(st, Exact(e.n))
    [] e.e = "ident" -> LET b == Lookup(st.sc, e.name)
                        IN  [Valued(st, b.iv) EXCEPT !.misled = @ \/ b.stale]
    [] e.e = "neg"   -> LET a == RefineExpr(e.arg, Child(p, 1), st) IN Valued(a, Negated(a.iv))
    [] e.e = "bin"   ->
         LET l == RefineExpr(e.lhs, Child(p, 1), st)
             r == RefineExpr(e.rhs, Child(p, 2), l)
         IN  (CASE e.op = "+" -> Valued(r, Plus(l.iv, r.iv))
                [] e.op = "-" -> Valued(r, Minus(l.iv, r.iv))
                [] e.op = "*" -> Valued(r, Times(l.iv, r.iv))
                [] e.op = "/" -> Valued(Prove(r, p, ExcludesZero(r.iv)), Anything))
    [] e.e = "assign" -> LET a == RefineExpr(e.arg, Child(p, 1), st) IN SetIv(a, e.name, a.iv)
    [] e.e = "if"    -> RefineIf(e, p, st)
    [] e.e = "call"  -> Valued(RefineArgs(e.args, 1, p, st), Anything)
    [] e.e = "index" -> LET i == RefineExpr(e.arg, Child(p, 1), st)
                        IN  Valued(Prove(i, p, InBounds(i.iv, Dim)), Anything)
    [] e.e = "not"   -> Valued(RefineExpr(e.arg, Child(p, 1), st), Anything)
    [] e.e \in {"cmp", "and"} -> LET l == RefineExpr(e.lhs, Child(p, 1), st)
                                 IN  Valued(RefineExpr(e.rhs, Child(p, 2), l), Anything)

\* Mutant: the body is walked with the intervals of before the loop.
RefineWhileAsIs(s, p, st) ==
  LET cond == RefineExpr(s.cond, Child(p, 1), [st EXCEPT !.depth = @ + 1])
  IN  [RefineBlock(s.body, Child(p, 2), cond) EXCEPT !.depth = st.depth]

\* while_loop: whatever the body assigns may be anything before it (what only
\* the condition assigns is not widened: the ghost marks it).
RefineWhile(s, p, st) ==
  LET here(n, i) == Resolves(st.sc, n) /\ Holder(st.sc, n) = i
      before(n, i, b) ==
        IF here(n, i) /\ n \in AssignedIn(s.body) THEN [b EXCEPT !.iv = Anything, !.stale = FALSE]
        ELSE IF here(n, i) /\ n \in Assigned(s.cond) THEN [b EXCEPT !.stale = TRUE] ELSE b
      widened == [st EXCEPT !.depth = @ + 1,
                            !.sc = <<>> \o [i \in DOMAIN @ |-> [n \in DOMAIN st.sc[i] |-> before(n, i, st.sc[i][n])]]]
      cond    == RefineExpr(s.cond, Child(p, 1), widened)
  IN  [RefineBlock(s.body, Child(p, 2), cond) EXCEPT !.depth = st.depth]

RefineStmts(ss, i, p, st) ==
  IF i > Len(ss) THEN st
  ELSE
  LET s == ss[i]
      q == Child(p, i)
      after ==
        CASE s.s = "let" ->
               LET a == RefineExpr(s.val, Child(q, 1), st)
               IN  [Prove(a, q, Within(a.iv, Bounds(s.ty))) EXCEPT
                      !.sc = Define(@, s.name, [ty |-> s.ty, iv |-> a.iv, stale |-> FALSE])]
          [] s.s = "return" -> LET a == RefineExpr(s.val, Child(q, 1), st) IN Prove(a, q, Within(a.iv, Bounds(st.ret)))
          [] s.s = "while"   -> RefineWhile(s, q, st)
          [] s.s = "audited" -> RefineBlock(s.body, Child(q, 2), st)
          [] s.s = "expr"    -> RefineExpr(s.val, Child(q, 1), st)
  IN  RefineStmts(ss, i + 1, p, after)

\* analyze, for one function.
RefineFn(f) ==
  LET names == {f.params[i][1] : i \in DOMAIN f.params}
      bound == [n \in names |-> LET i == CHOOSE i \in DOMAIN f.params : f.params[i][1] = n
                                IN  [ty |-> f.params[i][2], iv |-> Full(Bounds(f.params[i][2])), stale |-> FALSE]]
      done  == RefineStmts(f.body, 1, <<>>, [sc |-> <<bound>>, proven |-> {}, iv |-> Anything, ret |-> f.ret,
                                             depth |-> 0, misled |-> FALSE])
  IN  [proven |-> done.proven, misled |-> done.misled]
=============================================================================
