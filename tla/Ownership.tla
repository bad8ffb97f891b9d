----------------------------- MODULE Ownership -----------------------------
(***************************************************************************)
(* The move checker (compiler/src/ownership.rs): one walk over a function  *)
(* that reports every use of a moved binding and records, for every point  *)
(* where scopes close, the affine bindings still owned there (FreeMap).    *)
(*                                                                         *)
(* The walk threads a record through the tree:                             *)
(*   sc      the scope stack, name -> [ty, moved]                          *)
(*   err     the nodes where UseAfterMove is reported                      *)
(*   fm      the FreeMap: closing point -> one set of names per frame      *)
(*   silent  set during the throwaway first pass over a loop body          *)
(* and, beside the code's own state, gaps: where the walk's account of who *)
(* owns what parts from what the compiled code will do (see Gap below).    *)
(***************************************************************************)
EXTENDS Typeck

RECURSIVE TouchExpr(_, _, _, _), TouchHandle(_, _, _), TouchField(_, _, _), TouchArgs(_, _, _, _), CheckStmts(_, _, _, _),
          CheckIfBranches(_, _, _), CheckStmtExpr(_, _, _)

\* The path of the i-th child of the node at path p.
Child(p, i) == Append(p, i)

-----------------------------------------------------------------------------
(***************************************************************************)
(* OwnScopes::set_moved, merge_moved, still_owned_affine.                  *)
(***************************************************************************)
SetMoved(sc, name, moved) ==
  IF Resolves(sc, name)
  THEN [sc EXCEPT ![Holder(sc, name)][name].moved = moved] ELSE sc

\* Frame by frame. (<<>> \o makes TLC build the stack at once: it forgets the
\* EXCEPTs of a function it has not built yet when it makes a tuple of it.)
MergeMoved(a, b) ==
  LET merged(x, y) == [n \in DOMAIN x |->
                        [x[n] EXCEPT !.moved = @ \/ (n \in DOMAIN y /\ y[n].moved)]]
  IN  <<>> \o [i \in DOMAIN a |-> merged(a[i], b[i])]

StillOwned(frame)  == {n \in DOMAIN frame : Affine(frame[n].ty) /\ ~frame[n].moved}
AllStillOwned(sc)  == [i \in DOMAIN sc |-> StillOwned(sc[i])]
TopOwned(sc)       == <<StillOwned(sc[Len(sc)])>>

\* free_map.<at_...>.insert(key, names), skipped on a silent pass.
Record(st, key, names) ==
  IF st.silent THEN st ELSE [st EXCEPT !.fm = (key :> names) @@ @]

(***************************************************************************)
(* The gaps, a ghost. In the first four the walk forgets the only owner of *)
(* a value that nothing frees:                                             *)
(*   merge      one way through an if, match, loop or && moved a binding,  *)
(*              and the other kept it: it counts as moved on both          *)
(*   overwrite  a binding that still owned a value is given another one    *)
(*   unwrap     the box around a box that was moved out of it              *)
(*   discard    a value computed as a statement and dropped                *)
(* in the last two it names an owner that does not own any more:           *)
(*   cond       a loop condition moves a binding, and is only touched once *)
(*   shadow     a name hides an outer owner from the frees, which are      *)
(*              looked up by name                                          *)
(***************************************************************************)
Gap(st, what, cond) == IF cond THEN [st EXCEPT !.gaps = @ \cup {what}] ELSE st

Unequal(a, b)    == \E i \in DOMAIN a : \E n \in DOMAIN a[i] : a[i][n].moved # b[i][n].moved
Owns(sc, name)   == Resolves(sc, name) /\ Affine(Lookup(sc, name).ty) /\ ~Lookup(sc, name).moved
Hides(sc, name)  == Resolves(sc, name) /\ Holder(sc, name) < Len(sc) /\ Affine(Lookup(sc, name).ty)
Produces(e, sc)  == \/ e.e = "ident" /\ Owns(sc, e.name)
                    \/ e.e = "call" /\ Affine(Sigs[e.fn].ret)
                    \/ e.e \in {"box", "some", "pair", "spawn", "connect", "listen", "accept"}
                    \/ e.e = "recv" /\ e.arg.e = "ident" /\ Resolves(sc, e.arg.name) /\ Lookup(sc, e.arg.name).ty = "chan"
                    \/ e.e = "field" /\ e.field = "b"

-----------------------------------------------------------------------------
(***************************************************************************)
(* touch_ident and touch_expr. consume is TRUE where the value is moved    *)
(* out of the binding, FALSE where it is only read.                        *)
(***************************************************************************)
TouchIdent(name, p, consume, st) ==
  IF ~Resolves(st.sc, name) \/ ~Affine(Lookup(st.sc, name).ty) THEN st
  ELSE IF Lookup(st.sc, name).moved
  THEN IF st.silent THEN st ELSE [st EXCEPT !.err = @ \cup {p}]
  ELSE IF consume THEN [st EXCEPT !.sc = SetMoved(@, name, TRUE)]
  ELSE st

\* Operands left to right, each moved.
TouchArgs(args, i, p, st) ==
  IF i > Len(args) THEN st
  ELSE TouchArgs(args, i + 1, p, TouchExpr(args[i], TRUE, Child(p, i), st))

\* A channel, connection, listener or file is read by its operations, and
\* consumed by stop; what is sent is moved.
TouchHandle(e, p, st) ==
  CASE e.e \in {"chan", "connect", "listen", "open"} -> st
    [] e.e \in {"accept", "recv"} -> TouchExpr(e.arg, FALSE, Child(p, 1), st)
    [] e.e = "send" -> TouchExpr(e.val, TRUE, Child(p, 2), TouchExpr(e.arg, FALSE, Child(p, 1), st))
    [] e.e = "stop" -> TouchExpr(e.arg, TRUE, Child(p, 1), st)

\* FieldAccess: a binding is moved as a whole by the access to an affine field.
TouchField(e, p, st) ==
  IF e.arg.e = "ident" THEN TouchIdent(e.arg.name, Child(p, 1), e.field = "b", st)
  ELSE TouchExpr(e.arg, FALSE, Child(p, 1), st)

TouchExpr(e, consume, p, st) ==
  CASE e.e \in {"int", "bool", "str", "no"} -> st
    [] e.e = "ident"  -> TouchIdent(e.name, p, consume, st)
    [] e.e \in {"call", "spawn"} -> TouchArgs(e.args, 1, p, st)
    [] e.e \in {"chan", "connect", "listen", "accept", "open", "send", "recv", "stop"} -> TouchHandle(e, p, st)
    [] e.e = "field"  -> TouchField(e, p, st)
    [] e.e \in {"box", "froze", "some", "pair", "join"} -> TouchExpr(e.arg, TRUE, Child(p, 1), st)
    [] e.e = "borrow" -> TouchExpr(e.arg, FALSE, Child(p, 1), st)
    [] e.e = "and"    ->
         LET l == TouchExpr(e.lhs, TRUE, Child(p, 1), st)
             r == TouchExpr(e.rhs, TRUE, Child(p, 2), l)
         IN  Gap(r, "merge", Unequal(l.sc, r.sc))
    [] e.e = "assign" ->
         LET after == TouchExpr(e.arg, TRUE, Child(p, 1), st)
         IN  [Gap(after, "overwrite", Owns(after.sc, e.name)) EXCEPT !.sc = SetMoved(@, e.name, FALSE)]
    [] e.e = "deref"  ->
         IF e.arg.e = "ident"
         THEN LET inner == Resolves(st.sc, e.arg.name) /\ Lookup(st.sc, e.arg.name).ty = "boxbox"
                  after == TouchIdent(e.arg.name, Child(p, 1), inner, st)
              IN  Gap(after, "unwrap", inner)
         ELSE Gap(TouchExpr(e.arg, FALSE, Child(p, 1), st), "unwrap", TRUE)
    [] e.e = "if"     -> CheckIfBranches(e, p, TouchExpr(e.cond, TRUE, Child(p, 1), st))
    [] e.e = "match"  ->
         LET pre    == TouchExpr(e.arg, TRUE, Child(p, 1), st)
             opened == <<Define(Push(pre.sc), e.bind, [ty |-> "box", moved |-> FALSE]), Push(pre.sc)>>
             \* each arm from the state before the match, into the map so far
             arm(i, s) == LET body == TouchExpr(e.arms[i], TRUE, Child(p, i + 1), [s EXCEPT !.sc = opened[i]])
                          IN  [Record(body, <<"arm", p, i>>, TopOwned(body.sc)) EXCEPT !.sc = Pop(@)]
             one    == arm(1, pre)
             two    == arm(2, one)
         IN  [Gap(Gap(two, "merge", Unequal(one.sc, two.sc)), "shadow", Hides(Push(pre.sc), e.bind)) EXCEPT
                !.sc = MergeMoved(one.sc, two.sc)]

-----------------------------------------------------------------------------
(***************************************************************************)
(* check_if_branches: both branches from the same state, merged.           *)
(***************************************************************************)
\* check_block, and the closing point it is recorded under.
CheckBlock(ss, p, key, st) ==
  LET done == CheckStmts(ss, 1, p, [st EXCEPT !.sc = Push(@)])
  IN  [Record(done, key, TopOwned(done.sc)) EXCEPT !.sc = Pop(@)]

CheckIfBranches(e, p, st) ==
  LET then == CheckBlock(e.then, Child(p, 2), <<"then", p>>, st)
      back == [then EXCEPT !.sc = st.sc]
      els  == CASE e.els.k = "none"  -> back
                [] e.els.k = "block" -> CheckBlock(e.els.body, Child(p, 3), <<"else", p>>, back)
                [] e.els.k = "elif"  -> CheckStmtExpr(e.els.chain, Child(p, 3), back)
  IN  [Gap(els, "merge", Unequal(then.sc, els.sc)) EXCEPT !.sc = MergeMoved(then.sc, els.sc)]

CheckStmtExpr(e, p, st) == TouchExpr(e, TRUE, p, st)

\* Mutant: one pass over the body, from the state before the loop.
CheckWhileOnce(s, p, st) ==
  LET real == CheckBlock(s.body, Child(p, 2), <<"while", p>>, st)
  IN  [real EXCEPT !.sc = MergeMoved(st.sc, real.sc)]

(***************************************************************************)
(* check_while: the body once silently, then for real from the merge of    *)
(* "never ran" and "ran once". The condition is touched once, before.      *)
(***************************************************************************)
CheckWhile(s, p, st) ==
  LET quiet == CheckBlock(s.body, Child(p, 2), <<"while", p>>, [st EXCEPT !.silent = TRUE])
      again == [quiet EXCEPT !.silent = FALSE, !.sc = MergeMoved(st.sc, quiet.sc)]
      real  == CheckBlock(s.body, Child(p, 2), <<"while", p>>, again)
  IN  [Gap(real, "merge", Unequal(st.sc, real.sc)) EXCEPT !.sc = MergeMoved(st.sc, real.sc)]

CheckStmts(ss, i, p, st) ==
  IF i > Len(ss) THEN st
  ELSE LET s == ss[i]
           q == Child(p, i)
           after ==
             CASE s.s = "let" ->
                    LET v == TouchExpr(s.val, TRUE, Child(q, 1), st)
                        hidden == Gap(Gap(v, "overwrite", s.name \in StillOwned(v.sc[Len(v.sc)])),
                                      "shadow", Hides(v.sc, s.name))
                    IN  [hidden EXCEPT !.sc = Define(@, s.name, [ty |-> s.ty, moved |-> FALSE])]
               [] s.s = "return" ->
                    LET v == IF s.val = NoExpr THEN st ELSE TouchExpr(s.val, TRUE, Child(q, 1), st)
                    IN  Record(v, <<"return", q>>, AllStillOwned(v.sc))
               [] s.s = "while"   ->
                    LET c == TouchExpr(s.cond, TRUE, Child(q, 1), st)
                    IN  CheckWhile(s, q, Gap(c, "cond", Unequal(c.sc, st.sc)))
               [] s.s = "audited" -> CheckBlock(s.body, Child(q, 2), <<"audited", q>>, st)
               [] s.s = "expr"    ->
                    CheckStmtExpr(s.val, Child(q, 1), Gap(st, "discard", Produces(s.val, st.sc)))
       IN  CheckStmts(ss, i + 1, p, after)

(***************************************************************************)
(* run_checker for one function: its errors and its FreeMap.               *)
(***************************************************************************)
RunChecker(prog) ==
  LET start == [sc     |-> << [n \in DOMAIN prog.params |->
                                 [ty |-> prog.params[n], moved |-> FALSE]] >>,
                err    |-> {}, fm |-> <<>>, silent |-> FALSE, gaps |-> {}]
      done  == CheckStmts(prog.body, 1, <<>>, start)
  IN  Record(done, <<"fn">>, TopOwned(done.sc))

CheckOwnership(prog) == RunChecker(prog).err = {}
=============================================================================
