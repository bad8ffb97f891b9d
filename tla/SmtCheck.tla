------------------------------ MODULE SmtCheck ------------------------------
(***************************************************************************)
(* The proof pass of compiler/src/smt.rs: a symbolic walk of a function    *)
(* that records which runtime guards codegen.rs may leave out.             *)
(*                                                                         *)
(* The solver is external. It is modelled by what it knows: the worlds,    *)
(* the values of the symbols that satisfy every assertion so far. A proof  *)
(* succeeds when its goal is true in all of them; an unconstrained symbol  *)
(* ranges over Unknown, which is finite, so the model proves all the code  *)
(* does and perhaps more. push and pop restore the worlds of before.       *)
(*                                                                         *)
(* The walk threads a record through the tree:                             *)
(*   sc       scopes, name -> [ty, term, stale]                            *)
(*   dom      the range of each symbol                                     *)
(*   w        the worlds                                                   *)
(*   t        the term of the expression just walked                       *)
(*   proven   the guards proven unnecessary (SmtReport)                    *)
(* and, beside the code's own state, what the walk ought to know:          *)
(*   earned   the worlds left by the assertions that hold on every way to  *)
(*            this point, not only on the ones through a loop's body       *)
(*   stale    of a binding: its term was computed on a way that may not    *)
(*            have been taken, or not been taken last                      *)
(*   gaps     "unearned": a proof needed more than earned; "stale": a      *)
(*            stale binding was read                                       *)
(***************************************************************************)
EXTENDS Scopes, Integers, FiniteSets, SequencesExt

CONSTANTS
  Word,        \* the values of i64
  Narrow,      \* those of the narrower integer type
  Unknown,     \* what an unconstrained symbol may be
  Dim          \* the length of the one array

\* Ty::bounds, as the set between them.
Bounds(ty) == IF ty = "i64" THEN Word ELSE Narrow

NoExpr == [e |-> "none"]

Child(p, i) == Append(p, i)

-----------------------------------------------------------------------------
(***************************************************************************)
(* Terms, and their value in a world.                                      *)
(***************************************************************************)
RECURSIVE Value(_, _), Truth(_, _)

Arith(op, a, b)   == CASE op = "+" -> a + b [] op = "-" -> a - b [] op = "*" -> a * b
Compare(op, a, b) == CASE op = "<" -> a < b [] op = "<=" -> a <= b [] op = "==" -> a = b [] op = "!=" -> a # b

Value(t, v) ==
  CASE t.t = "lit" -> t.n
    [] t.t = "sym" -> v[t.i]
    [] t.t = "neg" -> -Value(t.arg, v)
    [] t.t = "op"  -> Arith(t.op, Value(t.l, v), Value(t.r, v))
    [] t.t = "ite" -> IF Truth(t.c, v) THEN Value(t.l, v) ELSE Value(t.r, v)

Truth(b, v) ==
  CASE b.t = "cmp" -> Compare(b.op, Value(b.l, v), Value(b.r, v))
    [] b.t = "not" -> ~Truth(b.arg, v)
    [] b.t = "and" -> Truth(b.l, v) /\ Truth(b.r, v)
    [] b.t = "in"  -> Value(b.arg, v) \in b.set

Lit(n)      == [t |-> "lit", n |-> n]
Not(b)      == [t |-> "not", arg |-> b]
In(t, set)  == [t |-> "in", arg |-> t, set |-> set]

-----------------------------------------------------------------------------
(***************************************************************************)
(* The solver.                                                             *)
(***************************************************************************)
Learn(st, c, earns) ==
  [st EXCEPT !.w      = {v \in @ : Truth(c, v)},
             !.earned = IF earns THEN {v \in @ : Truth(c, v)} ELSE @]

AssertBounds(st, t, ty, earns) == Learn(st, In(t, Bounds(ty)), earns)

\* Int::fresh_const, bounded or not: every world gets each value of range.
Fresh(st, range) ==
  LET grown(ws) == {Append(v, x) : v \in ws, x \in range}
  IN  [st EXCEPT !.dom = Append(@, range), !.w = grown(@), !.earned = grown(@),
                 !.t = [t |-> "sym", i |-> Len(st.dom) + 1]]

\* prove_in_range, prove_nonzero, prove_index_in_bounds: the goal in every world.
Proves(st, key, c) ==
  IF \E v \in st.w : ~Truth(c, v) THEN st
  ELSE [st EXCEPT !.proven = @ \cup {key},
                  !.gaps = @ \cup IF \A v \in st.earned : Truth(c, v) THEN {} ELSE {"unearned"}]

\* ws as it was before the symbols beyond from were introduced.
RECURSIVE Grow(_, _, _)
Grow(ws, from, dom) ==
  IF from = Len(dom) THEN ws
  ELSE Grow({Append(v, x) : v \in ws, x \in dom[from + 1]}, from + 1, dom)

\* Every binding whose term changed from one scope stack to the next, marked.
MarkStale(old, new) ==
  <<>> \o [i \in DOMAIN old |->
     [n \in DOMAIN new[i] |->
        IF n \in DOMAIN old[i] /\ old[i][n].term = new[i][n].term THEN new[i][n]
        ELSE [new[i][n] EXCEPT !.stale = TRUE]]]

EnterBranch(st, c) == Learn(st, c, TRUE)
ExitBranch(old, st) ==
  [st EXCEPT !.w = Grow(old.w, Len(old.dom), st.dom), !.earned = Grow(old.earned, Len(old.dom), st.dom),
             !.sc = MarkStale(old.sc, @)]

-----------------------------------------------------------------------------
RECURSIVE SmtExpr(_, _, _), BoolExpr(_, _, _), SmtStmts(_, _, _, _), IfStmt(_, _, _), Assigned(_), AssignedIn(_), WalkArgs(_, _, _, _)

\* Scopes::set.
SetTerm(sc, name, term) == [sc EXCEPT ![Holder(sc, name)][name] = [@ EXCEPT !.term = term, !.stale = FALSE]]

WalkArgs(args, i, p, st) ==
  IF i > Len(args) THEN st ELSE WalkArgs(args, i + 1, p, SmtExpr(args[i], Child(p, i), st))

Block(ss, p, st) == [SmtStmts(ss, 1, p, [st EXCEPT !.sc = Push(@)]) EXCEPT !.sc = Pop(@)]

\* block_value: the trailing expression's term, or nothing known.
BlockValue(ss, p, st) ==
  LET n    == Len(ss)
      rest == SmtStmts(SubSeq(ss, 1, n - 1), 1, p, [st EXCEPT !.sc = Push(@)])
      last == IF n > 0 /\ ss[n].s = "expr" THEN SmtExpr(ss[n].val, Child(Child(p, n), 1), rest)
              ELSE Fresh(Block(ss, p, st), Unknown)
  IN  [last EXCEPT !.sc = SubSeq(@, 1, Len(st.sc))]

SmtExpr(e, p, st) ==
  CASE e.e = "int"   -> [st EXCEPT !.t = Lit(e.n)]
    [] e.e = "ident" -> [st EXCEPT !.t = Lookup(st.sc, e.name).term,
                                   !.gaps = @ \cup IF Lookup(st.sc, e.name).stale THEN {"stale"} ELSE {}]
    [] e.e = "neg"   -> LET a == SmtExpr(e.arg, Child(p, 1), st)
                        IN  [a EXCEPT !.t = [t |-> "neg", arg |-> a.t]]
    [] e.e = "bin"   ->
         LET l == SmtExpr(e.lhs, Child(p, 1), st)
             r == SmtExpr(e.rhs, Child(p, 2), l)
         IN  IF e.op # "/" THEN [r EXCEPT !.t = [t |-> "op", op |-> e.op, l |-> l.t, r |-> r.t]]
             ELSE Fresh(Proves(r, p, Not(In(r.t, {0}))), Unknown)
    [] e.e = "assign" ->
         LET a  == SmtExpr(e.arg, Child(p, 1), st)
             ty == Lookup(a.sc, e.name).ty
         IN  [AssertBounds(a, a.t, ty, ~a.audited) EXCEPT
                !.sc = LET set == SetTerm(@, e.name, a.t) IN IF a.audited THEN MarkStale(a.sc, set) ELSE set]
    [] e.e = "if"    ->
         LET c    == BoolExpr(e.cond, Child(p, 1), st)
             then == ExitBranch(c, BlockValue(e.then, Child(p, 2), EnterBranch(c, c.t)))
             other == EnterBranch(then, Not(c.t))
             els  == ExitBranch(then, CASE e.els.k = "block" -> BlockValue(e.els.body, Child(p, 3), other)
                                        [] e.els.k = "elif"  -> SmtExpr(e.els.chain, Child(p, 3), other)
                                        [] e.els.k = "none"  -> Fresh(other, Unknown))
         IN  [els EXCEPT !.t = [t |-> "ite", c |-> c.t, l |-> then.t, r |-> els.t]]
    [] e.e = "call"  -> Fresh(WalkArgs(e.args, 1, p, st), Unknown)
    [] e.e = "index" ->
         LET i == SmtExpr(e.arg, Child(p, 1), st)
         IN  Fresh(Proves(i, p, In(i.t, 0..Dim - 1)), Unknown)

BoolExpr(e, p, st) ==
  CASE e.e = "cmp" -> LET l == SmtExpr(e.lhs, Child(p, 1), st)
                          r == SmtExpr(e.rhs, Child(p, 2), l)
                      IN  [r EXCEPT !.t = [t |-> "cmp", op |-> e.op, l |-> l.t, r |-> r.t]]
    [] e.e = "not" -> LET a == BoolExpr(e.arg, Child(p, 1), st) IN [a EXCEPT !.t = Not(a.t)]
    [] e.e = "and" -> LET l == BoolExpr(e.lhs, Child(p, 1), st)
                          r == BoolExpr(e.rhs, Child(p, 2), l)
                      IN  [r EXCEPT !.t = [t |-> "and", l |-> l.t, r |-> r.t]]

\* expr_stmt of an if: each branch under its condition, no value.
IfStmt(e, p, st) ==
  LET c    == BoolExpr(e.cond, Child(p, 1), st)
      then == ExitBranch(c, Block(e.then, Child(p, 2), EnterBranch(c, c.t)))
      other == EnterBranch(then, Not(c.t))
  IN  ExitBranch(then, CASE e.els.k = "block" -> Block(e.els.body, Child(p, 3), other)
                         [] e.els.k = "elif"  -> IfStmt(e.els.chain, Child(p, 3), other)
                         [] e.els.k = "none"  -> other)

\* assigned_names.
Assigned(e) ==
  CASE e.e = "assign"            -> {e.name} \cup Assigned(e.arg)
    [] e.e \in {"neg", "index", "not"} -> Assigned(e.arg)
    [] e.e \in {"bin", "cmp", "and"}   -> Assigned(e.lhs) \cup Assigned(e.rhs)
    [] e.e = "call"              -> UNION {Assigned(e.args[i]) : i \in DOMAIN e.args}
    [] e.e = "if"                ->
         UNION {Assigned(e.cond), AssignedIn(e.then),
                CASE e.els.k = "block" -> AssignedIn(e.els.body)
                  [] e.els.k = "elif"  -> Assigned(e.els.chain)
                  [] e.els.k = "none"  -> {}}
    [] OTHER                     -> {}
AssignedIn(ss) ==
  UNION {CASE ss[i].s \in {"let", "return", "expr"} -> Assigned(ss[i].val)
           [] ss[i].s = "while"   -> Assigned(ss[i].cond) \cup AssignedIn(ss[i].body)
           [] ss[i].s = "audited" -> AssignedIn(ss[i].body) : i \in DOMAIN ss}

\* Each of names becomes a fresh value of its declared type.
RECURSIVE Forget(_, _)
Forget(names, st) ==
  IF names = {} THEN st
  ELSE LET n == CHOOSE n \in names : TRUE
           f == Fresh(st, Bounds(Lookup(st.sc, n).ty))
       IN  Forget(names \ {n}, [f EXCEPT !.sc = SetTerm(@, n, f.t)])

\* Mutant: the body is walked with the terms of before the loop.
WhileLoopRemembers(s, p, st) ==
  LET cond  == BoolExpr(s.cond, Child(p, 1), st)
      inner == [cond EXCEPT !.sc = MarkStale(st.sc, @)]
      body  == Block(s.body, Child(p, 2), inner)
  IN  [body EXCEPT !.earned = Grow(inner.earned, Len(inner.dom), body.dom), !.sc = MarkStale(inner.sc, @)]

\* while_loop. The body's assertions and terms outlive it.
WhileLoop(s, p, st) ==
  LET start == Forget({n \in AssignedIn(s.body) : Resolves(st.sc, n)}, st)
      cond  == BoolExpr(s.cond, Child(p, 1), start)
      inner == [cond EXCEPT !.sc = MarkStale(start.sc, @)]
      body  == Block(s.body, Child(p, 2), inner)
  IN  [body EXCEPT !.earned = Grow(inner.earned, Len(inner.dom), body.dom), !.sc = MarkStale(inner.sc, @)]

SmtStmts(ss, i, p, st) ==
  IF i > Len(ss) THEN st
  ELSE
  LET s == ss[i]
      q == Child(p, i)
      after ==
        CASE s.s = "let" ->
               LET a == SmtExpr(s.val, Child(q, 1), st)
               IN  [AssertBounds(Proves(a, q, In(a.t, Bounds(s.ty))), a.t, s.ty, ~a.audited) EXCEPT
                      !.sc = Define(@, s.name, [ty |-> s.ty, term |-> a.t, stale |-> a.audited])]
          [] s.s = "return" ->
               LET a == SmtExpr(s.val, Child(q, 1), st)
               IN  Proves(a, q, In(a.t, Bounds(st.ret)))
          [] s.s = "while"   -> WhileLoop(s, q, st)
          [] s.s = "audited" -> [Block(s.body, Child(q, 2), [st EXCEPT !.audited = TRUE]) EXCEPT !.audited = st.audited]
          [] s.s = "expr"    -> IF s.val.e = "if" THEN IfStmt(s.val, Child(q, 1), st)
                                ELSE SmtExpr(s.val, Child(q, 1), st)
  IN  SmtStmts(ss, i + 1, p, after)

\* analyze, for the function f: [params: sequence of <<name, type>>, ret, body].
RECURSIVE BindParams(_, _, _)
BindParams(f, i, st) ==
  IF i > Len(f.params) THEN st
  ELSE LET b == Fresh(st, Bounds(f.params[i][2]))
       IN  BindParams(f, i + 1, [b EXCEPT !.sc = Define(@, f.params[i][1],
                                          [ty |-> f.params[i][2], term |-> b.t, stale |-> FALSE])])

Analyze(f) ==
  LET start == [sc |-> NewScopes, dom |-> <<>>, w |-> {<<>>}, earned |-> {<<>>}, t |-> Lit(0),
                proven |-> {}, gaps |-> {}, audited |-> FALSE, ret |-> f.ret]
      done  == SmtStmts(f.body, 1, <<>>, BindParams(f, 1, start))
  IN  [proven |-> done.proven, gaps |-> done.gaps]
=============================================================================
