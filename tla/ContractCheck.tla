--------------------------- MODULE ContractCheck ---------------------------
(***************************************************************************)
(* The contracts of compiler/src/contract_check.rs: validate blocks, which *)
(* state what a function returns for the inputs its pre admits, decided    *)
(* over the same solver as SmtCheck's.                                     *)
(*                                                                         *)
(* A program maps names to functions [params, ret, body, pre, post]; pre   *)
(* and post are conditions, or NoExpr, and validates lists the functions   *)
(* that have a validate block, in order. The walk's record has             *)
(*   sc, dom, w, t   as in SmtCheck                                        *)
(*   err             Unsupported: a shape the walk does not model          *)
(*   found           a Counterexample                                      *)
(*   flow            what the statement just walked does to control:       *)
(*                   Continues, Returns, or the condition it goes on under *)
(* and lost, a ghost: a return further down was not told to its caller.    *)
(***************************************************************************)
EXTENDS SmtCheck

RECURSIVE IntExpr(_, _), CBool(_, _), CStmts(_, _), CIf(_, _), CArgs(_, _, _, _), Idents(_)

\* Flow; StillOpen(cond) is the condition itself.
Continues == [t |-> "continues"]
Returns   == [t |-> "returns"]

Unsupported(st) == [st EXCEPT !.err = TRUE, !.t = Lit(0)]

\* collect_idents, of a condition.
Idents(e) ==
  CASE e.e = "ident"               -> {e.name}
    [] e.e \in {"neg", "not"}      -> Idents(e.arg)
    [] e.e \in {"bin", "cmp", "and"} -> Idents(e.lhs) \cup Idents(e.rhs)
    [] OTHER                       -> {}

\* push and assert, and the pop that takes the worlds back to those of old.
Assume(st, c) == [st EXCEPT !.w = {v \in @ : Truth(c, v)}]
Retract(old, st) == [st EXCEPT !.w = Grow(old.w, Len(old.dom), st.dom)]

ValueOf(ss, st) ==
  IF ss = <<>> \/ ss[Len(ss)].s # "expr" THEN Unsupported(st)
  ELSE LET rest == CStmts(SubSeq(ss, 1, Len(ss) - 1), [st EXCEPT !.sc = Push(@)])
       IN  [IntExpr(ss[Len(ss)].val, rest) EXCEPT !.sc = st.sc]

\* The arguments of a call, as terms.
CArgs(args, i, ts, st) ==
  IF i > Len(args) THEN [st EXCEPT !.t = ts]
  ELSE LET a == IntExpr(args[i], st) IN CArgs(args, i + 1, Append(ts, a.t), a)

\* int_expr. A call is known by the proven contract of its callee alone:
\* a fresh result for which pre implies post.
IntExpr(e, st) ==
  CASE e.e = "int"   -> [st EXCEPT !.t = Lit(e.n)]
    [] e.e = "ident" -> IF Resolves(st.sc, e.name) THEN [st EXCEPT !.t = Lookup(st.sc, e.name)] ELSE Unsupported(st)
    [] e.e = "neg"   -> LET a == IntExpr(e.arg, st) IN [a EXCEPT !.t = [t |-> "neg", arg |-> a.t]]
    [] e.e = "bin" /\ e.op # "/" ->
         LET l == IntExpr(e.lhs, st)
             r == IntExpr(e.rhs, l)
         IN  [r EXCEPT !.t = [t |-> "op", op |-> e.op, l |-> l.t, r |-> r.t]]
    [] e.e = "if"    ->
         LET c       == CBool(e.cond, st)
             then(s) == ValueOf(e.then, s)
             els(s)  == CASE e.els.k = "block" -> ValueOf(e.els.body, s)
                          [] e.els.k = "elif"  -> IntExpr(e.els.chain, s)
                          [] e.els.k = "none"  -> Unsupported(s)
             a       == Retract(c, then(Assume(c, c.t)))
             b       == Retract(a, els(Assume(a, Not(c.t))))
         IN  [b EXCEPT !.t = [t |-> "ite", c |-> c.t, l |-> a.t, r |-> b.t]]
    [] e.e = "call" /\ e.fn \in DOMAIN st.summaries ->
         LET g      == st.summaries[e.fn]
             args   == CArgs(e.args, 1, <<>>, st)
             res    == Fresh(args, Bounds(g.ret))
             names  == [n \in {g.params[i][1] : i \in DOMAIN g.params} |->
                          args.t[CHOOSE i \in DOMAIN g.params : g.params[i][1] = n]]
             callee == [res EXCEPT !.sc = <<names @@ ("result" :> res.t)>>]
             pre    == CBool(g.pre, callee)
             post   == CBool(g.post, pre)
             axiom(v) == Truth(pre.t, v) => Truth(post.t, v)
         IN  [res EXCEPT !.w = {v \in @ : axiom(v)}]
    [] OTHER         -> Unsupported(st)

CBool(e, st) ==
  CASE e.e = "cmp"  -> LET l == IntExpr(e.lhs, st)
                           r == IntExpr(e.rhs, l)
                       IN  [r EXCEPT !.t = [t |-> "cmp", op |-> e.op, l |-> l.t, r |-> r.t]]
    [] e.e = "not"  -> LET a == CBool(e.arg, st) IN [a EXCEPT !.t = Not(a.t)]
    [] e.e = "and"  -> LET l == CBool(e.lhs, st)
                           r == CBool(e.rhs, l)
                       IN  [r EXCEPT !.t = [t |-> "and", l |-> l.t, r |-> r.t]]
    [] e.e = "none" -> [st EXCEPT !.t = [t |-> "cmp", op |-> "==", l |-> Lit(0), r |-> Lit(0)]]

\* check_return: a world that breaks post is a counterexample.
CheckReturn(term, st) ==
  LET post == CBool(st.post, [st EXCEPT !.sc = Define(Push(@), "result", term)])
  IN  [st EXCEPT !.found = @ \/ \E v \in st.w : ~Truth(post.t, v), !.flow = Returns]

\* A block tells its caller whether it always returned; if it only may have,
\* that is lost.
CBlock(ss, st) ==
  LET done == CStmts(ss, [st EXCEPT !.sc = Push(@), !.partly = FALSE])
  IN  [done EXCEPT !.sc = st.sc, !.partly = st.partly, !.lost = @ \/ (done.partly /\ done.flow # Returns)]

\* Mutant: a branch that returns leaves its own condition standing.
CIfWrongSide(e, st) ==
  LET c       == CBool(e.cond, st)
      then(s) == CBlock(e.then, s)
      els(s)  == CASE e.els.k = "none"  -> [s EXCEPT !.flow = Continues]
                   [] e.els.k = "block" -> CBlock(e.els.body, s)
                   [] e.els.k = "elif"  ->
                        LET i == CIf(e.els.chain, s)
                        IN  [i EXCEPT !.flow = IF @ = Returns THEN @ ELSE Continues,
                                      !.lost = @ \/ i.flow \notin {Returns, Continues}]
      a       == Retract(c, then(Assume(c, c.t)))
      b       == Retract(a, els(Assume(a, Not(c.t))))
  IN  [b EXCEPT !.flow = CASE a.flow = Returns /\ b.flow = Returns -> Returns
                           [] a.flow = Returns /\ b.flow # Returns -> c.t
                           [] a.flow # Returns /\ b.flow = Returns -> Not(c.t)
                           [] OTHER -> Continues]

\* stmt of an if: the flow after it from those of its branches.
CIf(e, st) ==
  LET c       == CBool(e.cond, st)
      then(s) == CBlock(e.then, s)
      els(s)  == CASE e.els.k = "none"  -> [s EXCEPT !.flow = Continues]
                   [] e.els.k = "block" -> CBlock(e.els.body, s)
                   [] e.els.k = "elif"  ->
                        LET i == CIf(e.els.chain, s)
                        IN  [i EXCEPT !.flow = IF @ = Returns THEN @ ELSE Continues,
                                      !.lost = @ \/ i.flow \notin {Returns, Continues}]
      a       == Retract(c, then(Assume(c, c.t)))
      b       == Retract(a, els(Assume(a, Not(c.t))))
  IN  [b EXCEPT !.flow = CASE a.flow = Returns /\ b.flow = Returns -> Returns
                           [] a.flow = Returns /\ b.flow # Returns -> Not(c.t)
                           [] a.flow # Returns /\ b.flow = Returns -> c.t
                           [] OTHER -> Continues]

\* stmts: what an if left standing holds for the rest of the sequence, and is
\* popped at its end.
CStmts(ss, st) ==
  IF st.found \/ st.err \/ ss = <<>> THEN [st EXCEPT !.flow = Continues]
  ELSE
  LET s == Head(ss)
      one ==
        CASE s.s = "let" ->
               LET a == IntExpr(s.val, st)
                   fits(v) == Value(a.t, v) \in Bounds(s.ty)
               IN  [a EXCEPT !.w = {v \in @ : fits(v)}, !.sc = Define(@, s.name, a.t), !.flow = Continues]
          [] s.s = "return"  -> LET a == IntExpr(s.val, st) IN CheckReturn(a.t, a)
          [] s.s = "expr" /\ s.val.e = "if" -> CIf(s.val, st)
          [] s.s = "expr" /\ s.val.e # "if" -> [IntExpr(s.val, st) EXCEPT !.flow = Continues]
          [] s.s = "while"   -> Unsupported(st)
          [] s.s = "audited" -> CBlock(s.body, st)
  IN  IF one.err \/ one.flow = Returns THEN one
      ELSE IF one.flow = Continues THEN CStmts(Tail(ss), one)
      ELSE LET kept(v) == Truth(one.flow, v)
               rest == CStmts(Tail(ss), [one EXCEPT !.w = {v \in @ : kept(v)}, !.partly = TRUE])
           IN  [rest EXCEPT !.w = Grow(one.w, Len(one.dom), rest.dom)]

(***************************************************************************)
(* check_fn_contract_parsed: the verdict on one validate block.            *)
(***************************************************************************)
Verdict(f, summaries) ==
  LET start  == [sc |-> NewScopes, dom |-> <<>>, w |-> {<<>>}, earned |-> {<<>>}, t |-> Lit(0), err |-> FALSE,
                 found |-> FALSE, flow |-> Continues, partly |-> FALSE, lost |-> FALSE,
                 post |-> f.post, summaries |-> summaries]
      bind[i \in 0..Len(f.params)] ==
        IF i = 0 THEN start
        ELSE LET b == Fresh(bind[i - 1], Bounds(f.params[i][2]))
             IN  [b EXCEPT !.sc = Define(@, f.params[i][1], b.t)]
      params == bind[Len(f.params)]
      pre    == CBool(f.pre, params)
      holds(v) == Truth(pre.t, v)
      done   == CStmts(f.body, [params EXCEPT !.w = {v \in @ : holds(v)}])
  IN  [lost |-> done.lost,
       is   |-> IF (Idents(f.pre) \cup Idents(f.post)) \ ({"result"} \cup {f.params[i][1] : i \in DOMAIN f.params}) # {}
                THEN "unbound"
                ELSE IF done.err THEN "unsupported" ELSE IF done.found THEN "counterexample" ELSE "proved"]

(***************************************************************************)
(* run_program_validates: passes over the blocks until one proves nothing  *)
(* new. A contract proven in a pass is a summary for the blocks after it.  *)
(***************************************************************************)
RECURSIVE Pass(_, _, _, _), Passes(_, _, _)
Pass(fns, names, summaries, verdicts) ==
  IF names = <<>> THEN [summaries |-> summaries, verdicts |-> verdicts]
  ELSE LET n == Head(names)
           v == Verdict(fns[n], summaries)
           more == IF v.is = "proved" /\ n \notin DOMAIN summaries THEN summaries @@ (n :> fns[n]) ELSE summaries
       IN  Pass(fns, Tail(names), more, (n :> v) @@ verdicts)

Passes(fns, names, summaries) ==
  LET p == Pass(fns, names, summaries, <<>>)
  IN  IF p.summaries = summaries THEN p.verdicts ELSE Passes(fns, names, p.summaries)

RunProgramValidates(fns, validates) == Passes(fns, validates, <<>>)

\* check_program_contracts: a counterexample or an unbound name fails the build.
CheckProgramContracts(verdicts) ==
  \A n \in DOMAIN verdicts : verdicts[n].is \notin {"counterexample", "unbound"}
=============================================================================
