--------------------------- MODULE CheckedProgram ---------------------------
(***************************************************************************)
(* Integer programs from their checks to their runs: the contracts are     *)
(* decided, the guards that smt.rs proves unnecessary are left out, and    *)
(* the compiled function is called with every input.                       *)
(*                                                                         *)
(* All arithmetic is done at the width of i64 and wraps; a let, an         *)
(* assignment and a return guard the range of their type and narrow to it; *)
(* a division and an index guard their operand (compiler/src/codegen.rs).  *)
(***************************************************************************)
EXTENDS ContractCheck, Refine

CONSTANTS
  Programs,   \* the programs: [fns, validates, main]
  MaxRounds,  \* how often a loop goes round before the run is given up
  Build(_),   \* what the checks say of a program: Check
  Result(_, _, _)  \* how a call of a program with such reports ends: Run

ASSUME WidthsMeet == /\ Narrow \subseteq Word /\ Word \subseteq Unknown /\ 0 \in Narrow
                     /\ MaxRounds \in Nat /\ Dim \in Nat

VARIABLES
  prog,    \* the program
  phase,   \* source, rejected, compiled, ran
  report,  \* of each function, what smt.rs proved (Analyze)
  refined, \* of each function, what refine.rs proves (RefineFn)
  verdict, \* of each validate block
  args,    \* the inputs of the last call
  out      \* how it ended

vars == <<prog, phase, report, refined, verdict, args, out>>

-----------------------------------------------------------------------------
\* Two's complement: the one value of range that n is equal to modulo its size.
Wrap(n, range) == CHOOSE x \in range : (x - n) % Cardinality(range) = 0

\* sdiv: towards zero.
Quotient(a, b) ==
  LET abs(x) == IF x < 0 THEN -x ELSE x
      q      == abs(a) \div abs(b)
  IN  IF (a < 0) = (b < 0) THEN q ELSE -q

(***************************************************************************)
(* The machine's record: sc the slots, v the value (b the truth value)     *)
(* just computed, done "running", "returned", "trap" or "endless", left    *)
(* the rounds its loops have left; and the ghosts: wrong, the guards that  *)
(* were left out and would have fired; failed, the places where one would  *)
(* fire, left out or not; and bent, whether some value was silently        *)
(* changed where no guard is meant to be (an i64 overflow, an argument     *)
(* that does not fit, anything inside audited).                            *)
(***************************************************************************)
RECURSIVE Ev(_, _, _), EvCond(_, _, _), EvIf(_, _, _), EvArgs(_, _, _, _, _), Exec(_, _, _, _), Loop(_, _, _), CallFn(_, _, _)

Running(m) == m.done = "running"
Trap(m)    == IF Running(m) THEN [m EXCEPT !.done = "trap"] ELSE m
Bend(m, bad) == [m EXCEPT !.bent = @ \/ (Running(m) /\ bad)]

\* guard_in_range, guard_nonzero_divisor, guard_index_in_bounds: nothing is
\* emitted inside audited, or at a place the report has proven.
Guard(m, key, ok, what) ==
  IF ok \/ ~Running(m) THEN m
  ELSE IF m.audited THEN Bend(m, TRUE)
  ELSE LET f == [m EXCEPT !.failed = @ \cup {<<m.fn, key>>}]
       IN  IF key \in m.proven THEN [f EXCEPT !.wrong = @ \cup {what}] ELSE Trap(f)

\* An i64 operation whose exact result is n.
WordOp(m, n) == Bend([m EXCEPT !.v = Wrap(n, Word)], n \notin Word)

\* Mutant: the wide value is passed on.
NarrowedNot(m, ty) == m

\* narrow_from_i64.
Narrowed(m, ty) == [m EXCEPT !.v = Wrap(@, Bounds(ty))]

\* call_args: an argument is narrowed, without a guard.
EvArgs(as, params, i, p, m) ==
  IF i > Len(as) THEN m
  ELSE LET a  == Ev(as[i], Child(p, i), m)
           ty == params[i][2]
           n  == Narrowed(Bend(a, a.v \notin Bounds(ty)), ty)
       IN  EvArgs(as, params, i + 1, p, [n EXCEPT !.args = Append(@, n.v)])

Ev(e, p, m) ==
  CASE e.e = "int"   -> [m EXCEPT !.v = e.n]
    [] e.e = "ident" -> [m EXCEPT !.v = Lookup(m.sc, e.name).val]
    [] e.e = "neg"   -> LET a == Ev(e.arg, Child(p, 1), m) IN WordOp(a, -a.v)
    [] e.e = "bin"   ->
         LET l == Ev(e.lhs, Child(p, 1), m)
             r == Ev(e.rhs, Child(p, 2), l)
         IN  IF e.op # "/" THEN WordOp(r, Arith(e.op, l.v, r.v))
             ELSE IF r.v = 0 THEN Trap(Guard(r, p, FALSE, "division"))
             ELSE WordOp(r, Quotient(l.v, r.v))
    [] e.e = "assign" ->
         LET a  == Ev(e.arg, Child(p, 1), m)
             ty == Lookup(a.sc, e.name).ty
             g  == Guard(a, p, a.v \in Bounds(ty), "range")
         IN  [g EXCEPT !.sc[Holder(g.sc, e.name)][e.name].val = Wrap(g.v, Bounds(ty))]
    [] e.e = "if"    -> EvIf(e, p, m)
    [] e.e = "index" ->
         LET i == Ev(e.arg, Child(p, 1), m)
         IN  Guard(i, p, i.v \in 0..Dim - 1, "index")
    [] e.e = "call"  ->
         LET a == EvArgs(e.args, m.fns[e.fn].params, 1, p, [m EXCEPT !.args = <<>>])
             r == CallFn(e.fn, a.args, a)
         IN  IF ~Running(a) THEN a
             ELSE [a EXCEPT !.v = r.v, !.wrong = r.wrong, !.failed = r.failed, !.bent = r.bent, !.left = r.left,
                            !.done = IF r.done = "returned" THEN "running" ELSE r.done]

EvCond(e, p, m) ==
  CASE e.e = "cmp" -> LET l == Ev(e.lhs, Child(p, 1), m)
                          r == Ev(e.rhs, Child(p, 2), l)
                      IN  [r EXCEPT !.b = Compare(e.op, l.v, r.v)]
    [] e.e = "not" -> LET a == EvCond(e.arg, Child(p, 1), m) IN [a EXCEPT !.b = ~@]
    [] e.e = "and" -> LET l == EvCond(e.lhs, Child(p, 1), m)
                      IN  IF l.b THEN EvCond(e.rhs, Child(p, 2), l) ELSE l

\* A block in a scope of its own; its value is that of its last statement.
ExecBlock(ss, p, m) == LET b == Exec(ss, 1, p, [m EXCEPT !.sc = Push(@)]) IN [b EXCEPT !.sc = Pop(@)]

EvIf(e, p, m) ==
  LET c == EvCond(e.cond, Child(p, 1), m)
  IN  IF c.b THEN ExecBlock(e.then, Child(p, 2), c)
      ELSE CASE e.els.k = "block" -> ExecBlock(e.els.body, Child(p, 3), c)
             [] e.els.k = "elif"  -> EvIf(e.els.chain, Child(p, 3), c)
             [] e.els.k = "none"  -> c

Loop(s, p, m) ==
  LET c == EvCond(s.cond, Child(p, 1), m)
  IN  IF ~Running(c) \/ ~c.b THEN c
      ELSE IF c.left = 0 THEN [c EXCEPT !.done = "endless"]
      ELSE Loop(s, p, ExecBlock(s.body, Child(p, 2), [c EXCEPT !.left = @ - 1]))

Exec(ss, i, p, m) ==
  IF i > Len(ss) \/ ~Running(m) THEN m
  ELSE
  LET s == ss[i]
      q == Child(p, i)
      after ==
        CASE s.s = "let" ->
               LET a == Ev(s.val, Child(q, 1), m)
                   g == Guard(a, q, a.v \in Bounds(s.ty), "range")
               IN  [g EXCEPT !.sc = Define(@, s.name, [ty |-> s.ty, val |-> Wrap(g.v, Bounds(s.ty))])]
          [] s.s = "return" ->
               LET a == Ev(s.val, Child(q, 1), m)
                   g == Narrowed(Guard(a, q, a.v \in Bounds(m.ret), "range"), m.ret)
               IN  IF Running(g) THEN [g EXCEPT !.done = "returned"] ELSE g
          [] s.s = "while"   -> Loop(s, q, m)
          [] s.s = "audited" -> [ExecBlock(s.body, Child(q, 2), [m EXCEPT !.audited = TRUE]) EXCEPT !.audited = m.audited]
          [] s.s = "expr"    -> Ev(s.val, Child(q, 1), m)
  IN  Exec(ss, i + 1, p, after)

CallFn(n, as, m) ==
  LET f == m.fns[n]
      slots == [x \in {f.params[i][1] : i \in DOMAIN f.params} |->
                  LET i == CHOOSE i \in DOMAIN f.params : f.params[i][1] = x
                  IN  [ty |-> f.params[i][2], val |-> as[i]]]
  IN  Exec(f.body, 1, <<>>, [m EXCEPT !.sc = <<slots>>, !.ret = f.ret, !.fn = n, !.audited = FALSE,
                                      !.proven = m.reports[n].proven])

\* The machine about to run p, compiled with these reports.
Machine(p, reports) == [fns |-> p.fns, reports |-> reports, sc |-> NewScopes, v |-> 0, b |-> FALSE, done |-> "running",
               left |-> MaxRounds, wrong |-> {}, failed |-> {}, fn |-> p.main, bent |-> FALSE, audited |-> FALSE,
               args |-> <<>>, ret |-> "i64", proven |-> {}]

\* A condition of a contract of f, for inputs x and the result r.
Holds(c, m, f, x, r) ==
  LET slots == [n \in {"result"} \cup {f.params[i][1] : i \in DOMAIN f.params} |->
                  [val |-> IF n = "result" THEN r ELSE x[CHOOSE i \in DOMAIN f.params : f.params[i][1] = n]]]
  IN  c = NoExpr \/ EvCond(c, <<>>, [m EXCEPT !.sc = <<slots>>]).b

-----------------------------------------------------------------------------
\* What a caller may pass.
Inputs(f) == {x \in [DOMAIN f.params -> Word] : \A i \in DOMAIN x : x[i] \in Bounds(f.params[i][2])}

\* The passes over a program.
Check(p) ==
  LET fns == p.fns
  IN  [verdict |-> RunProgramValidates(fns, p.validates),
       report  |-> [n \in DOMAIN fns |-> Analyze(fns[n])],
       refined |-> [n \in DOMAIN fns |-> RefineFn(fns[n])]]

\* How a call of main ends, and whether its contract held of it.
Run(p, reports, x) ==
  LET f     == p.fns[p.main]
      start == Machine(p, reports)
      m     == CallFn(p.main, x, start)
  IN  [done |-> m.done, v |-> m.v, wrong |-> m.wrong, failed |-> m.failed, bent |-> m.bent,
       pre |-> Holds(f.pre, start, f, x, 0), post |-> Holds(f.post, start, f, x, m.v)]

NotRun == [done |-> "none", v |-> 0, wrong |-> {}, failed |-> {}, bent |-> FALSE, pre |-> TRUE, post |-> TRUE]

Init ==
  /\ prog \in Programs
  /\ phase = "source" /\ report = <<>> /\ refined = <<>> /\ verdict = <<>> /\ args = <<>> /\ out = NotRun

\* main.rs: the contracts decide whether the build fails; smt::analyze then
\* decides which guards codegen emits.
Compile ==
  /\ phase = "source"
  /\ LET b == Build(prog) IN verdict' = b.verdict /\ report' = b.report /\ refined' = b.refined
  /\ phase' = IF CheckProgramContracts(verdict') THEN "compiled" ELSE "rejected"
  /\ UNCHANGED <<prog, args, out>>

\* The compiled main function, called with any inputs of its types.
Call ==
  /\ phase = "compiled"
  /\ \E x \in Inputs(prog.fns[prog.main]) : args' = x /\ out' = Result(prog, report, x)
  /\ phase' = "ran"
  /\ UNCHANGED <<prog, report, refined, verdict>>

Next == Compile \/ Call

Spec == Init /\ [][Next]_vars

-----------------------------------------------------------------------------
(***************************************************************************)
(* Properties.                                                             *)
(***************************************************************************)
\* The program, its report and verdicts are of the shapes the passes give them,
\* and a run ends in one of the four ways.
TypeOK ==
  /\ phase \in {"source", "rejected", "compiled", "ran"}
  /\ phase # "source" => DOMAIN report = DOMAIN prog.fns /\ DOMAIN verdict = Range(prog.validates)
  /\ out.done \in {"none", "returned", "trap", "endless"}
  /\ out.done = "returned" => out.v \in Bounds(prog.fns[prog.main].ret)

\* No call of the compiled function needs a guard that codegen left out because
\* smt.rs proved it: whatever the inputs, the branches taken and the rounds of
\* its loops. Of a value that audited code or an i64 overflow silently changed
\* the pass knows nothing, and two shapes of program it gets wrong (see gaps).
ElidedGuardsHold ==
  phase = "ran" /\ ~out.bent /\ (\A n \in DOMAIN report : report[n].gaps = {}) => out.wrong = {}

\* refine.rs:18-20: "everything it does prove is genuinely proved": no guard it
\* proves unnecessary would ever fire, whatever the inputs. It is a pass with
\* the same two blind spots for assignments made on one of several ways (misled)
\* and for values silently changed.
IntervalsHold ==
  phase = "ran" /\ ~out.bent =>
    \A n \in DOMAIN refined : ~refined[n].misled => \A key \in refined[n].proven : <<n, key>> \notin out.failed

\* smt.rs:141-144 says of every elided guard that its expression is "proven to
\* always be in range on every path that reaches this point".
ElidedGuardIsNeverNeeded == phase = "ran" /\ ~out.bent => out.wrong = {}

\* A contract reported as proved holds of every call that returns, its callees'
\* contracts used in place of their bodies; a build is only failed for a
\* contract that some input of the function really breaks, by another result
\* or by none, unless a conditional return was forgotten on the way.
ContractVerdictIsTrue ==
  \A n \in DOMAIN verdict :
    /\ verdict[n].is = "proved" /\ n = prog.main /\ phase = "ran" /\ out.done = "returned" /\ ~out.bent /\ out.pre
         => out.post
    /\ verdict[n].is = "counterexample" /\ ~verdict[n].lost /\ DOMAIN prog.fns = {n} =>
         \E x \in Inputs(prog.fns[n]) :
           LET m == Result(prog, report, x)
           IN  m.pre /\ (m.done # "returned" \/ m.bent \/ ~m.post)
=============================================================================
