------------------------------ MODULE Codegen ------------------------------
(***************************************************************************)
(* The compiled program (compiler/src/codegen.rs): the instructions        *)
(* codegen emits for a checked function, with the frees the FreeMap asks   *)
(* for, and a machine that runs them on a heap.                            *)
(*                                                                         *)
(* An instruction names registers and stack slots; both are one map, keyed *)
(* by the path of the node that owns them, so a slot is reused when its    *)
(* node runs again (entry_allocas). Jumps are relative. Branch conditions  *)
(* are data: either side may be taken. The callees of the function are     *)
(* compiled the same way: each frees the parameters it does not use        *)
(* (at_fn_end) and returns a fresh value.                                  *)
(***************************************************************************)
EXTENDS Ownership, Integers, SequencesExt

CONSTANTS
  Programs,   \* the functions to compile and run
  MaxRounds   \* how often a loop may go back to its condition

ASSUME MaxRoundsType == MaxRounds \in Nat

Undef  == -1   \* a slot nothing was stored to
Scalar == 0    \* any value that is not an address; the tag of no payload

-----------------------------------------------------------------------------
RECURSIVE Expr(_, _, _, _), HandleCode(_, _, _, _), Args(_, _, _, _, _), Stmts(_, _, _, _, _), IfExpr(_, _, _, _)

Slot(name, sc)    == Lookup(sc, name).slot
Copy(dst, src)    == [i |-> "copy", dst |-> dst, src |-> src]
Jump(off)         == [i |-> "jump", off |-> off]
Branch(off, loop) == [i |-> "branch", off |-> off, loop |-> loop]

\* Mutant: only the innermost frame is closed.
FreesTopFrame(fm, key, sc) ==
  IF key \notin DOMAIN fm THEN <<>>
  ELSE LET ns == SetToSeq(fm[key][Len(fm[key])])
       IN  [i \in DOMAIN ns |-> [i |-> "free", src |-> Slot(ns[i], sc), ty |-> Lookup(sc, ns[i]).ty]]

\* emit_frees_for_names: each name of each frame, looked up from the inside.
FreesForNames(fm, key, sc) ==
  IF key \notin DOMAIN fm THEN <<>>
  ELSE LET frame(f) == LET ns == SetToSeq(fm[key][f])
                       IN  [i \in DOMAIN ns |-> [i   |-> "free", src |-> Slot(ns[i], sc),
                                                 ty  |-> Lookup(sc, ns[i]).ty]]
       IN  FlattenSeq([f \in DOMAIN fm[key] |-> frame(f)])

\* Operands left to right.
Args(args, i, p, sc, fm) ==
  IF i > Len(args) THEN <<>>
  ELSE Expr(args[i], Child(p, i), sc, fm).code \o Args(args, i + 1, p, sc, fm)

(***************************************************************************)
(* expr / expr_ptr: the code that leaves e's value in register p, and      *)
(* whether it always returns from the function (terminated).               *)
(***************************************************************************)
Code(c) == [code |-> c, term |-> FALSE]

\* connect, listen, accept and open are kernel calls that give a handle;
\* send, recv and stop choose their kernel by the operand's type. Each traps
\* when its kernel fails (guard_io_ok).
HandleCode(e, p, sc, fm) ==
  LET q    == Child(p, 1)
      ty   == IF e.e \in {"send", "recv", "stop"} /\ e.arg.e = "ident" THEN Lookup(sc, e.arg.name).ty ELSE "tcp"
      arg  == Expr(e.arg, q, sc, fm).code
      val  == Expr(e.val, Child(p, 2), sc, fm).code
  IN  CASE e.e = "chan" -> <<[i |-> "alloc", dst |-> p, kind |-> "chan"]>>
        [] e.e \in {"connect", "listen"} -> <<[i |-> "open", dst |-> p, kind |-> "tcp"]>>
        [] e.e = "open"   -> <<[i |-> "open", dst |-> p, kind |-> "file"]>>
        [] e.e = "accept" -> arg \o <<[i |-> "io", dst |-> p, src |-> q], [i |-> "open", dst |-> p, kind |-> "tcp"]>>
        [] e.e = "send"   -> arg \o val \o
             (IF ty = "chan" THEN <<[i |-> "send", dst |-> q, src |-> Child(p, 2)]>>
              ELSE <<[i |-> "io", dst |-> p, src |-> q]>>)
        [] e.e = "recv"   -> arg \o <<[i |-> IF ty = "chan" THEN "recv" ELSE "io", dst |-> p, src |-> q]>>
        [] e.e = "stop"   -> arg \o <<[i |-> "free", src |-> q, ty |-> IF ty = "file" THEN "stopped" ELSE ty]>>

Expr(e, p, sc, fm) ==
  LET q   == Child(p, 1)
      arg == Expr(e.arg, q, sc, fm).code
  IN
  CASE e.e \in {"int", "bool", "str", "no"} -> Code(<<[i |-> "const", dst |-> p]>>)
    [] e.e = "spawn"  -> Code(Args(e.args, 1, p, sc, fm) \o
                              <<[i |-> "spawn", dst |-> p, args |-> [i \in DOMAIN e.args |-> Child(p, i)]]>>)
    [] e.e \in {"chan", "connect", "listen", "accept", "open", "send", "recv", "stop"} ->
         Code(HandleCode(e, p, sc, fm))
    [] e.e = "ident"  -> Code(<<Copy(p, Slot(e.name, sc))>>)
    [] e.e \in {"box", "froze"} ->
         Code(<<[i |-> "alloc", dst |-> p, kind |-> e.e]>> \o arg \o <<[i |-> "store", dst |-> p, src |-> q]>>)
    [] e.e = "deref"  -> Code(arg \o <<[i |-> "load", dst |-> p, src |-> q]>>)
    [] e.e = "borrow" -> Code(arg \o <<[i |-> "use", dst |-> p, src |-> q]>>)
    [] e.e \in {"some", "pair"} -> Code(arg \o <<Copy(p, q)>>)
    [] e.e = "field"  -> Code(arg \o <<IF e.field = "b" THEN Copy(p, q) ELSE [i |-> "const", dst |-> p]>>)
    [] e.e = "join"   -> Code(arg \o <<[i |-> "free", src |-> q, ty |-> "thread"]>>)
    [] e.e = "assign" -> Code(arg \o <<Copy(Slot(e.name, sc), q), Copy(p, q)>>)
    [] e.e = "call"   -> Code(Args(e.args, 1, p, sc, fm) \o
                              <<[i |-> "call", dst |-> p, fn |-> e.fn,
                                 args |-> [i \in DOMAIN e.args |-> Child(p, i)]]>>)
    [] e.e = "and"    -> LET l == Expr(e.lhs, q, sc, fm).code
                             r == Expr(e.rhs, Child(p, 2), sc, fm).code
                         IN  Code(l \o <<Branch(Len(r) + 1, FALSE)>> \o r)
    [] e.e = "if"     -> IfExpr(e, p, sc, fm)
    [] e.e = "match"  ->
         LET bind == Child(p, 4)
             some == Expr(e.arms[1], Child(p, 2), Define(Push(sc), e.bind, [ty |-> "box", slot |-> bind]), fm)
             none == Expr(e.arms[2], Child(p, 3), Push(sc), fm)
             a    == <<Copy(bind, q)>> \o some.code \o
                     (IF some.term THEN <<>>
                      ELSE <<Copy(p, Child(p, 2))>> \o
                           FreesForNames(fm, <<"arm", p, 1>>, Define(Push(sc), e.bind, [ty |-> "box", slot |-> bind])))
             b    == none.code \o (IF none.term THEN <<>>
                                   ELSE <<Copy(p, Child(p, 3))>> \o FreesForNames(fm, <<"arm", p, 2>>, Push(sc)))
         IN  [code |-> arg \o <<[i |-> "switch", src |-> q, off |-> Len(a) + 2]>>
                       \o a \o <<Jump(Len(b) + 1)>> \o b,
              term |-> some.term /\ none.term]

\* block_value_to_slot / block_side_effects in a scope of its own, then the
\* frees of the branch unless it returned.
BranchCode(ss, bp, p, key, sc, fm) ==
  LET body == Stmts(ss, 1, bp, Push(sc), fm)
      n    == Len(ss)
      value == IF n > 0 /\ ss[n].s = "expr" THEN <<Copy(p, Child(Child(bp, n), 1))>> ELSE <<>>
  IN  IF body.term THEN [code |-> body.code, term |-> TRUE]
      ELSE Code(body.code \o value \o FreesForNames(fm, key, body.sc))

IfExpr(e, p, sc, fm) ==
  LET cond == Expr(e.cond, Child(p, 1), sc, fm).code
      then == BranchCode(e.then, Child(p, 2), p, <<"then", p>>, sc, fm)
      els  == CASE e.els.k = "none"  -> Code(<<>>)
                [] e.els.k = "block" -> BranchCode(e.els.body, Child(p, 3), p, <<"else", p>>, sc, fm)
                [] e.els.k = "elif"  ->
                     LET inner == IfExpr(e.els.chain, Child(p, 3), sc, fm)
                     IN  [inner EXCEPT !.code = @ \o <<Copy(p, Child(p, 3))>>]
  IN  [code |-> cond \o <<Branch(Len(then.code) + 2, FALSE)>>
                \o then.code \o <<Jump(Len(els.code) + 1)>> \o els.code,
       term |-> then.term /\ els.term]

\* Mutant: the way round skips the condition and enters the body again.
WhileLoopNoTest(s, p, sc, fm) ==
  LET cond == Expr(s.cond, Child(p, 1), sc, fm).code
      body == Stmts(s.body, 1, Child(p, 2), Push(sc), fm)
      full == IF body.term THEN body.code ELSE body.code \o FreesForNames(fm, <<"while", p>>, body.sc)
  IN  cond \o <<Branch(Len(full) + 2, TRUE)>> \o full \o <<Jump(-Len(full))>>

\* while_loop: the condition is evaluated again on every way round.
WhileLoop(s, p, sc, fm) ==
  LET cond == Expr(s.cond, Child(p, 1), sc, fm).code
      body == Stmts(s.body, 1, Child(p, 2), Push(sc), fm)
      full == IF body.term THEN body.code ELSE body.code \o FreesForNames(fm, <<"while", p>>, body.sc)
  IN  cond \o <<Branch(Len(full) + 2, TRUE)>> \o full \o <<Jump(-(Len(cond) + 1 + Len(full)))>>

\* stmts and stmt: nothing is emitted after a return.
Stmts(ss, i, p, sc, fm) ==
  IF i > Len(ss) THEN [code |-> <<>>, sc |-> sc, term |-> FALSE]
  ELSE
  LET s == ss[i]
      q == Child(p, i)
      v == IF s.s \in {"while", "audited"} \/ s.val = NoExpr THEN Code(<<>>) ELSE Expr(s.val, Child(q, 1), sc, fm)
      one ==
        CASE s.s = "let" ->
               [code |-> v.code \o <<Copy(q, Child(q, 1))>>, term |-> v.term,
                sc   |-> Define(sc, s.name, [ty |-> s.ty, slot |-> q])]
          [] s.s = "return" ->
               [code |-> v.code \o FreesForNames(fm, <<"return", q>>, sc) \o <<[i |-> "ret", src |-> Child(q, 1)]>>,
                sc |-> sc, term |-> TRUE]
          [] s.s = "while" -> [code |-> WhileLoop(s, q, sc, fm), sc |-> sc, term |-> FALSE]
          [] s.s = "audited" ->
               LET b == Stmts(s.body, 1, Child(q, 2), Push(sc), fm)
               IN  [code |-> IF b.term THEN b.code ELSE b.code \o FreesForNames(fm, <<"audited", q>>, b.sc),
                    sc |-> sc, term |-> b.term]
          [] s.s = "expr" -> [code |-> v.code, sc |-> sc, term |-> v.term]
  IN  IF one.term THEN one
      ELSE LET rest == Stmts(ss, i + 1, p, one.sc, fm)
           IN  [rest EXCEPT !.code = one.code \o @]

\* function: parameters into slots, the body, the frees of a body that falls
\* off its end.
Function(prog, fm) ==
  LET sc   == << [n \in DOMAIN prog.params |-> [ty |-> prog.params[n], slot |-> <<n>>]] >>
      body == Stmts(prog.body, 1, <<>>, sc, fm)
  IN  IF body.term THEN body.code
      ELSE body.code \o FreesForNames(fm, <<"fn">>, body.sc) \o <<[i |-> "ret", src |-> <<>>]>>
=============================================================================
