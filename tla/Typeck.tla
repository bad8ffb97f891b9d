------------------------------- MODULE Typeck -------------------------------
(***************************************************************************)
(* The statement and expression checks of compiler/src/typeck.rs, for the  *)
(* part of the language that owns memory: what a program must satisfy      *)
(* before ownership.rs and codegen.rs see it.                              *)
(*                                                                         *)
(* A program is a function [params, ret, body]: params maps names to       *)
(* types, body is a sequence of statements. A statement is a record whose  *)
(* field s says which, an expression one whose field e does. Nodes carry   *)
(* no span: a pass names a node by its path from the root.                 *)
(*                                                                         *)
(* Types: int, bool, str, unit, froze (froze i64) and chan (chan box i64)  *)
(* are copied; box (box i64), boxbox (box box i64), option (Option(box     *)
(* i64)), pair (a struct of a box b and a number n), thread, tcp, listener *)
(* and file are affine.                                                    *)
(***************************************************************************)
EXTENDS Scopes, Naturals, FiniteSets

CONSTANT Sigs    \* name -> [params: types, ret: type] of the other functions

NoExpr == [e |-> "none"]
NoElse == [k |-> "none"]

\* TypeRegistry::is_affine and Ty::is_affine.
Affine(ty) == ty \in {"box", "boxbox", "option", "pair", "thread", "tcp", "listener", "file"}

-----------------------------------------------------------------------------
RECURSIVE Infer(_, _, _), InferHandle(_, _, _), InferStruct(_, _, _), InferIf(_, _, _, _), BlockType(_, _, _, _),
          ArmType(_, _, _, _), Conforms(_, _, _, _), IfStatement(_, _, _), WellTyped(_, _, _)

(***************************************************************************)
(* Infer(e, ret, sc) is infer's type of e, "error" where it reports one.   *)
(***************************************************************************)
Infer(e, ret, sc) ==
  CASE e.e \in {"int", "bool", "str"} -> e.e
    [] e.e \in {"chan", "connect", "listen", "accept", "open", "send", "recv", "stop"} -> InferHandle(e, ret, sc)
    [] e.e \in {"pair", "field"} -> InferStruct(e, ret, sc)
    [] e.e = "ident"  -> IF Resolves(sc, e.name) THEN Lookup(sc, e.name) ELSE "error"
    [] e.e = "box"    -> LET t == Infer(e.arg, ret, sc)
                         IN  IF t = "int" THEN "box" ELSE IF t = "box" THEN "boxbox" ELSE "error"
    [] e.e = "deref"  -> LET t == Infer(e.arg, ret, sc)
                         IN  IF t \in {"box", "froze"} THEN "int" ELSE IF t = "boxbox" THEN "box" ELSE "error"
    [] e.e = "froze"  -> IF Infer(e.arg, ret, sc) = "int" THEN "froze" ELSE "error"
    [] e.e = "borrow" -> IF Infer(e.arg, ret, sc) = "error" THEN "error" ELSE "int"
    [] e.e = "some"   -> IF Conforms(e.arg, "box", ret, sc) THEN "option" ELSE "error"
    [] e.e = "no"     -> "option"
    [] e.e = "spawn"  -> IF \A i \in DOMAIN e.args : Conforms(e.args[i], "box", ret, sc) THEN "thread" ELSE "error"
    [] e.e = "join"   -> IF Infer(e.arg, ret, sc) = "thread" THEN "int" ELSE "error"
    [] e.e = "and"    -> IF Infer(e.lhs, ret, sc) = "bool" /\ Infer(e.rhs, ret, sc) = "bool"
                         THEN "bool" ELSE "error"
    [] e.e = "call"   -> IF /\ Len(e.args) = Len(Sigs[e.fn].params)
                            /\ \A i \in DOMAIN e.args :
                                 Conforms(e.args[i], Sigs[e.fn].params[i], ret, sc)
                         THEN Sigs[e.fn].ret ELSE "error"
    [] e.e = "assign" -> IF /\ Resolves(sc, e.name)
                            /\ Conforms(e.arg, Lookup(sc, e.name), ret, sc)
                         THEN Lookup(sc, e.name) ELSE "error"
    [] e.e = "if"     -> InferIf(e, "any", ret, sc)
    [] e.e = "match"  -> ArmType(e, "any", ret, sc)

\* The operations on connections, listeners, files and channels, which share
\* send, recv and stop. A chan needs a position that gives it its type.
InferHandle(e, ret, sc) ==
  LET target == Infer(e.arg, ret, sc)
  IN  CASE e.e = "chan"    -> "error"
        [] e.e = "connect" -> "tcp"
        [] e.e = "listen"  -> "listener"
        [] e.e = "open"    -> "file"
        [] e.e = "accept"  -> IF target = "listener" THEN "tcp" ELSE "error"
        [] e.e = "send"    -> IF target = "chan" /\ Conforms(e.val, "box", ret, sc) THEN "unit"
                              ELSE IF target \in {"tcp", "file"} /\ Infer(e.val, ret, sc) = "str" THEN "unit"
                              ELSE "error"
        [] e.e = "recv"    -> IF target = "chan" THEN "box"
                              ELSE IF target \in {"tcp", "file"} THEN "str" ELSE "error"
        [] e.e = "stop"    -> IF target \in {"tcp", "listener", "file"} THEN "unit" ELSE "error"

\* infer_struct_construction and FieldAccess.
InferStruct(e, ret, sc) ==
  CASE e.e = "pair"  -> IF Conforms(e.arg, "box", ret, sc) THEN "pair" ELSE "error"
    [] e.e = "field" -> IF Infer(e.arg, ret, sc) # "pair" THEN "error"
                        ELSE IF e.field = "b" THEN "box" ELSE "int"

(***************************************************************************)
(* check: e against the type want its position asks for.                   *)
(***************************************************************************)
Conforms(e, want, ret, sc) ==
  CASE e.e = "chan"  -> want = "chan"
    [] e.e = "if"    -> InferIf(e, want, ret, sc) = want
    [] e.e = "match" -> ArmType(e, want, ret, sc) = want
    [] OTHER         -> Infer(e, ret, sc) = want

\* check_if: want "any" is a value nobody reads, whose branches must agree.
InferIf(e, want, ret, sc) ==
  LET then  == BlockType(e.then, want, ret, sc)
      other == CASE e.els.k = "none"  -> "unit"
                 [] e.els.k = "block" -> BlockType(e.els.body, want, ret, sc)
                 [] e.els.k = "elif"  -> InferIf(e.els.chain, want, ret, sc)
  IN  IF Infer(e.cond, ret, sc) # "bool" \/ "error" \in {then, other} THEN "error"
      ELSE IF e.els.k = "none" THEN (IF want \in {"any", "unit"} THEN "unit" ELSE "error")
      ELSE IF then = other THEN then ELSE "error"

\* check_block_value: the type of a block's trailing expression.
BlockType(ss, want, ret, sc) ==
  LET n == Len(ss)
      inner == WellTyped(SubSeq(ss, 1, n - 1), ret, Push(sc))
  IN  IF n = 0 THEN (IF want = "any" THEN "unit" ELSE want)
      ELSE IF ~inner.ok THEN "error"
      ELSE IF ss[n].s = "expr"
      THEN (IF want = "any" THEN Infer(ss[n].val, ret, inner.sc)
            ELSE IF Conforms(ss[n].val, want, ret, inner.sc) THEN want ELSE "error")
      ELSE IF WellTyped(<<ss[n]>>, ret, inner.sc).ok
      THEN (IF want = "any" THEN "unit" ELSE want) ELSE "error"

\* check_match over Option(box i64): one arm per variant, Some binds its box.
\* The arms of a match used as a statement ("discard") need not agree.
ArmType(e, want, ret, sc) ==
  LET arms == <<Define(Push(sc), e.bind, "box"), Push(sc)>>
      ty   == [i \in 1..2 |->
                 IF want \in {"any", "discard"} THEN Infer(e.arms[i], ret, arms[i])
                 ELSE IF Conforms(e.arms[i], want, ret, arms[i]) THEN want ELSE "error"]
  IN  IF Infer(e.arg, ret, sc) # "option" \/ "error" \in {ty[1], ty[2]} THEN "error"
      ELSE IF want = "discard" THEN "unit"
      ELSE IF ty[1] = ty[2] THEN ty[1] ELSE "error"

\* check_stmt_expr of an if: its value is discarded, so its branches need not agree.
IfStatement(e, ret, sc) ==
  /\ Infer(e.cond, ret, sc) = "bool"
  /\ WellTyped(e.then, ret, Push(sc)).ok
  /\ e.els.k = "block" => WellTyped(e.els.body, ret, Push(sc)).ok
  /\ e.els.k = "elif"  => IfStatement(e.els.chain, ret, sc)

(***************************************************************************)
(* check_stmts: whether every statement is accepted, and the scopes its    *)
(* lets leave behind. A statement's own value is discarded.                *)
(***************************************************************************)
WellTyped(ss, ret, sc) ==
  IF ss = <<>> THEN [ok |-> TRUE, sc |-> sc]
  ELSE LET s    == Head(ss)
           body(b) == WellTyped(b, ret, Push(sc)).ok
           ok   == CASE s.s = "let"     -> Conforms(s.val, s.ty, ret, sc)
                     [] s.s = "return"  -> IF s.val = NoExpr THEN ret = "unit"
                                           ELSE Conforms(s.val, ret, ret, sc)
                     [] s.s = "while"   -> Infer(s.cond, ret, sc) = "bool" /\ body(s.body)
                     [] s.s = "audited" -> body(s.body)
                     [] s.s = "expr" /\ s.val.e = "if" -> IfStatement(s.val, ret, sc)
                     [] s.s = "expr" /\ s.val.e = "match" ->
                          ArmType(s.val, "discard", ret, sc) # "error"
                     [] OTHER           -> Infer(s.val, ret, sc) # "error"
           next == IF s.s = "let" THEN Define(sc, s.name, s.ty) ELSE sc
           rest == WellTyped(Tail(ss), ret, next)
       IN  IF ok THEN rest ELSE [ok |-> FALSE, sc |-> sc]

\* definitely_returns: every path through the statements hits a return.
RECURSIVE DefinitelyReturns(_), IfReturns(_)
DefinitelyReturns(ss) ==
  \E i \in DOMAIN ss :
    \/ ss[i].s = "return"
    \/ ss[i].s = "expr" /\ ss[i].val.e = "if" /\ IfReturns(ss[i].val)
    \/ ss[i].s = "audited" /\ DefinitelyReturns(ss[i].body)
IfReturns(e) ==
  /\ DefinitelyReturns(e.then)
  /\ CASE e.els.k = "none"  -> FALSE
       [] e.els.k = "block" -> DefinitelyReturns(e.els.body)
       [] e.els.k = "elif"  -> IfReturns(e.els.chain)

\* check_fn.
CheckFn(prog) ==
  /\ WellTyped(prog.body, prog.ret, <<prog.params>>).ok
  /\ prog.ret = "unit" \/ DefinitelyReturns(prog.body)
=============================================================================
