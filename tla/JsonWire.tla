------------------------------ MODULE JsonWire ------------------------------
(***************************************************************************)
(* Compiled values on the wire: the encoder and the decoder that code      *)
(* generation unrolls over the nir_json_* kernels for one type.            *)
(***************************************************************************)
EXTENDS JsonText

RECURSIVE EncodeValueJson(_, _), DecodeValueJson(_, _)

EncodeStructJson(ty, v) ==
  FoldLeft(LAMBDA doc, i :
             SetRaw(doc, ty.names[i], EncodeValueJson(ty.of[i], v.kids[i])).out,
           JObj(<<>>), [i \in DOMAIN ty.of |-> i])

EncodeResultJson(ty, v) ==
  WrapJsonField(IF v.tag = 0 THEN "ok" ELSE "err",
                EncodeValueJson(ty.of[v.tag + 1], v.kids[1]))

EncodeValueJson(ty, v) ==
  CASE ty.t = "bool"   -> EncodeBool(v.n)
    [] ty.t = "int"    -> EncodeI64(v.n)
    [] ty.t = "f64"    -> EncodeF64(v)
    [] ty.t = "str"    -> EncodeStr(v.kids[1])
    [] ty.t = "result" -> EncodeResultJson(ty, v)
    [] ty.t = "struct" -> EncodeStructJson(ty, v)

\* Field by field; the first one that is missing or malformed ends it.
DecodeStructJson(ty, t) ==
  LET Field(i) == LET g == Get(t, ty.names[i])
                  IN  IF g.found THEN DecodeValueJson(ty.of[i], g.out)
                                 ELSE Err(Message(g.err))
      Step(acc, i) == IF acc.tag = 1 THEN acc
                      ELSE LET f == Field(i)
                           IN  IF f.tag = 1 THEN f
                               ELSE [acc EXCEPT !.kids = Append(@, f.kids[1])]
      all == FoldLeft(Step, [n |-> 0, tag |-> 0, kids |-> <<>>],
                      [i \in DOMAIN ty.of |-> i])
  IN  IF all.tag = 1 THEN all ELSE Ok(all)

DecodeResultJson(ty, t) ==
  LET Under(i, key) == LET d == DecodeValueJson(ty.of[i], Get(t, key).out)
                       IN  IF d.tag = 1 THEN d
                           ELSE Ok([d EXCEPT !.tag = i - 1])
  IN  CASE Get(t, "ok").found -> Under(1, "ok")
        [] ~Get(t, "ok").found /\ Get(t, "err").found -> Under(2, "err")
        [] OTHER -> Err(Message(Words("neither")))

DecodeValueJson(ty, t) ==
  CASE ty.t = "bool"   -> ScalarResult(DecodeBool(t))
    [] ty.t = "int"    -> ResultMerge(DecodeI64(t), Val(NarrowFromI64(DecodeI64(t).out, ty.range)))
    [] ty.t = "f64"    -> ScalarResult(DecodeF64(t))
    [] ty.t = "str"    -> StrResult(DecodeStr(t))
    [] ty.t = "result" -> DecodeResultJson(ty, t)
    [] ty.t = "struct" -> DecodeStructJson(ty, t)
=============================================================================
