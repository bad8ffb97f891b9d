------------------------------ MODULE JsonText ------------------------------
(***************************************************************************)
(* JSON texts and the nir_json_* kernels over them. A text is JSON, or     *)
(* words (an error message, which no parser takes for JSON), or Unwritten: *)
(* a string slot nobody stored to. What a kernel answers becomes a Result. *)
(***************************************************************************)
EXTENDS Integers, Sequences, FiniteSets, SequencesExt

CONSTANT Word    \* the 64-bit integers

ASSUME WordType == Word \subseteq Int /\ IsFiniteSet(Word)

Text(j) == [j |-> j, n |-> 0, s |-> "", flds |-> <<>>, items |-> <<>>]
Unwritten == Text("unwritten")
Words(s)  == [Text("words") EXCEPT !.s = s]
JNull     == Text("null")
JBool(b)  == [Text("bool") EXCEPT !.n = b]
JNum(n)   == [Text("num") EXCEPT !.n = n]     \* an integer, of any size
JReal(n)  == [Text("real") EXCEPT !.n = n]    \* a number with a fraction
JStr(t)   == [Text("str") EXCEPT !.items = <<t>>]
JArr(ts)  == [Text("arr") EXCEPT !.items = ts]
JObj(f)   == [Text("obj") EXCEPT !.flds = f]

IsJson(t) == t.j \notin {"words", "unwritten"}

(* A kernel's status and the out-parameter it wrote for that status.       *)
Found(out) == [found |-> TRUE, out |-> out, err |-> Unwritten]
Failed     == [found |-> FALSE, out |-> Unwritten, err |-> Words("error")]
When(ok, out) == IF ok THEN Found(out) ELSE Failed

-----------------------------------------------------------------------------
(* The accessors parse their document anew on every call.                  *)

Has(doc, key) == doc.j = "obj" /\ key \in DOMAIN doc.flds

Get(doc, key) == IF Has(doc, key) THEN Found(doc.flds[key]) ELSE Failed

ArrayGet(doc, idx) ==
  IF doc.j = "arr" /\ idx \in 0 .. Len(doc.items) - 1
    THEN Found(doc.items[idx + 1]) ELSE Failed

ArrayLen(doc) == IF doc.j = "arr" THEN Found(Len(doc.items)) ELSE Failed

AsI64(t)  == t.j = "num" /\ t.n \in Word
AsF64(t)  == t.j \in {"num", "real"}
AsBool(t) == t.j = "bool" \/ (t.j = "num" /\ t.n \in {0, 1})

\* A leaf under a key: decoded like a whole document.
Leaf(doc, key, is(_), read(_)) ==
  IF Has(doc, key) /\ is(doc.flds[key]) THEN Found(read(doc.flds[key]))
                                        ELSE Failed
Number(t)  == t.n
Content(t) == t.items[1]
IsStr(t)   == t.j = "str"

GetStr(doc, key)  == Leaf(doc, key, IsStr, Content)
GetI64(doc, key)  == Leaf(doc, key, AsI64, Number)
GetF64(doc, key)  == Leaf(doc, key, AsF64, Number)
GetBool(doc, key) == Leaf(doc, key, AsBool, Number)

Validate(t) == When(IsJson(t), t)

\* nir_json_set_raw: null counts as an empty object.
SetRaw(doc, key, raw) ==
  IF ~IsJson(doc) \/ ~IsJson(raw) \/ doc.j \notin {"null", "obj"} THEN Failed
  ELSE Found(JObj((key :> raw) @@ doc.flds))

SetStr(doc, key, str) ==
  IF ~IsJson(doc) \/ doc.j \notin {"null", "obj"} THEN Failed
  ELSE Found(JObj((key :> JStr(str)) @@ doc.flds))

EncodeI64(n)  == JNum(n)
EncodeBool(n) == JBool(n)
EncodeStr(t)  == JStr(t)
EncodeF64(v)  == IF v.tag = 0 THEN JReal(v.n) ELSE JNull    \* NaN and infinity

DecodeI64(t)  == IF AsI64(t) THEN Found(t.n) ELSE Failed
DecodeF64(t)  == IF AsF64(t) THEN Found(t.n) ELSE Failed
DecodeBool(t) == IF AsBool(t) THEN Found(t.n) ELSE Failed
DecodeStr(t)  == IF IsStr(t) THEN Found(Content(t)) ELSE Failed

-----------------------------------------------------------------------------
(* Types [t, range, names, of] and values [n, tag, kids]: a number and     *)
(* whether it is finite, a string's text, a struct's fields, or a Result's *)
(* tag (0 Ok, 1 Err) and payload.                                          *)

Val(n)       == [n |-> n, tag |-> 0, kids |-> <<>>]
StrVal(t)    == [n |-> 0, tag |-> 0, kids |-> <<t>>]
Ok(v)        == [n |-> 0, tag |-> 0, kids |-> <<v>>]
Err(v)       == [n |-> 0, tag |-> 1, kids |-> <<v>>]
Message(t)   == StrVal(t)

NarrowFromI64(n, range) ==
  CHOOSE x \in range : (x - n) % Cardinality(range) = 0

\* The status of nir_json_set_raw is not looked at.
WrapJsonField(key, raw) == SetRaw(JObj(<<>>), key, raw).out

\* What a scalar's kernel call becomes: Result(ty, str).
ResultMerge(r, ok) == IF r.found THEN Ok(ok) ELSE Err(Message(r.err))
ScalarResult(r)    == ResultMerge(r, Val(r.out))
StrResult(r)       == ResultMerge(r, StrVal(r.out))
=============================================================================
