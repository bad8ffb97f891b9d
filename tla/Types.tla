-------------------------------- MODULE Types --------------------------------
(***************************************************************************)
(* The types of compiler/src/ast.rs and their layouts in codegen.rs.       *)
(*                                                                         *)
(* A type is a tuple whose first component names its constructor: <<"i8">>,*)
(* <<"box", t>>, <<"vector", t, n>>, <<"matrix", t, rows, columns>>,       *)
(* <<"named", name, arguments>>, <<"fn", parameters, result>>. A registry  *)
(* maps the name of every struct and enum to its declaration, a struct     *)
(* being one group of named fields and an enum one group per variant.      *)
(***************************************************************************)
EXTENDS Integers, Sequences, SequencesExt, FiniteSetsExt, TLC

Named(n, args)   == <<"named", n, args>>
Vector(t, n)     == <<"vector", t, n>>
Matrix(t, rs, cs) == <<"matrix", t, rs, cs>>
Str   == <<"str">>
I64   == <<"i64">>
F64   == <<"f64">>
Bool  == <<"bool">>
Unit  == <<"unit">>
Json  == <<"json">>
Dec   == <<"dec128">>
Db    == <<"db">>
Mq    == <<"mq">>
Error == <<"error">>

Is(t, constructor) == t[1] = constructor

\* Ty::is_integer, is_numeric, is_aggregate, is_transact_scalar.
IsInteger(t)   == t[1] \in {"i8", "i16", "i32", "i64", "u8", "u16", "u32", "u64", "usize"}
IsNumeric(t)   == IsInteger(t) \/ t \in {F64, Dec}
IsArray(t)     == t[1] \in {"vector", "matrix"}
IsAggregate(t) == IsArray(t) \/ Is(t, "named")
IsTransactScalar(t) == IsNumeric(t) \/ t \in {Bool, Str}

\* in_range, for literals that fit in 15 bits.
InRange(t, v) ==
  CASE t[1] = "i8" -> v \in -128..127
    [] t[1] = "u8" -> v \in 0..255
    [] t[1] \in {"u16", "u32", "u64", "usize"} -> v >= 0
    [] OTHER -> IsInteger(t)

\* result_of and workflow_result_of.
ResultOf(t)         == Named("Result", <<t, Str>>)
WorkflowResultOf(t) == Named("Result", <<t, Named("WorkflowActionError", <<>>)>>)

-----------------------------------------------------------------------------
Struct(params, fields) == [kind |-> "struct", params |-> params, groups |-> <<<<"", fields>>>>]
Enum(params, variants) == [kind |-> "enum", params |-> params, groups |-> variants]
Var(n)  == Named(n, <<>>)
Only(n) == <<n, <<>>>>

\* prelude_enums: a variant is its name and its payload. Of the 9 errors of a
\* workflow action, of the currencies and of the units a few stand for all.
PreludeEnums ==
  [Option    |-> Enum(<<"T">>, << <<"Some", <<Var("T")>>>>, Only("None") >>),
   Result    |-> Enum(<<"T", "E">>, << <<"Ok", <<Var("T")>>>>, <<"Err", <<Var("E")>>>> >>),
   Recipient |-> Enum(<<>>, << <<"BySubject", <<Str>>>>, <<"ByRole", <<Str>>>> >>),
   WorkflowActionError |->
     Enum(<<>>, << Only("NoSuchTransition"), Only("InstanceNotFound"), <<"ActionPending", <<Str>>>> >>),
   CurrencyCode |-> Enum(<<>>, << Only("EUR"), Only("INR") >>),
   UnitCode     |-> Enum(<<>>, << Only("Metre"), Only("Each") >>)]

\* prelude_structs: a field is its name and its type.
PreludeStructs ==
  [HttpResponse |-> Struct(<<>>, << <<"status", I64>>, <<"body", Str>> >>),
   VerifiedIdentity |-> Struct(<<>>, << <<"subject", Str>>, <<"issuer", Str>>, <<"audience", Str>>,
                                        <<"expires_at", I64>>, <<"issued_at", I64>>, <<"claims_json", Str>> >>),
   RoleView  |-> Struct(<<>>, << <<"role", Str>> >>),
   ClaimView |-> Struct(<<>>, << <<"value", Str>> >>),
   ApplicationSession |-> Struct(<<>>, << <<"session_id", Str>>, <<"identity_subject", Str>>,
                                          <<"identity_issuer", Str>>, <<"created_at", I64>>,
                                          <<"expires_at", I64>>, <<"last_accessed_at", I64>> >>),
   RefreshTokenHandle |-> Struct(<<>>, << <<"handle", <<"box", I64>>>>, <<"expires_at", I64>> >>),
   Pair    |-> Struct(<<"A", "B">>, << <<"first", Var("A")>>, <<"second", Var("B")>> >>),
   Money   |-> Struct(<<>>, << <<"amount", Dec>>, <<"currency", Var("CurrencyCode")>> >>),
   Measure |-> Struct(<<>>, << <<"value", Dec>>, <<"unit_code", Var("UnitCode")>> >>)]

\* TypeRegistry::build.
Registry(user) == user @@ PreludeEnums @@ PreludeStructs

IsStruct(r, n) == n \in DOMAIN r /\ r[n].kind = "struct"
IsEnum(r, n)   == n \in DOMAIN r /\ r[n].kind = "enum"

\* find_variant: the enum and the position of a variant, by its bare name.
Owners(r, v) == {n \in DOMAIN r : IsEnum(r, n) /\ \E i \in DOMAIN r[n].groups : r[n].groups[i][1] = v}
IsVariant(r, v) == Owners(r, v) # {}
Owner(r, v)     == CHOOSE n \in Owners(r, v) : TRUE
VariantOf(r, n, v) == CHOOSE i \in DOMAIN r[n].groups : r[n].groups[i][1] = v

RECURSIVE Substitute(_, _), Bind(_, _, _, _), BindAll(_, _, _, _, _)

\* substitute_ty, zip_type_params.
Substitute(t, subst) ==
  CASE Is(t, "named") /\ t[3] = <<>> -> IF t[2] \in DOMAIN subst THEN subst[t[2]] ELSE t
    [] Is(t, "named") -> Named(t[2], [i \in DOMAIN t[3] |-> Substitute(t[3][i], subst)])
    [] t[1] \in {"box", "froze", "ref", "thread", "chan", "vector", "matrix"} ->
         [t EXCEPT ![2] = Substitute(t[2], subst)]
    [] OTHER -> t

ZipTypeParams(params, args) ==
  LET n == Min({Len(params), Len(args)})
  IN  [p \in {params[i] : i \in 1..n} |-> args[CHOOSE i \in 1..n : params[i] = p]]

\* bind_type_params: subst extended by what makes the declared type d the type t.
Bind(d, t, params, subst) ==
  CASE Is(d, "named") /\ d[3] = <<>> /\ d[2] \in Range(params) -> subst @@ (d[2] :> t)
    [] d[1] = t[1] /\ d[1] \in {"box", "froze", "ref", "thread", "chan", "vector", "matrix"} ->
         Bind(d[2], t[2], params, subst)
    [] d[1] = t[1] /\ Is(d, "named") /\ d[2] = t[2] /\ Len(d[3]) = Len(t[3]) ->
         BindAll(d[3], t[3], 1, params, subst)
    [] OTHER -> subst
BindAll(ds, ts, i, params, subst) ==
  IF i > Len(ds) THEN subst ELSE BindAll(ds, ts, i + 1, params, Bind(ds[i], ts[i], params, subst))

\* The types of the fields of each group of a named type, its arguments put in.
FieldTypes(group, isStruct) == IF isStruct THEN [i \in DOMAIN group[2] |-> group[2][i][2]] ELSE group[2]
DeclaredGroups(r, n) == [i \in DOMAIN r[n].groups |-> FieldTypes(r[n].groups[i], r[n].kind = "struct")]
Groups(r, t) ==
  LET declared == DeclaredGroups(r, t[2])
      subst    == ZipTypeParams(r[t[2]].params, t[3])
  IN  [i \in DOMAIN declared |-> [k \in DOMAIN declared[i] |-> Substitute(declared[i][k], subst)]]
Inside(r, t) == UNION {Range(Groups(r, t)[i]) : i \in DOMAIN Groups(r, t)}

-----------------------------------------------------------------------------
RECURSIVE AffineVisiting(_, _, _), AffineSupported(_, _, _), CyclicLayout(_, _, _),
          WordCount(_, _), Lowers(_, _)

\* TypeRegistry::is_affine; a vector is what Ty::is_affine says, whatever is in it.
AffineVisiting(r, t, visiting) ==
  IF Is(t, "named")
  THEN t[2] \notin visiting /\ \E u \in Inside(r, t) : AffineVisiting(r, u, visiting \cup {t[2]})
  ELSE t[1] \in {"box", "thread", "sandbox", "tcp", "listener", "file", "db", "mq"}
IsAffine(r, t) == AffineVisiting(r, t, {})

\* affine_codegen_supported_visiting.
AffineSupported(r, t, visiting) ==
  \/ ~IsAffine(r, t)
  \/ Is(t, "box") /\ AffineSupported(r, t[2], visiting)
  \/ t[1] \in {"tcp", "listener", "db", "mq"}
  \/ /\ Is(t, "named")
     /\ t[2] \in visiting \/ \A u \in Inside(r, t) : AffineSupported(r, u, visiting \cup {t[2]})

\* llvm_ty: whether a type has a form in the generated code.
Lowers(r, t) ==
  CASE Is(t, "sandbox") -> FALSE
    [] IsArray(t)       -> Lowers(r, t[2])
    [] Is(t, "named")   -> AffineSupported(r, t, {})
    [] OTHER            -> TRUE

\* Mutant: the elements of a vector are not looked into.
CyclicLayoutShallow(r, t, visiting) ==
  /\ Is(t, "named")
  /\ t[2] \in visiting \/ \E u \in Inside(r, t) : CyclicLayout(r, u, visiting \cup {t[2]})

\* has_cyclic_layout: a box, a reference or a handle ends the search.
CyclicLayout(r, t, visiting) ==
  CASE Is(t, "named") -> \/ t[2] \in visiting
                         \/ \E u \in Inside(r, t) : CyclicLayout(r, u, visiting \cup {t[2]})
    [] IsArray(t)     -> CyclicLayout(r, t[2], visiting)
    [] OTHER          -> FALSE

\* elem_byte_size: a vector holds scalars only.
ElemBytes(t) ==
  CASE t[1] \in {"i8", "u8", "bool"} -> 1
    [] t[1] \in {"i16", "u16"} -> 2
    [] t[1] \in {"i32", "u32"} -> 4
    [] OTHER -> 8

\* agg_elem_and_len, agg_layout.
Elements(t) == IF Is(t, "vector") THEN t[3] ELSE t[3] * t[4]
ArrayBytes(t) == Elements(t) * ElemBytes(t[2])

SumOver(r, ts) == FoldSeq(LAMBDA u, acc : acc + WordCount(r, u), 0, ts)

\* declare_named_type: the words of an enum's payload buffer.
BufferWords(r, t) == Max({0} \cup {SumOver(r, Groups(r, t)[i]) : i \in DOMAIN Groups(r, t)})

\* Mutant: the last, partly filled word is left out.
WordCountFloor(r, t) ==
  CASE t \in {Str, Dec} -> 2
    [] IsArray(t) -> ArrayBytes(t) \div 8
    [] Is(t, "named") -> IF IsStruct(r, t[2]) THEN SumOver(r, Groups(r, t)[1]) ELSE 1 + BufferWords(r, t)
    [] OTHER -> 1

\* conservative_word_count.
WordCount(r, t) ==
  CASE t \in {Str, Dec} -> 2
    [] IsArray(t) -> (ArrayBytes(t) + 7) \div 8
    [] Is(t, "named") -> IF IsStruct(r, t[2]) THEN SumOver(r, Groups(r, t)[1]) ELSE 1 + BufferWords(r, t)
    [] OTHER -> 1
=============================================================================
