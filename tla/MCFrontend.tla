----------------------------- MODULE MCFrontend ------------------------------
(***************************************************************************)
(* Programs of two kinds: a struct A and an enum B that contain scalars,   *)
(* arrays, prelude types, each other and themselves, with nothing written; *)
(* and one program with a local of every kind of type, in which every      *)
(* expression of up to Levels forms is written.                            *)
(***************************************************************************)
EXTENDS Frontend

CONSTANT Levels

I8 == <<"i8">>
Opt(t) == Named("Option", <<t>>)
Two(t, u) == Named("Pair", <<t, u>>)
Proof == Plain("RoleView")

FieldChoices == {I8, Str, Vector(I8, 3), Vector(<<"i16">>, 5), <<"box", Plain("A")>>, Plain("A"), Plain("B"), Opt(I8),
                 Opt(Plain("A")), Two(I8, Plain("B"))}
Unions == {[A |-> Struct(<<>>, << <<"x", t>>, <<"y", u>> >>),
            B |-> Enum(<<>>, << <<"X", <<I8, v>>>>, <<"Y", <<w>>>> >>)]
             : t \in {I8, Vector(I8, 3), Str} \cup FieldChoices, u \in {I8, Vector(Plain("A"), 2)},
               v \in FieldChoices, w \in FieldChoices}

Locals ==
  [x |-> I8, n |-> I64, b |-> Bool, s |-> Str, f |-> F64, v |-> Vector(I8, 2), w |-> Vector(F64, 3),
   m |-> Matrix(F64, 2, 3), q |-> Matrix(F64, 2, 2), z |-> Vector(F64, 2), o |-> Opt(I8), rs |-> ResultOf(I8), p |-> Two(I8, I8),
   bx |-> <<"box", I8>>, c |-> <<"chan", I8>>, t |-> <<"tcp">>, k |-> Dec, h |-> <<"fn", <<I8>>, Two(I8, I8)>>, j |-> Json,
   fl |-> <<"file">>, th |-> <<"thread", I8>>, db |-> Db, mq |-> Mq, id |-> Identity, l |-> <<"listener">>, rv |-> Proof,
   a |-> Plain("ApplicationSession"), to |-> Plain("Recipient"), tok |-> Plain("RefreshTokenHandle"), u |-> <<"u32">>,
   oi |-> Opt(Identity), ri |-> ResultOf(Identity), y |-> Str]

Fn(ps, t, req) == [params |-> ps, ret |-> t, requires |-> req]
Sigs == [keep |-> Fn(<<I8>>, I8, ""), pair |-> Fn(<<Opt(I8)>>, Two(I8, I8), ""), quiet |-> Fn(<<I8>>, Unit, ""),
         secret |-> Fn(<<I8>>, I8, "RoleView"), pay |-> Fn(<<Str, I8>>, I8, ""), ok |-> Fn(<<Str>>, Bool, "")]

Writing == [user |-> <<>>, locals |-> Locals, sigs |-> Sigs, depth |-> Levels]
MCPrograms == {Writing} \cup {[user |-> d, locals |-> <<>>, sigs |-> <<>>, depth |-> 0] : d \in Unions}

MCWants == {I8, Bool, Str, Opt(I8), ResultOf(I8), Two(I8, I8), Opt(Two(I8, I8)), Vector(I8, 2), Matrix(I8, 2, 2),
            ResultOf(Json), <<"chan", I8>>}

-----------------------------------------------------------------------------
Id(x) == <<"id", x>>
Call(f, args) == <<"call", f, args>>
One   == <<"int", 1>>
None  == Call("None", <<>>)
Atoms == {Id(x) : x \in DOMAIN Locals \ {"y"}} \cup {One, <<"neg", One>>, <<"float">>, <<"str">>, <<"bool">>, <<"chan">>, None, Id("keep")}

\* A name of each type, to stand beside the expression that grows.
Sample(t) == CASE t = I64 -> One
               [] \E x \in DOMAIN Locals : Locals[x] = t -> Id(CHOOSE x \in DOMAIN Locals : Locals[x] = t)
               [] OTHER -> One

Wrapped(e) ==
  {<<o, e>> : o \in {"neg", "not", "box", "froze", "deref", "join", "recv", "stop", "accept", "listen"}}
  \cup {Call(g, <<e>>) : g \in {"Some", "Ok", "Err", "RoleView", "keep", "pair", "secret", "h", "print"}}
  \cup {Call("Pair", <<e, Id("x")>>), Call("Pair", <<One, e>>)}
  \cup {<<"spawn", "keep", <<e>>>>, <<"sandbox", "quiet", <<e>>>>, <<"acquire", "secret", e>>, <<"connect", e, One>>,
        <<"open", e, Id("s")>>, <<"send", Id("c"), e>>, <<"send", Id("t"), e>>}
  \cup (IF e[1] = "id" THEN {<<"ref", e[2]>>} ELSE {})

Operated(e) ==
  LET others == {Id(y) : y \in {"x", "v", "w", "m", "q", "z", "f", "k"}} \cup {One}
  IN  UNION {{<<"bin", o, e, a>>, <<"bin", o, a, e>>} : o \in {"+", "*", ".*", "/", "%"}, a \in others}
      \cup {<<"bin", o, e, a>> : o \in {"==", "<", "&&"}, a \in others \cup {Id("b")}}

ShapeCalls(e) ==
  {Call(g, <<e>>) : g \in ShapedBuiltins \cup {"sha256_hex"}}
  \cup {Call("dot", <<e, Id("w")>>), Call("cross", <<Id("w"), e>>), Call("distance", <<e, Id("w")>>),
        Call("solve", <<e, Id("z")>>), Call("zeros", <<e, <<"int", 2>>>>),
        Call("kf_predict_state", <<e, Id("q"), Id("q"), Id("q")>>), Call("kf_predict_cov", <<e, Id("q"), Id("q"), Id("q")>>),
        Call("kf_update_state", <<e, Id("q"), Id("z"), Id("q"), Id("q")>>),
        Call("kf_update_cov", <<e, Id("q"), Id("z"), Id("q"), Id("q")>>)}

SigCalls(e) ==
  LET takes(g) == FixedSigs[g].params # <<>> /\ Check(e, FixedSigs[g].params[1], G(Writing), Locals)
  IN  {Call(g, <<e>> \o [i \in 1..(Len(FixedSigs[g].params) - 1) |-> Sample(FixedSigs[g].params[i + 1])])
         : g \in {h \in DOMAIN FixedSigs : takes(h)}}
      \cup {Call("rand_f64", <<>>), Call("db_query", <<Id("db"), e>>), Call("db_execute", <<Id("db"), Id("s"), e>>),
            Call("__workflow_start", <<e, Id("oi"), Id("p")>>), Call("__workflow_advance", <<e, Id("id"), One, Id("to"), Id("j")>>),
            Call("__workflow_link_advance", <<e, One, Id("to"), Id("p"), Id("j")>>)}

Branched(e) ==
  LET alts == {Id("x"), None, Id("o"), Call("Ok", <<One>>), Call("Err", <<Id("s")>>), Id("rs"), Id("p"), Call("Pair", <<One, One>>)}
      els(a) == <<"else", a>>
      arms(p1, b1, e1, p2, b2, e2) == << <<<<"variant", p1>>, b1, e1>>, <<<<"variant", p2>>, b2, e2>> >>
  IN  {<<"if", Id("b"), e, els(a)>> : a \in alts} \cup {<<"if", Id("b"), a, els(e)>> : a \in alts}
      \cup {<<"if", e, Id("x"), els(One)>>, <<"if", Id("b"), e, <<"none">>>>}
      \cup {<<"if", Id("b"), a, <<"if", Id("b"), e, els(a)>>>> : a \in {Id("o"), Id("p")}}
      \cup {<<"match", e, arms("Some", <<"y">>, r, "None", <<>>, a)>> : r \in {Id("y"), Call("Some", <<Id("y")>>)}, a \in alts}
      \cup {<<"match", Id("o"), arms("Some", <<"y">>, Id("y"), "None", <<>>, e)>>}
      \cup {<<"match", e, arms("Ok", <<"y">>, r, "Err", <<"g">>, c)>>
              : r \in {Id("y"), Call("Ok", <<Id("y")>>), Call("Ok", <<Id("b")>>), <<"field", Id("y"), "subject">>},
                c \in alts \cup {Id("g"), Call("Err", <<Id("g")>>)}}
      \cup {<<"match", Id("rs"), arms("Err", <<"g">>, Call("Err", <<Id("g")>>), "Ok", <<"y">>, e)>>}
      \cup {<<"match", e, << <<<<"lit", Str, "a">>, <<>>, Id("o")>>, <<<<"wild">>, <<>>, a>> >>>> : a \in alts}
      \cup {<<"match", Id("n"), << <<<<"lit", I64, 1>>, <<>>, e>>, <<<<"wild">>, <<>>, a>> >>>> : a \in alts}

Placed(e) ==
  {<<"assign", y, e>> : y \in {"x", "o", "rs", "p", "v"}}
  \cup {<<"array", <<e>>>>, <<"array", <<e, Id("x")>>>>, <<"array", <<Id("v"), e>>>>}
  \cup {<<"index", e, <<One>>>>, <<"index", e, <<One, Id("n")>>>>, <<"index", Id("v"), <<e>>>>}
  \cup {<<"field", e, y>> : y \in {"first", "subject", "role", "status"}}
  \cup {<<"transact", [network |-> <<"pay", <<Id("txn_id"), e>>, r>>, verify |-> <<"ok", <<Id("txn_id")>>, FALSE>>,
                       commit |-> <<"pay", <<Id("txn_id"), Id("network")>>, FALSE>>]>> : r \in BOOLEAN}

\* After the first level only the forms that make or carry aggregates grow on.
MCBigger(e) ==
  LET carries == Wrapped(e) \cup Branched(e) \cup Placed(e)
  IN  CASE e = Nothing -> Atoms
        [] e \in Atoms -> carries \cup Operated(e) \cup ShapeCalls(e) \cup SigCalls(e)
        [] OTHER -> carries \cup Operated(e)
=============================================================================
