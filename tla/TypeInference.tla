---------------------------- MODULE TypeInference ----------------------------
(***************************************************************************)
(* The types compiler/src/typeck.rs gives to expressions: infer without    *)
(* and check with an expected type, and the calls of every builtin.        *)
(*                                                                         *)
(* An expression is a tuple whose first component names its form: <<"int", *)
(* n>>, <<"id", x>>, <<"bin", op, l, r>>, <<"call", f, args>>, <<"if", c,  *)
(* then, els>> with els <<"none">>, <<"else", e>> or another if, <<"match",*)
(* e, arms>>, an arm being <<pattern, bound names, body>>. A block is its  *)
(* last expression: the statements before it are in Typeck. g holds the    *)
(* registry reg and the signatures sigs of the functions, sc the types of  *)
(* the names in scope.                                                     *)
(*                                                                         *)
(* Every error the checker reports makes the whole expression Error.       *)
(***************************************************************************)
EXTENDS Types

NoWant == <<"infer">>

\* literal_value: n or -n.
IsLiteral(e)    == e[1] = "int" \/ (e[1] = "neg" /\ e[2][1] = "int")
LiteralValue(e) == IF e[1] = "int" THEN e[2] ELSE -e[2][2]

IsElementwise(t) == IF IsArray(t) THEN IsNumeric(t[2]) ELSE IsNumeric(t)
IsSandboxSafe(t) == LET u == IF Is(t, "chan") THEN t[2] ELSE t IN IsInteger(u) \/ u = Bool

Arrow(ps, t) == [params |-> ps, ret |-> t]
Identity     == Named("VerifiedIdentity", <<>>)
Plain(n)     == Named(n, <<>>)

\* The builtins of fixed parameters and result, json first.
JsonSigs ==
  [json_parse |-> Arrow(<<Str>>, ResultOf(Json)), json_get |-> Arrow(<<Json, Str>>, ResultOf(Json)),
   json_array_get |-> Arrow(<<Json, I64>>, ResultOf(Json)), json_get_str |-> Arrow(<<Json, Str>>, ResultOf(Str)),
   json_get_i64 |-> Arrow(<<Json, Str>>, ResultOf(I64)), json_get_f64 |-> Arrow(<<Json, Str>>, ResultOf(F64)),
   json_get_bool |-> Arrow(<<Json, Str>>, ResultOf(Bool)), json_set_str |-> Arrow(<<Json, Str, Str>>, ResultOf(Json)),
   json_array_len |-> Arrow(<<Json>>, ResultOf(I64))]

HttpSigs ==
  LET answer == ResultOf(Plain("HttpResponse"))
  IN  [http_get  |-> Arrow(<<Str, I64, Str>>, answer), http_post  |-> Arrow(<<Str, I64, Str, Str>>, answer),
       https_get |-> Arrow(<<Str, I64, Str>>, answer), https_post |-> Arrow(<<Str, I64, Str, Str>>, answer),
       call_via  |-> Arrow(<<Str, Str, Str>>, answer)]

IdentitySigs ==
  [oidc_validate_token |-> Arrow(<<Str, Str, Str, Str>>, ResultOf(Identity)),
   check_role |-> Arrow(<<Identity, Str>>, ResultOf(Plain("RoleView"))),
   extract_claim |-> Arrow(<<Identity, Str>>, ResultOf(Plain("ClaimView"))),
   check_role_path |-> Arrow(<<Identity, Str, Str>>, ResultOf(Plain("RoleView"))),
   extract_claim_path |-> Arrow(<<Identity, Str>>, ResultOf(Plain("ClaimView"))),
   identity_expired |-> Arrow(<<Identity, I64>>, Bool), check_revocation |-> Arrow(<<Identity>>, Bool),
   create_application_session |-> Arrow(<<Identity>>, Plain("ApplicationSession")),
   session_cookie |-> Arrow(<<Plain("ApplicationSession")>>, Str), verify_session |-> Arrow(<<Str>>, ResultOf(Identity)),
   new_refresh_token |-> Arrow(<<I64>>, Plain("RefreshTokenHandle")),
   exchange_refresh_token |-> Arrow(<<Identity, Plain("RefreshTokenHandle"), I64>>, ResultOf(Identity)),
   validate_api_key |-> Arrow(<<Str, Str>>, ResultOf(Identity)),
   mock_issue_token |-> Arrow(<<Str, Str, Str, I64, I64, Str, Str>>, ResultOf(Str))]

TextSigs ==
  [constant_time_str_eq |-> Arrow(<<Str, Str>>, Bool), str_slice |-> Arrow(<<Str, I64, I64>>, Str),
   str_index_of |-> Arrow(<<Str, Str>>, I64), sleep_ms |-> Arrow(<<I64>>, Unit), rand_f64 |-> Arrow(<<>>, F64),
   rand_gaussian |-> Arrow(<<F64, F64>>, F64), env |-> Arrow(<<Str>>, ResultOf(Str))]

StoreSigs ==
  [db_connect |-> Arrow(<<Str>>, ResultOf(Db)), dec_from_str |-> Arrow(<<Str>>, ResultOf(Dec)),
   dec_from_i64 |-> Arrow(<<I64, <<"u32">>>>, Dec), dec_to_str |-> Arrow(<<Dec>>, Str),
   dec_round |-> Arrow(<<Dec, <<"u32">>>>, Dec), dec_scale |-> Arrow(<<Dec>>, <<"u32">>),
   mq_connect |-> Arrow(<<Str, I64>>, ResultOf(Mq)), mq_connect_via |-> Arrow(<<Str>>, ResultOf(Mq)),
   mq_publish |-> Arrow(<<Mq, Str, Str>>, ResultOf(Unit)), mq_consume |-> Arrow(<<Mq, Str, I64>>, ResultOf(Str))]

NoticeSigs ==
  LET message == <<Db, Plain("Recipient"), Str, Json>>
  IN  [send_email |-> Arrow(message, WorkflowResultOf(Bool)), send_sms |-> Arrow(message, WorkflowResultOf(Bool)),
       send_push |-> Arrow(message, WorkflowResultOf(Bool)),
       notify |-> Arrow(<<Db, Mq, Plain("Recipient"), Str, Json>>, WorkflowResultOf(Bool)),
       __workflow_pending_for_me  |-> Arrow(<<Str, Identity>>, WorkflowResultOf(Json)),
       __workflow_submitted_by_me |-> Arrow(<<Str, Identity>>, WorkflowResultOf(Json)),
       __workflow_history |-> Arrow(<<Str, I64>>, WorkflowResultOf(Json)),
       __workflow_overdue |-> Arrow(<<Str>>, WorkflowResultOf(Json))]

GeoSigs ==
  LET place == Vector(F64, 3)
  IN  [bearing |-> Arrow(<<place, place>>, F64), lla_to_ecef |-> Arrow(<<place>>, place),
       ecef_to_lla |-> Arrow(<<place>>, place), ecef_to_enu |-> Arrow(<<place, place>>, place),
       enu_to_ecef |-> Arrow(<<place, place>>, place)]

FixedSigs == JsonSigs @@ HttpSigs @@ IdentitySigs @@ TextSigs @@ StoreSigs @@ NoticeSigs @@ GeoSigs

\* The builtins that look at the shape of their arguments.
ShapedBuiltins ==
  {"transpose", "dot", "cross", "zeros", "ones", "identity", "sum", "len", "norm", "norm1", "norm_inf",
   "frobenius_norm", "trace", "det", "inv", "solve", "rank", "is_symmetric", "is_diag", "is_square", "rand_seed",
   "distance", "kf_predict_state", "kf_predict_cov", "kf_update_state", "kf_update_cov"}
OpenBuiltins == {"print", "sha256_hex", "db_query", "db_execute", "__workflow_start", "__workflow_advance",
                 "__workflow_link_advance"}
IsBuiltin(n) == n \in DOMAIN FixedSigs \cup ShapedBuiltins \cup OpenBuiltins

-----------------------------------------------------------------------------
Otherwise(ok, t) == IF ok THEN t ELSE Error

IsMatrix(t)     == Is(t, "matrix")
FloatMatrix(t)  == Is(t, "matrix") /\ t[2] = F64
FloatSquare(t)  == FloatMatrix(t) /\ t[3] = t[4]
FloatVector(t)  == Is(t, "vector") /\ t[2] = F64

\* The matrix builtins of one argument, of type t.
InferUnaryShape(f, t) ==
  CASE f = "transpose" -> IF IsMatrix(t) THEN Matrix(t[2], t[4], t[3]) ELSE Error
    [] f = "sum"       -> IF IsArray(t) /\ IsNumeric(t[2]) THEN t[2] ELSE Error
    [] f = "len"       -> Otherwise(Is(t, "vector") \/ t = Str, I64)
    [] f \in {"norm", "norm1", "norm_inf"} -> Otherwise(FloatVector(t), F64)
    [] f = "frobenius_norm" -> Otherwise(FloatMatrix(t), F64)
    [] f = "trace"     -> IF IsMatrix(t) /\ IsNumeric(t[2]) /\ t[3] = t[4] THEN t[2] ELSE Error
    [] f = "det"       -> Otherwise(FloatSquare(t), F64)
    [] f = "inv"       -> Otherwise(FloatSquare(t), t)
    [] f = "rank"      -> Otherwise(FloatMatrix(t), I64)
    [] f \in {"is_symmetric", "is_diag"} -> Otherwise(FloatSquare(t), Bool)
    [] f = "is_square" -> Otherwise(IsMatrix(t), Bool)
    [] f = "rand_seed" -> Otherwise(IsInteger(t), Unit)
    [] OTHER           -> Error

\* Those of two and the Kalman filter's, of types ts.
InferShape(f, ts) ==
  LET both == Is(ts[1], "vector") /\ Is(ts[2], "vector") /\ ts[1][2] = ts[2][2] /\ IsNumeric(ts[1][2])
      n    == ts[1][3]
      predicts == FloatVector(ts[1]) /\ \A i \in 2..4 : FloatSquare(ts[i]) /\ ts[i][3] = n
      updates  == /\ FloatVector(ts[1]) /\ FloatSquare(ts[2]) /\ FloatVector(ts[3]) /\ FloatMatrix(ts[4])
                  /\ FloatSquare(ts[5]) /\ ts[2][3] = n
                  /\ ts[4][3] = ts[3][3] /\ ts[4][4] = n /\ ts[5][3] = ts[3][3]
  IN  CASE Len(ts) = 1 -> InferUnaryShape(f, ts[1])
        [] f = "dot"      /\ Len(ts) = 2 -> IF both /\ n = ts[2][3] THEN ts[1][2] ELSE Error
        [] f = "cross"    /\ Len(ts) = 2 -> IF both /\ n = 3 /\ ts[2][3] = 3 THEN ts[1] ELSE Error
        [] f = "distance" /\ Len(ts) = 2 -> Otherwise(FloatVector(ts[1]) /\ ts[1] = ts[2], F64)
        [] f = "solve"    /\ Len(ts) = 2 -> Otherwise(FloatSquare(ts[1]) /\ FloatVector(ts[2]) /\ n = ts[2][3], ts[2])
        [] f = "kf_predict_state" /\ Len(ts) = 4 -> Otherwise(predicts, ts[1])
        [] f = "kf_predict_cov"   /\ Len(ts) = 4 -> IF predicts THEN Matrix(F64, n, n) ELSE Error
        [] f = "kf_update_state"  /\ Len(ts) = 5 -> Otherwise(updates, ts[1])
        [] f = "kf_update_cov"    /\ Len(ts) = 5 -> IF updates THEN Matrix(F64, n, n) ELSE Error
        [] OTHER -> Error

\* zeros, ones, identity: literal_dimension of each argument.
InferFilled(f, args) ==
  LET d(i) == LiteralValue(args[i])
  IN  IF \E i \in DOMAIN args : ~IsLiteral(args[i]) \/ d(i) < 0 THEN Error
      ELSE CASE f = "identity" /\ Len(args) = 1 -> Matrix(F64, d(1), d(1))
             [] f # "identity" /\ Len(args) = 1 -> Vector(F64, d(1))
             [] f # "identity" /\ Len(args) = 2 -> Matrix(F64, d(1), d(2))
             [] OTHER -> Error

-----------------------------------------------------------------------------
RECURSIVE Infer(_, _, _), Check(_, _, _, _), InferBinary(_, _, _), UnifyOperands(_, _, _, _), InferMul(_, _, _, _),
          InferCall(_, _, _, _, _), InferBuiltinCall(_, _, _, _), InferConstruction(_, _, _, _, _, _, _),
          InferMatch(_, _, _, _), InferLiteralMatch(_, _, _, _, _), InferIf(_, _, _, _), InferTransact(_, _, _),
          InferHandle(_, _, _), InferPointer(_, _, _), InferArray(_, _, _)

Infers(es, g, sc) == [i \in DOMAIN es |-> Infer(es[i], g, sc)]
Known(es, g, sc)  == \A i \in DOMAIN es : Infer(es[i], g, sc) # Error
Checks(es, wants, g, sc) == Len(es) = Len(wants) /\ \A i \in DOMAIN es : Check(es[i], wants[i], g, sc)

\* check: a literal takes any integer type it fits, chan() any channel type.
Check(e, want, g, sc) ==
  CASE IsLiteral(e)     -> IsInteger(want) /\ InRange(want, LiteralValue(e))
    [] e[1] = "if"      -> InferIf(e, want, g, sc) # Error
    [] e[1] = "match"   -> InferMatch(e, want, g, sc) # Error
    [] e[1] = "call"    -> InferCall(e[2], e[3], want, g, sc) = want
    [] e[1] = "chan"    -> Is(want, "chan")
    [] OTHER            -> Infer(e, g, sc) = want

\* infer_call: a local function value, a builtin, a struct, a variant, a function.
InferCall(f, args, want, g, sc) ==
  CASE f \in DOMAIN sc /\ Is(sc[f], "fn") -> IF Checks(args, sc[f][2], g, sc) THEN sc[f][3] ELSE Error
    [] IsBuiltin(f) -> InferBuiltinCall(f, args, g, sc)
    [] IsStruct(g.reg, f) ->
         IF f \in {"RoleView", "ClaimView"} THEN Error
         ELSE InferConstruction(f, DeclaredGroups(g.reg, f)[1], args, want, g, sc, f)
    [] IsVariant(g.reg, f) ->
         LET owner == Owner(g.reg, f)
         IN  InferConstruction(owner, DeclaredGroups(g.reg, owner)[VariantOf(g.reg, owner, f)], args, want, g, sc, f)
    [] OTHER -> IF f \in DOMAIN g.sigs /\ g.sigs[f].requires = "" /\ Checks(args, g.sigs[f].params, g, sc)
                THEN g.sigs[f].ret ELSE Error

\* resolve_type_args: the arguments of the expected type when it is of this
\* name, else what the inferred types of the arguments bind.
TypeArgs(name, declared, args, want, g, sc) ==
  LET params == g.reg[name].params
      n      == Min({Len(declared), Len(args)})
      typed  == SelectSeq([i \in 1..n |-> <<declared[i], Infer(args[i], g, sc)>>], LAMBDA p : p[2] # Error)
      subst  == BindAll([i \in DOMAIN typed |-> typed[i][1]], [i \in DOMAIN typed |-> typed[i][2]], 1, params, <<>>)
  IN  CASE params = <<>> -> <<>>
        [] Is(want, "named") /\ want[2] = name /\ Len(want[3]) = Len(params) -> want[3]
        [] OTHER -> [i \in DOMAIN params |-> IF params[i] \in DOMAIN subst THEN subst[params[i]] ELSE Error]

\* infer_struct_construction, infer_variant_construction.
InferConstruction(name, declared, args, want, g, sc, f) ==
  LET targs  == TypeArgs(name, declared, args, want, g, sc)
      fields == [i \in DOMAIN declared |-> Substitute(declared[i], ZipTypeParams(g.reg[name].params, targs))]
  IN  IF Error \notin Range(targs) /\ Checks(args, fields, g, sc) THEN Named(name, targs) ELSE Error

\* infer_builtin_call.
InferBuiltinCall(f, args, g, sc) ==
  LET starts(wants) == /\ Len(args) >= Len(wants)
                       /\ \A i \in DOMAIN wants : Check(args[i], wants[i], g, sc)
      kind(i, k)    == LET t == Infer(args[i], g, sc)
                       IN  Is(t, "named") /\ g.reg[t[2]].kind = k
  IN  CASE f \in DOMAIN FixedSigs -> Otherwise(Checks(args, FixedSigs[f].params, g, sc), FixedSigs[f].ret)
        [] f = "print" -> Otherwise(Known(args, g, sc), Unit)
        [] f = "sha256_hex" -> Otherwise(Len(args) \in {1, 2} /\ \A i \in DOMAIN args : Check(args[i], Str, g, sc), Str)
        [] f \in {"db_query", "db_execute"} ->
             Otherwise(Len(args) \in 2..10 /\ starts(<<Db, Str>>) /\ Known(SubSeq(args, 3, Len(args)), g, sc),
                       ResultOf(IF f = "db_query" THEN Json ELSE I64))
        [] f = "__workflow_start" ->
             Otherwise(Len(args) = 3 /\ starts(<<Str, Named("Option", <<Identity>>)>>) /\ kind(3, "struct"),
                       WorkflowResultOf(I64))
        [] f = "__workflow_advance" ->
             Otherwise(Len(args) = 5 /\ starts(<<Str, Identity, I64>>) /\ kind(4, "enum") /\ Check(args[5], Json, g, sc),
                       WorkflowResultOf(Bool))
        [] f = "__workflow_link_advance" ->
             Otherwise(Len(args) = 5 /\ starts(<<Str, I64>>) /\ kind(3, "enum") /\ kind(4, "struct")
                         /\ Check(args[5], Json, g, sc), WorkflowResultOf(Bool))
        [] f \in {"zeros", "ones", "identity"} -> InferFilled(f, args)
        [] OTHER -> InferShape(f, Infers(args, g, sc))

\* unify_operands: a literal takes the integer type of the other side.
UnifyOperands(l, r, g, sc) ==
  LET with(e, lit) == LET t == Infer(e, g, sc) IN IF IsInteger(t) /\ InRange(t, LiteralValue(lit)) THEN t ELSE Error
      lt == Infer(l, g, sc)
  IN  CASE IsLiteral(l) /\ IsLiteral(r) -> I64
        [] IsLiteral(l) -> with(r, l)
        [] IsLiteral(r) -> with(l, r)
        [] OTHER -> Otherwise(lt = Infer(r, g, sc), lt)

\* infer_mul: scaling, matrix by vector, matrix by matrix, or two numbers.
InferMul(l, r, g, sc) ==
  LET t  == UnifyOperands(l, r, g, sc)
      lt == Infer(l, g, sc)
      rt == Infer(r, g, sc)
  IN  CASE IsLiteral(l) \/ IsLiteral(r) -> Otherwise(IsNumeric(t), t)
        [] lt = Error \/ rt = Error -> Error
        [] IsMatrix(rt) /\ ~IsArray(lt) -> Otherwise(lt = rt[2], rt)
        [] IsMatrix(lt) /\ ~IsArray(rt) -> Otherwise(rt = lt[2], lt)
        [] IsMatrix(lt) /\ Is(rt, "vector") -> IF lt[2] = rt[2] /\ lt[4] = rt[3] THEN Vector(lt[2], lt[3]) ELSE Error
        [] IsMatrix(lt) /\ IsMatrix(rt) -> IF lt[2] = rt[2] /\ lt[4] = rt[3] THEN Matrix(lt[2], lt[3], rt[4]) ELSE Error
        [] OTHER -> Otherwise(lt = rt /\ IsNumeric(lt), lt)

\* infer_binary, infer_hadamard.
InferBinary(e, g, sc) ==
  LET op == e[2]
      t  == UnifyOperands(e[3], e[4], g, sc)
      lt == Infer(e[3], g, sc)
  IN  CASE op \in {"&&", "||"} -> Otherwise(lt = Bool /\ Infer(e[4], g, sc) = Bool, Bool)
        [] op \in {"==", "!="} -> Otherwise(t # Error, Bool)
        [] op \in {"<", "<="}  -> Otherwise(IsNumeric(t), Bool)
        [] op \in {"+", "-"}   -> Otherwise(IsElementwise(t), t)
        [] op = "/"  -> Otherwise(IsNumeric(t), t)
        [] op = "%"  -> Otherwise(IsNumeric(t) /\ t # Dec, t)
        [] op = "*"  -> InferMul(e[3], e[4], g, sc)
        [] op = ".*" -> Otherwise(lt = Infer(e[4], g, sc) /\ IsElementwise(lt), lt)

-----------------------------------------------------------------------------
\* One type for all arms or branches: the expected one, or the one they share.
Joined(bodies, scs, want, g) ==
  LET ts == {Infer(bodies[i], g, scs[i]) : i \in DOMAIN bodies}
  IN  IF want = NoWant THEN IF Cardinality(ts) = 1 THEN CHOOSE t \in ts : TRUE ELSE Error
      ELSE Otherwise(\A i \in DOMAIN bodies : Check(bodies[i], want, g, scs[i]), want)

\* check_literal_match: distinct literals of the scrutinee's type, then `_`.
InferLiteralMatch(st, arms, want, g, sc) ==
  LET keys == [i \in DOMAIN arms |-> arms[i][1]]
  IN  IF /\ Last(keys) = <<"wild">> /\ IsInjective(keys)
         /\ \A i \in 1..(Len(keys) - 1) : keys[i][1] = "lit" /\ keys[i][2] = st
      THEN Joined([i \in DOMAIN arms |-> arms[i][3]], [i \in DOMAIN arms |-> sc], want, g) ELSE Error

\* The payload of an arm's variant, and the scope of its body.
Payload(g, st, arm) == Groups(g.reg, st)[VariantOf(g.reg, st[2], arm[1][2])]
Bound(g, st, arm, sc) ==
  IF arm[1][1] # "variant" THEN sc
  ELSE [x \in Range(arm[2]) |-> Payload(g, st, arm)[CHOOSE j \in DOMAIN arm[2] : arm[2][j] = x]] @@ sc

\* check_match: every variant of the scrutinee's enum once, its payload bound.
InferMatch(e, want, g, sc) ==
  LET st   == Infer(e[2], g, sc)
      arms == e[3]
      vs   == [i \in DOMAIN arms |-> arms[i][1][2]]
  IN  CASE st \in {Str, I64, Bool} -> InferLiteralMatch(st, arms, want, g, sc)
        [] ~(Is(st, "named") /\ IsEnum(g.reg, st[2])) -> Error
        [] OTHER ->
             IF /\ \A i \in DOMAIN arms : arms[i][1][1] = "variant" /\ st[2] \in Owners(g.reg, vs[i])
                /\ IsInjective(vs)
                /\ Len(vs) = Len(g.reg[st[2]].groups)
                /\ \A i \in DOMAIN arms : Len(arms[i][2]) = Len(Payload(g, st, arms[i]))
             THEN Joined([i \in DOMAIN arms |-> arms[i][3]], [i \in DOMAIN arms |-> Bound(g, st, arms[i], sc)], want, g)
             ELSE Error

\* check_if: without an else it is a statement.
InferIf(e, want, g, sc) ==
  LET els == IF e[4][1] = "else" THEN e[4][2] ELSE e[4]
  IN  CASE Infer(e[2], g, sc) # Bool -> Error
        [] e[4][1] = "none" /\ want = NoWant -> Otherwise(Infer(e[3], g, sc) # Error, Unit)
        [] e[4][1] = "none" -> Otherwise(want = Unit /\ Check(e[3], Unit, g, sc), Unit)
        [] OTHER -> Joined(<<e[3], els>>, <<sc, sc>>, want, g)

\* infer_transact. A slot is <<function, arguments, whether it retries>>; the
\* slots run in order, each seeing the transaction's name and earlier results.
InferTransact(e, g, sc) ==
  LET slots == e[2]
      has(k) == k \in DOMAIN slots
      slot(k, s) == IF IsBuiltin(slots[k][1]) THEN Error ELSE InferCall(slots[k][1], slots[k][2], NoWant, g, s)
      durable(k) == slots[k][1] \in DOMAIN g.sigs =>
                      \A i \in DOMAIN g.sigs[slots[k][1]].params : IsTransactScalar(g.sigs[slots[k][1]].params[i])
      begun == ("txn_id" :> Str) @@ sc
      sent  == ("network" :> slot("network", begun)) @@ begun
      done  == ("verify" :> Bool) @@ sent
  IN  Otherwise(/\ has("precheck") => slot("precheck", begun) = Bool
                /\ slot("network", begun) # Error /\ durable("network")
                /\ slots["network"][1] \in DOMAIN g.sigs => IsTransactScalar(g.sigs[slots["network"][1]].ret)
                /\ <<"id", "txn_id">> \in Range(slots["network"][2])
                /\ slot("verify", sent) = Bool /\ durable("verify")
                /\ Range(slots["verify"][2]) \subseteq {<<"id", "network">>, <<"id", "txn_id">>}
                /\ slot("commit", done) # Error /\ durable("commit")
                /\ has("compensate") => slot("compensate", done) # Error /\ durable("compensate")
                /\ has("log") => slot("log", done) # Error,
                Bool)

\* Channels, threads, sandboxes, sockets and files.
InferHandle(e, g, sc) ==
  LET t(i)   == Infer(e[i], g, sc)
      ret    == InferCall(e[2], e[3], NoWant, g, sc)
      safe   == e[2] \in DOMAIN g.sigs => g.sigs[e[2]].ret = Unit /\ \A i \in DOMAIN g.sigs[e[2]].params :
                                                                       IsSandboxSafe(g.sigs[e[2]].params[i])
  IN  CASE e[1] = "chan"   -> Error
        [] e[1] = "send"   -> Otherwise(\/ Is(t(2), "chan") /\ Check(e[3], t(2)[2], g, sc)
                                        \/ t(2)[1] \in {"tcp", "file"} /\ t(3) \in {Str, Json}, Unit)
        [] e[1] = "recv"   -> IF Is(t(2), "chan") THEN t(2)[2] ELSE Otherwise(t(2)[1] \in {"tcp", "file"}, Str)
        [] e[1] = "spawn"  -> Otherwise(~IsBuiltin(e[2]) /\ ret # Error, <<"thread", ret>>)
        [] e[1] = "sandbox" -> Otherwise(~IsBuiltin(e[2]) /\ safe /\ ret # Error, <<"sandbox">>)
        [] e[1] = "join"   -> IF Is(t(2), "thread") THEN t(2)[2] ELSE Error
        [] e[1] = "stop"   -> IF Is(t(2), "sandbox") THEN I64
                              ELSE Otherwise(t(2)[1] \in {"tcp", "listener", "file", "db", "mq"}, Unit)
        [] e[1] = "connect" -> Otherwise(Check(e[2], Str, g, sc) /\ Check(e[3], I64, g, sc), <<"tcp">>)
        [] e[1] = "listen" -> Otherwise(Check(e[2], I64, g, sc), <<"listener">>)
        [] e[1] = "accept" -> Otherwise(Is(t(2), "listener"), <<"tcp">>)
        [] e[1] = "open"   -> Otherwise(Check(e[2], Str, g, sc) /\ Check(e[3], Str, g, sc), <<"file">>)

\* box, froze, & and *: what is affine cannot be moved out of a reference.
InferPointer(e, g, sc) ==
  LET t == IF e[1] = "ref" THEN Infer(<<"id", e[2]>>, g, sc) ELSE Infer(e[2], g, sc)
  IN  CASE t = Error -> Error
        [] e[1] = "deref" -> IF Is(t, "box") \/ (t[1] \in {"ref", "froze"} /\ ~IsAffine(g.reg, t[2])) THEN t[2] ELSE Error
        [] OTHER -> <<e[1], t>>

\* infer_array_lit, Expr::Index: a vector of vectors is a matrix, and no deeper.
InferArray(e, g, sc) ==
  LET t0 == Infer(e[2][1], g, sc)
      bt == Infer(e[2], g, sc)
  IN  IF e[1] = "array"
      THEN CASE t0 = Error \/ \E i \in 2..Len(e[2]) : ~Check(e[2][i], t0, g, sc) -> Error
             [] Is(t0, "vector") /\ ~IsArray(t0[2]) -> Matrix(t0[2], Len(e[2]), t0[3])
             [] IsArray(t0) -> Error
             [] OTHER -> Vector(t0, Len(e[2]))
      ELSE IF /\ IsArray(bt) /\ Len(e[3]) = (IF Is(bt, "vector") THEN 1 ELSE 2)
              /\ \A i \in DOMAIN e[3] : IsInteger(Infer(e[3][i], g, sc))
           THEN bt[2] ELSE Error

\* The declared type of field f of the named type t, its arguments put in.
FieldOf(r, t, f) ==
  LET fields == r[t[2]].groups[1][2]
      i      == CHOOSE k \in DOMAIN fields : fields[k][1] = f
  IN  Groups(r, t)[1][i]
HasField(r, t, f) ==
  Is(t, "named") /\ IsStruct(r, t[2]) /\ \E i \in DOMAIN r[t[2]].groups[1][2] : r[t[2]].groups[1][2][i][1] = f

\* infer.
Infer(e, g, sc) ==
  LET t == Infer(e[2], g, sc)
  IN  CASE IsLiteral(e) -> I64
        [] e[1] = "float" -> F64
        [] e[1] = "str" -> Str
        [] e[1] = "bool" -> Bool
        [] e[1] = "id" ->
             CASE e[2] \in DOMAIN sc -> sc[e[2]]
               [] e[2] \in DOMAIN g.sigs /\ g.sigs[e[2]].requires = "" -> <<"fn", g.sigs[e[2]].params, g.sigs[e[2]].ret>>
               [] OTHER -> Error
        [] e[1] = "neg" -> Otherwise(IsNumeric(t), t)
        [] e[1] = "not" -> Otherwise(t = Bool, Bool)
        [] e[1] = "bin" -> InferBinary(e, g, sc)
        [] e[1] = "call" -> InferCall(e[2], e[3], NoWant, g, sc)
        [] e[1] = "acquire" ->
             IF /\ ~IsBuiltin(e[2]) /\ ~IsStruct(g.reg, e[2]) /\ ~IsVariant(g.reg, e[2])
                /\ e[2] \in DOMAIN g.sigs /\ g.sigs[e[2]].requires # ""
                /\ Check(e[3], Plain(g.sigs[e[2]].requires), g, sc)
             THEN ResultOf(<<"fn", g.sigs[e[2]].params, g.sigs[e[2]].ret>>) ELSE Error
        [] e[1] = "if" -> InferIf(e, NoWant, g, sc)
        [] e[1] = "match" -> InferMatch(e, NoWant, g, sc)
        [] e[1] = "assign" -> IF e[2] \in DOMAIN sc THEN Otherwise(Check(e[3], sc[e[2]], g, sc), sc[e[2]]) ELSE Error
        [] e[1] = "transact" -> InferTransact(e, g, sc)
        [] e[1] \in {"box", "froze", "deref", "ref"} -> InferPointer(e, g, sc)
        [] e[1] \in {"index", "array"} -> InferArray(e, g, sc)
        [] e[1] = "field" -> IF HasField(g.reg, t, e[3]) THEN FieldOf(g.reg, t, e[3]) ELSE Error
        [] OTHER -> InferHandle(e, g, sc)
=============================================================================
