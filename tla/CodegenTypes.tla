---------------------------- MODULE CodegenTypes -----------------------------
(***************************************************************************)
(* What compiler/src/codegen.rs refuses, and the second type inference it  *)
(* runs while it emits code: the types are not handed over by typeck.rs,   *)
(* codegen asks local_ty_of for them again and trusts the answer when it   *)
(* reserves memory and copies aggregates.                                  *)
(*                                                                         *)
(* Expressions, g and sc are those of TypeInference.                       *)
(***************************************************************************)
EXTENDS TypeInference

\* PHASE4_BUILTINS, PHASE5_BUILTINS.
ArrayBuiltins == (ShapedBuiltins \ {"rand_seed"}) \cup DOMAIN GeoSigs

\* STR_CRYPTO_BUILTINS to NOTIFY_BUILTINS: what is not there is refused.
RefusedBuiltins == {"dec_from_str", "mq_connect_via", "__workflow_link_advance"}

-----------------------------------------------------------------------------
\* The subexpressions of e, those of its arms and slots included.
Children(e) ==
  CASE e[1] \in {"int", "float", "str", "bool", "id", "ref", "chan"} -> {}
    [] e[1] \in {"call", "spawn", "sandbox"} -> Range(e[3])
    [] e[1] \in {"acquire", "assign"} -> {e[3]}
    [] e[1] = "bin" -> {e[3], e[4]}
    [] e[1] = "if" -> {e[2], e[3]} \cup (CASE e[4][1] = "none" -> {} [] e[4][1] = "else" -> {e[4][2]} [] OTHER -> {e[4]})
    [] e[1] = "match" -> {e[2]} \cup {e[3][i][3] : i \in DOMAIN e[3]}
    [] e[1] = "transact" -> UNION {Range(e[2][k][2]) : k \in DOMAIN e[2]}
    [] e[1] = "array" -> Range(e[2])
    [] e[1] = "index" -> {e[2]} \cup Range(e[3])
    [] e[1] \in {"send", "connect", "open"} -> {e[2], e[3]}
    [] OTHER -> {e[2]}

RECURSIVE CheckExpr(_)

\* check_expr.
CheckExpr(e) ==
  /\ e[1] # "sandbox"
  /\ e[1] = "call" => e[2] \notin RefusedBuiltins
  /\ e[1] = "transact" => ~e[2]["network"][3]
  /\ \A c \in Children(e) : CheckExpr(c)

\* check_supported_with_plugins on the declarations of the program.
CheckDeclarations(user) ==
  LET r == Registry(user)
  IN  \A n \in DOMAIN user : \A i \in DOMAIN DeclaredGroups(r, n) :
        \A t \in Range(DeclaredGroups(r, n)[i]) : ~CyclicLayout(r, t, {n})

\* ... and check_stmt on the statement `let y: want = e`.
CheckLet(g, e, want) == Lowers(g.reg, want) /\ CheckExpr(e)

-----------------------------------------------------------------------------
RECURSIVE LocalTyOf(_, _, _), CtorTy(_, _, _, _), BuiltinResultTy(_, _, _, _), MulResultTy(_, _, _, _),
          MatchResultTy(_, _, _, _), IfResultTy(_, _, _), ArmBodyTy(_, _, _, _)

\* local_ty_of's own table of builtin results.
LocalTexts ==
  [sha256_hex |-> Str, constant_time_str_eq |-> Bool, str_slice |-> Str, str_index_of |-> I64, rand_f64 |-> F64,
   rand_gaussian |-> F64, rand_seed |-> Unit, sleep_ms |-> Unit, dec_from_i64 |-> Dec, dec_round |-> Dec,
   dec_to_str |-> Str, dec_scale |-> <<"u32">>]
LocalIdentities ==
  LET ok(n) == ResultOf(Plain(n))
  IN  [check_role |-> ok("RoleView"), oidc_validate_token |-> ok("VerifiedIdentity"), mock_issue_token |-> ResultOf(Str),
       extract_claim |-> ok("ClaimView"), identity_expired |-> Bool, check_role_path |-> ok("RoleView"),
       extract_claim_path |-> ok("ClaimView"), check_revocation |-> Bool,
       create_application_session |-> Plain("ApplicationSession"), session_cookie |-> Str,
       verify_session |-> ok("VerifiedIdentity"), new_refresh_token |-> Plain("RefreshTokenHandle"),
       exchange_refresh_token |-> ok("VerifiedIdentity"), validate_api_key |-> ok("VerifiedIdentity")]
LocalStores ==
  [db_connect |-> ResultOf(Db), env |-> ResultOf(Str), db_execute |-> ResultOf(I64), db_query |-> ResultOf(Json),
   json_parse |-> ResultOf(Json), json_get |-> ResultOf(Json), json_array_get |-> ResultOf(Json),
   json_get_str |-> ResultOf(Str), json_get_i64 |-> ResultOf(I64), json_array_len |-> ResultOf(I64),
   json_get_f64 |-> ResultOf(F64), json_get_bool |-> ResultOf(Bool), json_set_str |-> ResultOf(Json),
   mq_connect |-> ResultOf(Mq), mq_publish |-> ResultOf(Unit), mq_consume |-> ResultOf(Str)]
LocalCalls ==
  LET answer == ResultOf(Plain("HttpResponse"))
      rows   == WorkflowResultOf(Json)
      sent   == WorkflowResultOf(Bool)
  IN  [http_get |-> answer, http_post |-> answer, https_get |-> answer, https_post |-> answer, call_via |-> answer,
       __workflow_start |-> WorkflowResultOf(I64), __workflow_advance |-> WorkflowResultOf(Bool),
       __workflow_overdue |-> rows, __workflow_pending_for_me |-> rows, __workflow_submitted_by_me |-> rows,
       __workflow_history |-> rows, send_email |-> sent, send_sms |-> sent, send_push |-> sent, notify |-> sent]
LocalBuiltins == LocalTexts @@ LocalIdentities @@ LocalStores @@ LocalCalls

\* builtin_result_ty: the shape is read off the first argument, unchecked.
BuiltinResultTy(f, args, g, sc) ==
  LET t == LocalTyOf(args[1], g, sc)
      d(i) == IF IsLiteral(args[i]) THEN LiteralValue(args[i]) ELSE 0
      elem == IF IsArray(t) THEN t[2] ELSE F64
  IN  CASE f = "transpose" -> IF IsMatrix(t) THEN Matrix(t[2], t[4], t[3]) ELSE F64
        [] f = "dot" -> IF Is(t, "vector") THEN t[2] ELSE F64
        [] f \in {"cross", "inv", "kf_update_state"} -> t
        [] f \in {"zeros", "ones"} -> IF Len(args) = 1 THEN Vector(F64, d(1)) ELSE Matrix(F64, d(1), d(2))
        [] f = "identity" -> Matrix(F64, d(1), d(1))
        [] f = "sum" -> elem
        [] f = "trace" -> IF IsMatrix(t) THEN t[2] ELSE F64
        [] f \in {"len", "rank"} -> I64
        [] f \in {"is_symmetric", "is_diag", "is_square"} -> Bool
        [] f \in {"lla_to_ecef", "ecef_to_lla", "ecef_to_enu", "enu_to_ecef"} -> Vector(F64, 3)
        [] f = "kf_predict_state" -> IF Is(t, "vector") THEN t ELSE F64
        [] f \in {"kf_predict_cov", "kf_update_cov"} -> IF Is(t, "vector") THEN Matrix(t[2], t[3], t[3]) ELSE F64
        [] f = "solve" -> LocalTyOf(args[2], g, sc)
        [] OTHER -> F64

\* mul_result_ty.
MulResultTy(l, r, g, sc) ==
  LET lt == LocalTyOf(l, g, sc)
      rt == LocalTyOf(r, g, sc)
  IN  CASE IsMatrix(rt) /\ ~IsAggregate(lt) -> rt
        [] IsMatrix(lt) /\ ~IsAggregate(rt) -> lt
        [] IsMatrix(lt) /\ Is(rt, "vector") -> Vector(lt[2], lt[3])
        [] IsMatrix(lt) /\ IsMatrix(rt) -> Matrix(lt[2], lt[3], rt[4])
        [] OTHER -> lt

IsCtor(g, e) == e[1] = "call" /\ (IsStruct(g.reg, e[2]) \/ IsVariant(g.reg, e[2]))
Placeholder(f) == Named(f, <<>>)

\* ctor_ty, infer_type_args: Error where a parameter stays unbound.
CtorTy(f, args, g, sc) ==
  LET name     == IF IsStruct(g.reg, f) THEN f ELSE Owner(g.reg, f)
      declared == DeclaredGroups(g.reg, name)[IF name = f THEN 1 ELSE VariantOf(g.reg, name, f)]
      n        == Min({Len(declared), Len(args)})
      params   == g.reg[name].params
      subst    == BindAll(SubSeq(declared, 1, n), [i \in 1..n |-> LocalTyOf(args[i], g, sc)], 1, params, <<>>)
  IN  IF Range(params) \subseteq DOMAIN subst THEN Named(name, [i \in DOMAIN params |-> subst[params[i]]]) ELSE Error

\* Mutant: the body is typed in the scope around the match.
ArmOutsideTy(st, arm, g, sc) == LocalTyOf(arm[3], g, sc)

\* arm_body_ty: the arm's own bindings are in scope.
ArmBodyTy(st, arm, g, sc) ==
  LET binds == Is(st, "named") /\ IsEnum(g.reg, st[2]) /\ arm[1][1] = "variant" /\ st[2] \in Owners(g.reg, arm[1][2])
  IN  LocalTyOf(arm[3], g, IF binds THEN Bound(g, st, arm, sc) ELSE sc)

\* is_unresolved_ok_err_placeholder.
IsUnresolved(t) == t \in {Placeholder("Ok"), Placeholder("Err")}

\* Ok(e) or Err(e), of one argument.
Wraps(e, v) == e[1] = "call" /\ e[2] = v /\ Len(e[3]) = 1

\* match_result_ty: the first arm that resolves and does not merely wrap its
\* binding again; else Ok's part and Err's part from the arms that have them.
MatchResultTy(st, arms, g, sc) ==
  LET known == Is(st, "named") /\ st[2] = "Result" /\ Len(st[3]) = 2
      passes(i) == LET a == arms[i]
                   IN  /\ known /\ \E v \in {"Ok", "Err"} : Wraps(a[3], v)
                       /\ a[2] # <<>> /\ a[3][3][1] = <<"id", a[2][1]>>
      resolved == {i \in DOMAIN arms : ~passes(i) /\ ~IsUnresolved(ArmBodyTy(st, arms[i], g, sc))}
      parts(v) == {i \in DOMAIN arms : Wraps(arms[i][3], v)}
      part(v)  == LET i == Min(parts(v))
                  IN  IF passes(i) THEN st[3][IF v = "Ok" THEN 1 ELSE 2] ELSE LocalTyOf(arms[i][3][3][1], g, sc)
  IN  CASE resolved # {} -> ArmBodyTy(st, arms[Min(resolved)], g, sc)
        [] parts("Ok") # {} /\ parts("Err") # {} -> Named("Result", <<part("Ok"), part("Err")>>)
        [] OTHER -> ArmBodyTy(st, arms[1], g, sc)

\* block_trailing_ty, if_result_ty: the then branch, unless only the else resolves.
IfResultTy(e, g, sc) ==
  LET tt == LocalTyOf(e[3], g, sc)
      et == LocalTyOf(e[4][2], g, sc)
      payload(v) == IF Wraps(e[3], v) THEN LocalTyOf(e[3][3][1], g, sc) ELSE LocalTyOf(e[4][2][3][1], g, sc)
      has(v)     == Wraps(e[3], v) \/ Wraps(e[4][2], v)
  IN  CASE ~IsUnresolved(tt) \/ e[4][1] # "else" -> tt
        [] ~IsUnresolved(et) -> et
        [] has("Ok") /\ has("Err") -> Named("Result", <<payload("Ok"), payload("Err")>>)
        [] OTHER -> tt

\* local_ty_of.
LocalTyOf(e, g, sc) ==
  LET t == LocalTyOf(e[2], g, sc)
      fnOf(n) == IF n \in DOMAIN g.sigs THEN <<"fn", g.sigs[n].params, g.sigs[n].ret>> ELSE I64
      retOf(n) == IF n \in DOMAIN g.sigs THEN g.sigs[n].ret ELSE I64
  IN  CASE e[1] = "float" -> F64
        [] e[1] = "str" -> Str
        [] e[1] \in {"bool", "not"} -> Bool
        [] e[1] = "id" -> IF e[2] \in DOMAIN sc THEN sc[e[2]] ELSE fnOf(e[2])
        [] e[1] = "neg" -> t
        [] e[1] = "bin" -> CASE e[2] \in {"==", "!=", "<", "<=", "&&", "||"} -> Bool
                             [] e[2] = "*" -> MulResultTy(e[3], e[4], g, sc)
                             [] OTHER -> LocalTyOf(e[3], g, sc)
        [] e[1] = "assign" -> sc[e[2]]
        [] e[1] = "call" ->
             CASE e[2] \in ArrayBuiltins -> BuiltinResultTy(e[2], e[3], g, sc)
               [] e[2] \in DOMAIN LocalBuiltins -> LocalBuiltins[e[2]]
               [] IsCtor(g, e) -> LET u == CtorTy(e[2], e[3], g, sc) IN IF u = Error THEN Placeholder(e[2]) ELSE u
               [] e[2] \in DOMAIN sc /\ Is(sc[e[2]], "fn") -> sc[e[2]][3]
               [] OTHER -> retOf(e[2])
        [] e[1] = "field" -> IF HasField(g.reg, t, e[3]) THEN FieldOf(g.reg, t, e[3]) ELSE I64
        [] e[1] = "array" -> LET t0 == LocalTyOf(e[2][1], g, sc)
                             IN  IF Is(t0, "vector") /\ ~IsArray(t0[2]) THEN Matrix(t0[2], Len(e[2]), t0[3])
                                 ELSE Vector(t0, Len(e[2]))
        [] e[1] = "index" -> IF IsArray(t) THEN t[2] ELSE I64
        [] e[1] \in {"connect", "accept"} -> <<"tcp">>
        [] e[1] = "listen" -> <<"listener">>
        [] e[1] = "recv" -> CASE Is(t, "tcp") -> Str [] Is(t, "chan") -> t[2] [] OTHER -> I64
        [] e[1] = "spawn" -> <<"thread", retOf(e[2])>>
        [] e[1] = "acquire" -> ResultOf(fnOf(e[2]))
        [] e[1] = "join" -> IF Is(t, "thread") THEN t[2] ELSE I64
        [] e[1] \in {"box", "froze"} -> <<e[1], t>>
        [] e[1] = "ref" -> <<"ref", LocalTyOf(<<"id", e[2]>>, g, sc)>>
        [] e[1] = "deref" -> IF t[1] \in {"box", "ref", "froze"} THEN t[2] ELSE I64
        [] e[1] = "if" -> IfResultTy(e, g, sc)
        [] e[1] = "match" -> MatchResultTy(t, e[3], g, sc)
        [] OTHER -> I64

-----------------------------------------------------------------------------
RECURSIVE Threaded(_, _, _, _), Alone(_, _, _, _)

\* expr_ptr: the forms of aggregate expressions it emits.
PtrForms == {"id", "array", "call", "field", "assign", "bin", "deref", "if", "match", "acquire"}

\* A value that codegen builds from e alone, for a place of type t.
Site(e, t, sc) == [e |-> e, t |-> t, sc |-> sc]

\* store_value_into: only a constructor is told the type of its field.
Stored(args, fields, g, sc) ==
  UNION {IF IsAggregate(fields[i]) /\ IsCtor(g, args[i]) THEN Threaded(args[i], fields[i], g, sc)
         ELSE Alone(args[i], fields[i], g, sc) : i \in DOMAIN args}
CtorFields(f, t, g) == Groups(g.reg, t)[IF IsStruct(g.reg, f) THEN 1 ELSE VariantOf(g.reg, t[2], f)]

\* The branches of an if or the arms of a match, into a slot of type t:
\* block_value_to_slot, match_enum, match_literal; an else-if is told nothing.
Branches(e, t, g, sc) ==
  LET into(b, s) == IF IsAggregate(t) THEN Threaded(b, t, g, s) ELSE Alone(b, t, g, s)
      st         == LocalTyOf(e[2], g, sc)
  IN  IF e[1] = "match" THEN UNION {into(e[3][i][3], Bound(g, st, e[3][i], sc)) : i \in DOMAIN e[3]}
      ELSE into(e[3], sc) \cup (CASE e[4][1] = "none" -> {}
                                  [] e[4][1] = "else" -> into(e[4][2], sc)
                                  [] OTHER -> Alone(e[4], t, g, sc))

\* expr_ptr_expected: e is built for a place whose type t is known.
Threaded(e, t, g, sc) ==
  CASE IsCtor(g, e) -> Stored(e[3], CtorFields(e[2], t, g), g, sc)
    [] e[1] \in {"if", "match"} -> Branches(e, t, g, sc)
    [] OTHER -> Alone(e, t, g, sc)

\* expr_ptr and expr: only local_ty_of knows.
Alone(e, t, g, sc) ==
  {Site(e, t, sc)} \cup
  CASE e[1] = "assign" -> Alone(e[3], sc[e[2]], g, sc)
    [] e[1] = "call" /\ e[2] \in DOMAIN g.sigs -> UNION {Threaded(e[3][i], g.sigs[e[2]].params[i], g, sc) : i \in DOMAIN e[3]}
    [] OTHER -> {}

\* Stmt::Let.
LetSites(e, want, g, sc) == IF IsAggregate(want) THEN Threaded(e, want, g, sc) ELSE Alone(e, want, g, sc)

\* A site codegen reports an error for instead of emitting code.
Refuses(s, g) ==
  /\ IsAggregate(s.t)
  /\ s.e[1] \notin PtrForms \/ (IsCtor(g, s.e) /\ CtorTy(s.e[2], s.e[3], g, s.sc) = Error)
=============================================================================
