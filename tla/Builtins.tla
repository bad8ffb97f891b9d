------------------------------ MODULE Builtins ------------------------------
(***************************************************************************)
(* The builtins that keep no state of their own: what a kernel writes, and *)
(* the Result the emitted code builds from it. A kernel answers a status   *)
(* and writes one out-parameter; the emitted code loads the slot it thinks *)
(* was written. Unwritten is a slot nobody stored to.                      *)
(***************************************************************************)
EXTENDS JsonText

CONSTANTS
  Env,                 \* variable name |-> its text: the process environment
  Docs, Keys, Strings, \* what programs pass to builtins
  Answers, NoAnswer    \* what HTTP servers answer: [status, body], or nothing

\* A text that somebody stored.
Written(t) == "j" \in DOMAIN t /\ t.j # "unwritten"

ASSUME TextsWritten ==
  /\ \A k \in DOMAIN Env : Written(Env[k])
  /\ \A s \in Strings : Written(s)
  /\ \A a \in Answers \ {NoAnswer} : Written(a.body)
  /\ \A d \in Docs :
       /\ Written(d)
       /\ \A k \in DOMAIN d.flds : /\ Written(d.flds[k])
                                   /\ IsStr(d.flds[k]) => Written(Content(d.flds[k]))
       /\ \A i \in 0 .. Len(d.items) - 1 : Written(d.items[i + 1])

Struct(kids)  == [n |-> 0, tag |-> 0, kids |-> kids]
ConstStr      == Words("literal")
Status(found) == When(found, Unwritten)    \* a kernel with no out-parameter

\* A struct the kernel wrote field by field, or the message it wrote.
ResultMergeAgg(r) == IF r.found THEN Ok(Struct(r.out)) ELSE Err(Message(r.err))

-----------------------------------------------------------------------------
EnvGet(name) == IF name \in DOMAIN Env THEN Found(Env[name]) ELSE Failed

EmitEnv(name) == StrResult(EnvGet(name))

\* The Ok payload is the argument itself: the kernel only says yes or no.
EmitJsonParse(s) == LET r == Validate(s)
                    IN  IF r.found THEN Ok(StrVal(s)) ELSE Err(Message(r.err))

EmitDbConnect(r) == ScalarResult(r)
EmitDbExecute(r) == ScalarResult(r)
EmitDbQuery(r)   == StrResult(r)
EmitMqConnect(r) == ScalarResult(r)
EmitMqPublish(r) == ScalarResult(r)    \* unit: the number 0
EmitMqConsume(r) == StrResult(r)

EmitJsonGet(doc, key)      == StrResult(Get(doc, key))
EmitJsonArrayGet(doc, idx) == StrResult(ArrayGet(doc, idx))
EmitJsonArrayLen(doc)      == ScalarResult(ArrayLen(doc))
EmitJsonGetStr(doc, key)   == StrResult(GetStr(doc, key))
EmitJsonGetI64(doc, key)   == ScalarResult(GetI64(doc, key))
EmitJsonGetF64(doc, key)   == ScalarResult(GetF64(doc, key))
EmitJsonGetBool(doc, key)  == ScalarResult(GetBool(doc, key))
EmitJsonSetStr(doc, key, s) == StrResult(SetStr(doc, key, s))

-----------------------------------------------------------------------------
(* Identity: six fields out of the token kernel; a message only where the  *)
(* kernel has one, a literal where it has not.                             *)

IdentityFields == <<StrVal(Words("subject")), StrVal(Words("issuer")),
                    StrVal(Words("audience")), Val(1), Val(0),
                    StrVal(JObj(<<>>))>>

EmitOidcValidateToken(valid) == ResultMergeAgg(When(valid, IdentityFields))

EmitMockIssueToken(signs) == StrResult(When(signs, Words("token")))

\* Mutant: the message is loaded from a slot this kernel never writes.
EmitExtractClaimKernelMessage(found, value) ==
  IF found THEN Ok(StrVal(value)) ELSE Err(Message(Status(found).out))

EmitExtractClaim(found, value) ==
  IF found THEN Ok(StrVal(value)) ELSE Err(Message(ConstStr))

\* The role asked for is the Ok payload.
EmitCheckRolePath(found, role) ==
  IF Status(found).found THEN Ok(StrVal(role)) ELSE Err(Message(ConstStr))

EmitExtractClaimPath(found, value) ==
  LET r == When(found, value)
  IN  IF r.found THEN Ok(StrVal(r.out)) ELSE Err(Message(ConstStr))

EmitCheckRevocation(revoked) == Val(IF revoked THEN 1 ELSE 0)

\* Max-Age is the session's own lifetime, never below zero.
SessionCookie(created_at, expires_at) ==
  LET age == expires_at - created_at
  IN  [id |-> Words("session"), max_age |-> IF age > 0 THEN age ELSE 0]

EmitSessionCookie(created_at, expires_at) ==
  StrVal(SessionCookie(created_at, expires_at).id)

-----------------------------------------------------------------------------
(* HTTP: an answer is [status, body], or NoAnswer where the request failed.*)

WriteHttpResult(ans) == IF ans = NoAnswer THEN Failed
                        ELSE Found(<<Val(ans.status), StrVal(ans.body)>>)

\* http_get, http_post, https_get and https_post.
HttpRequest(utf8, ans) == IF utf8 THEN WriteHttpResult(ans) ELSE Failed

EmitHttpCall(utf8, ans) == ResultMergeAgg(HttpRequest(utf8, ans))

\* The port named after the last colon, if it is a number.
SplitHostPort(rest, default_port) ==
  IF rest.port \in Int THEN rest.port ELSE default_port

\* A plugin has no status to give: 200.
CallVia(scheme, ans) ==
  IF scheme \in {"http", "https"} \/ ans = NoAnswer THEN WriteHttpResult(ans)
  ELSE Found(<<Val(200), StrVal(ans.body)>>)

EmitCallVia(utf8, scheme, ans) ==
  ResultMergeAgg(IF utf8 THEN CallVia(scheme, ans) ELSE Failed)

-----------------------------------------------------------------------------
(* Whatever a program passes to these builtins, they return one of these.  *)
EnvValues  == {EmitEnv(k) : k \in Keys}
JsonValues ==
  UNION {{EmitJsonParse(d), EmitJsonArrayLen(d), EmitJsonArrayGet(d, 0), EmitJsonGet(d, k),
          EmitJsonGetStr(d, k), EmitJsonGetI64(d, k), EmitJsonGetF64(d, k), EmitJsonGetBool(d, k),
          EmitJsonSetStr(d, k, s)} : d \in Docs, k \in Keys, s \in Strings}
IdentityValues ==
  UNION {{EmitOidcValidateToken(yes), EmitMockIssueToken(yes), EmitCheckRevocation(yes),
          EmitExtractClaim(yes, s), EmitCheckRolePath(yes, s), EmitExtractClaimPath(yes, s),
          EmitSessionCookie(0, 1)} : yes \in BOOLEAN, s \in Strings}
HttpValues ==
  UNION {{EmitHttpCall(utf8, ans), EmitCallVia(utf8, "http", ans), EmitCallVia(utf8, "kafka", ans)} :
         utf8 \in BOOLEAN, ans \in Answers}

BuiltinValues == EnvValues \cup JsonValues \cup IdentityValues \cup HttpValues
=============================================================================
