------------------------------ MODULE MCServed ------------------------------
(***************************************************************************)
(* Routes of every kind, two addresses of which one is a proxy, tokens of  *)
(* the provider and of somebody else, requests well and badly formed.      *)
(***************************************************************************)
EXTENDS Served, JsonWire

CONSTANTS c1, c2, c3, home, proxy

MCWord == -8 .. 7
Int64 == [t |-> "int", range |-> MCWord]
Small == [t |-> "int", range |-> -2 .. 1]
StrT  == [t |-> "str"]
Res(a) == [t |-> "result", of |-> <<a, StrT>>]
Pair  == [t |-> "struct", names |-> <<"x", "y">>, of |-> <<Small, [t |-> "bool"]>>]
Reply == Res(Int64)

Role(r) == [kind |-> "role", key |-> "", value |-> r]
Claim(k, v) == [kind |-> "claim", key |-> k, value |-> v]
Route(req, params, ret, does) ==
  [requires |-> req, params |-> params, ret |-> ret, does |-> does,
   target |-> "/api/gated", path |-> <<>>]

MCRoutes ==
  ("/api/pair"  :> Route(None, <<[t |-> "identity?"], Pair>>, Res(Pair), "echo")) @@
  ("/api/gated" :> Route(Role("admin"), <<Small>>, Res(Small), "echo")) @@
  ("/api/claim" :> Route(Claim("dept", "it"), <<Small>>, Res(Small), "echo")) @@
  ("/api/open"  :> Route(None, <<[t |-> "identity"]>>, Reply, "open")) @@
  ("/api/issue" :> Route(None, <<>>, Reply, "issue")) @@
  ("/api/exchange" :> Route(None, <<>>, Reply, "exchange")) @@
  ("/api/acquire"  :> Route(None, <<[t |-> "identity?"]>>, Reply, "acquire")) @@
  ("/api/acquire2" :> [Route(None, <<[t |-> "identity?"]>>, Reply, "acquire")
                        EXCEPT !.target = "/api/claim", !.path = <<"org", "unit">>])

Req(path, body, sent) ==
  [method |-> "POST", path |-> path, body |-> body, sent |-> sent,
   xff |-> None, tok |-> None]
Args(tys, vs) == JArr([i \in DOMAIN vs |-> EncodeValueJson(tys[i], vs[i])])
Sending(path, tys, vs) == Req(path, Args(tys, vs), vs)

Claimed(roles, dept) ==
  JObj(("roles" :> JArr([i \in DOMAIN roles |-> JStr(Words(roles[i]))])) @@
       ("dept" :> JStr(Words(dept))) @@
       ("org" :> JObj("unit" :> JStr(Words("it")))))
Token(sub, exp, signer, claims) ==
  [kid |-> "k1", alg |-> "HS256", signer |-> signer, iss |-> "idp", aud |-> "app",
   sub |-> sub, exp |-> exp, claims |-> claims]
Admin == Token("ann", 0, "k1", Claimed(<<"admin">>, "hr"))
Clerk == Token("bob", 1, "k1", Claimed(<<"clerk">>, "it"))
Forged == Token("eve", 1, "k0", Claimed(<<"admin">>, "it"))
Malformed == [Admin EXCEPT !.kid = None]

MCJwks == "k1" :> [kty |-> "oct", complete |-> TRUE] @@
          "k2" :> [kty |-> "RSA", complete |-> FALSE]
Issued    == {Admin, Clerk}

Call(path, vs) == Sending(path, SelectSeq(MCRoutes[path].params, LAMBDA p : ~IsIdentity(p)), vs)
PairVal == [n |-> 0, tag |-> 0, kids |-> <<Val(1), Val(0)>>]
As(tok, r) == [r EXCEPT !.tok = tok]
Gated == Call("/api/gated", <<Val(-2)>>)
MCRequests ==
  {As(Clerk, Call("/api/pair", <<PairVal>>)), Gated, As(Clerk, Gated),
   As(Forged, Gated), As(Admin, [Gated EXCEPT !.xff = home]),
   As(Clerk, Call("/api/claim", <<Val(1)>>)), As(Admin, Call("/api/open", <<>>)),
   Call("/api/issue", <<>>), Call("/api/exchange", <<>>), Call("/api/acquire", <<>>),
   As(Clerk, Call("/api/acquire2", <<>>)), Req("/api/pair", Words("}"), None),
   [Req("/api/gated", Empty, None) EXCEPT !.method = "OPTIONS"],
   [Req("/", Empty, None) EXCEPT !.method = "GET"],
   Req("/api/_demo_login", Empty, None),
   Req("/api/_demo_login", JObj(("subject" :> JStr(Words("dan"))) @@
                                ("roles" :> JArr(<<JStr(Words("admin")), JNull>>))), None),
   As(Malformed, Req("/api/_whoami", Empty, None)), As(Clerk, Req("/api/none", Empty, None))}
\* VerifiedIdentity is decoded like any struct.
IdentityTy == [t |-> "struct", names |-> <<"subject", "expires_at", "claims_json">>,
               of |-> <<StrT, Int64, StrT>>]
ASSUME IdentityIsAStruct ==
  \A tok \in Issued, e \in {0, 1, 9} :
    LET id == [Verified(tok) EXCEPT !.expires_at = e]
        d  == DecodeIdentityJson(IdentityJson(id))
        v  == DecodeValueJson(IdentityTy, IdentityJson(id))
    IN  /\ d.tag = v.tag
        /\ d.tag = 0 => /\ d.kids[1].subject = v.kids[1].kids[1].kids[1].s
                        /\ d.kids[1].expires_at = v.kids[1].kids[2].n
                        /\ d.kids[1].claims_json = v.kids[1].kids[3].kids[1]
\* The codec of JsonWire is the one the routes use.
MCEncode(ty, v) == EncodeValueJson(ty, v)
MCDecode(ty, t) == DecodeValueJson(ty, t)

RECURSIVE ValuesOf(_)
ValuesOf(ty) ==
  CASE ty.t = "bool"   -> {Val(0), Val(1)}
    [] ty.t = "int"    -> {Val(n) : n \in ty.range}
    [] ty.t = "str"    -> {StrVal(Words("no"))}
    [] ty.t = "result" -> {Ok(v) : v \in ValuesOf(ty.of[1])} \cup {Err(v) : v \in ValuesOf(ty.of[2])}
    [] ty.t = "struct" ->
         LET all == [i \in DOMAIN ty.of |-> ValuesOf(ty.of[i])]
         IN  {[n |-> 0, tag |-> 0, kids |-> ks] :
                ks \in {ks \in [DOMAIN all -> UNION Range(all)] : \A i \in DOMAIN all : ks[i] \in all[i]}}
MCValues(ty) == ValuesOf(ty)

\* One client sends everything, one pipelines, one comes too late for a slot.
MCTraffic ==
  [c \in Conns |->
     CASE c = c1 -> MCRequests
       [] c = c2 -> {As(Clerk, Call("/api/pair", <<PairVal>>)), Call("/api/issue", <<>>),
                     As(Admin, [Gated EXCEPT !.xff = home]), As(Malformed, Req("/api/_whoami", Empty, None))}
       [] c = c3 -> {Call("/api/exchange", <<>>), As(Clerk, Gated)}]
MCPeer == [c \in {c1, c2, c3} |-> IF c = c2 THEN proxy ELSE home]
MCRateLimited == {"/api/gated"}
=============================================================================
