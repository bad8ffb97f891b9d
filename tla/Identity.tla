------------------------------ MODULE Identity ------------------------------
(***************************************************************************)
(* The identity kernels: tokens checked against a key set, roles and       *)
(* claims read from a verified identity, application sessions and          *)
(* single-use refresh handles in process-wide tables under one lock each.  *)
(* Signing is external: a token says which key signed it.                  *)
(***************************************************************************)
EXTENDS JsonText

CONSTANTS
  None,
  Jwks,        \* key id |-> [kty, complete]: the configured key set
  Issuer, Audience,
  Ttl,         \* of a token minted by mock_issue_token
  Lifetime     \* SESSION_LIFETIME_SECS

VARIABLES
  clock,       \* seconds
  sessions,    \* session_table: id |-> [identity, created_at, expires_at]
  refresh      \* refresh_table: handle |-> [expires_at, used]

tables == <<sessions, refresh>>

-----------------------------------------------------------------------------
(* Tokens: [kid, alg, signer, iss, aud, exp, claims].                      *)

AlgorithmOf == [RSA |-> "RS256", EC |-> "ES256", oct |-> "HS256"]

\* The algorithm is the key's, never the one the token's header names.
DecodingKeyFor(jwk) ==
  IF jwk.kty \in DOMAIN AlgorithmOf /\ jwk.complete THEN AlgorithmOf[jwk.kty]
                                                    ELSE None

\* jsonwebtoken::decode
Decodes(tok, kid, alg) ==
  tok.alg = alg /\ tok.signer = kid /\ tok.iss = Issuer /\ tok.aud = Audience

Verified(tok) ==
  [subject |-> tok.sub, expires_at |-> tok.exp, claims_json |-> tok.claims]

\* Expiry is left to the caller.
ValidateOidcToken(tok) ==
  IF /\ tok.kid \in DOMAIN Jwks
     /\ DecodingKeyFor(Jwks[tok.kid]) # None
     /\ Decodes(tok, tok.kid, DecodingKeyFor(Jwks[tok.kid]))
    THEN Found(Verified(tok)) ELSE Failed

\* Mutant: the server trusts the kernel's verdict alone.
ValidateTokenTimeless(tok, now) == ValidateOidcToken(tok)

\* compiled-serve's own check: the kernel's, then the wall clock.
ValidateToken(tok, now) ==
  LET v == ValidateOidcToken(tok)
  IN  IF v.found /\ now > v.out.expires_at THEN Failed ELSE v

OctKeys == {k \in DOMAIN Jwks : Jwks[k].kty = "oct"}

\* The first symmetric key signs; the standard claims replace the caller's.
MockIssueToken(sub, claims, now) ==
  IF OctKeys = {} \/ ~Jwks[CHOOSE k \in OctKeys : TRUE].complete THEN Failed
  ELSE LET k == CHOOSE kid \in OctKeys : TRUE
           given == IF claims.j = "obj" THEN claims.flds ELSE <<>>
       IN  Found([kid |-> k, alg |-> "HS256", signer |-> k, iss |-> Issuer,
                  aud |-> Audience, sub |-> sub, exp |-> now + Ttl,
                  claims |-> JObj(("sub" :> JStr(Words(sub))) @@ given)])

-----------------------------------------------------------------------------
(* Roles and claims. A text that is no JSON, or JSON without a roles array,*)
(* is matched as a list of roles; a claim's string holds one entry.        *)

Entries(t) == IF t.j = "words" THEN {t.s} ELSE {}

CheckRole(claims, role) ==
  IF Has(claims, "roles") /\ claims.flds["roles"].j = "arr"
    THEN \E i \in DOMAIN claims.flds["roles"].items :
           claims.flds["roles"].items[i] = JStr(Words(role))
    ELSE role \in Entries(claims)

ExtractClaim(claims, name) == GetStr(claims, name)

Segment(cur, key) == IF cur.found THEN Get(cur.out, key) ELSE cur

\* A path has at least one segment.
ResolvePath(t, path) ==
  LET first == Get(t, Head(path))
  IN  IF first.found THEN FoldLeft(Segment, first, Tail(path)) ELSE Failed

CheckRolePath(claims, path, role) ==
  LET r == ResolvePath(claims, path)
  IN  r.found /\ r.out.j = "arr" /\ \E i \in DOMAIN r.out.items :
                                      r.out.items[i] = JStr(Words(role))

ExtractClaimPath(claims, path) ==
  LET r == ResolvePath(claims, path)
  IN  IF r.found /\ IsStr(r.out) THEN Found(Content(r.out)) ELSE Failed

CheckRevocation(claims) ==
  Has(claims, "revoked") /\ claims.flds["revoked"] = JBool(1)

\* A RoleView or a ClaimView: made by these four builtins only.
ProofOf(identity, req, path) ==
  LET claims == identity.claims_json
  IN  CASE req.kind = "role" /\ path = <<>> ->
             When(CheckRole(claims, req.value), Words(req.value))
        [] req.kind = "role" /\ path # <<>> ->
             When(CheckRolePath(claims, path, req.value), Words(req.value))
        [] req.kind = "claim" /\ path = <<>> -> ExtractClaim(claims, req.key)
        [] req.kind = "claim" /\ path # <<>> -> ExtractClaimPath(claims, path)

\* acquire compares the proof's one field; a ClaimView does not say of which
\* claim it is the value.
Acquire(proof, req) == proof = Words(req.value)

\* The hash of the key is the subject; the identity has no claims at all.
ValidateApiKey(key, expected_hash) ==
  When(key = expected_hash, [subject |-> key, expires_at |-> clock + Lifetime + Ttl,
                             claims_json |-> JObj(<<>>)])

-----------------------------------------------------------------------------
(* Sessions and refresh handles.                                           *)

CreateApplicationSession(identity) ==
  sessions' = Append(sessions, [identity |-> identity, created_at |-> clock,
                                expires_at |-> clock + Lifetime])

VerifySession(sid) ==
  IF sid \in DOMAIN sessions /\ sessions[sid].expires_at > clock
    THEN Found([subject     |-> sessions[sid].identity.subject,
                expires_at  |-> sessions[sid].expires_at,
                claims_json |-> sessions[sid].identity.claims_json])
    ELSE Failed

NewRefreshToken(expires_at) ==
  refresh' = Append(refresh, [expires_at |-> expires_at, used |-> FALSE])

\* What nir_exchange_refresh_token decides while it holds the lock.
Redeemable(h, new_issued_at) ==
  h \in DOMAIN refresh /\ ~refresh[h].used /\ refresh[h].expires_at > new_issued_at

\* Mutant: the record is read and not marked.
ExchangeRefreshTokenUnmarked(h, new_issued_at) == UNCHANGED refresh

ExchangeRefreshToken(h, new_issued_at) ==
  refresh' = IF Redeemable(h, new_issued_at)
               THEN [refresh EXCEPT ![h] = [expires_at |-> refresh[h].expires_at,
                                            used |-> TRUE]]
               ELSE refresh
=============================================================================
