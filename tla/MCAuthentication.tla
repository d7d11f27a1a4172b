-------------------------- MODULE MCAuthentication --------------------------
(***************************************************************************)
(* Instances of Authentication for TLC.                                    *)
(***************************************************************************)
EXTENDS Authentication, TLC

JWK(kid, material, alg) ==
  [kid |-> kid, material |-> material, kty |-> "RSA", use |-> "sig", alg |-> alg, wellFormed |-> TRUE]

Old == JWK("k1", "m1", "RS256")
New == JWK("k2", "m2", "")
Encryption == [JWK("k2", "m3", "") EXCEPT !.use = "enc"]

\* Before, after the rotation, and a set that is refused as a whole.
MCDocuments == {<<Old>>, <<Encryption, New>>, <<New, New>>}

Token(kid, signer, alg, roles) ==
  [readable |-> TRUE, kid |-> kid, signer |-> signer, alg |-> alg, claims |-> "valid",
   roles |-> roles, principal |-> TRUE]

OldToken == Token("k1", "m1", "RS256", {"admin"})
NewToken == Token("k2", "m2", "PS256", {"viewer"})
OtherAlg == Token("k1", "m1", "PS256", {"admin"})

Api(method, token) == [kind |-> "api", method |-> method, token |-> token]
MCRequests ==
  {Api("GET", OldToken), Api("GET", OtherAlg), Api("GET", [OldToken EXCEPT !.roles = {}]),
   Api("POST", NewToken), [kind |-> "endpoints"]}
=============================================================================
