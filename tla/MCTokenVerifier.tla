-------------------------- MODULE MCTokenVerifier --------------------------
(* Instances of TokenVerifier for TLC. *)
EXTENDS TokenVerifier

CONSTANTS k2, enc, api

Good(k) == [kid |-> k, signed |-> TRUE, named |-> TRUE, aud |-> {api}, left |-> 2, wait |-> 0]

\* A token of the key that comes and goes, and one that expires during a fetch,
\* of a key that is not for signing.
SomeTokens == {Good(k2), [Good(enc) EXCEPT !.left = 1]}
=============================================================================
