------------------------- MODULE MCSignatureChecker -------------------------
(* Two concurrent requests; the first one's external calls may hang. *)
EXTENDS SignatureChecker

CONSTANTS r1, r2

MCRequests == {r1, r2}
MCHungRequests == {r1}

(* Every shape of request the API can send. *)
MCShapes == RequestShape

=============================================================================
