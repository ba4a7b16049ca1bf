--------------------------- MODULE MC_Idempotency ---------------------------
(* Small instances of Idempotency: a request, its retries, and a misuse of   *)
(* their key by a request with another body.                                 *)
EXTENDS Idempotency

CONSTANTS other   \* the request with another body

Prints == [r \in Request |-> IF r = other THEN "other body" ELSE "same body"]
=============================================================================
