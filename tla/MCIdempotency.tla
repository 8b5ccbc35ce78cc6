---------------------------- MODULE MCIdempotency ----------------------------
(* Small instances of Idempotency for TLC: every request carries the same  *)
(* key, as a client's first attempt and its retries do.                    *)
EXTENDS Idempotency

OneKey == [r \in Requests |-> CHOOSE k \in Keys : TRUE]
=============================================================================
