---------------------------- MODULE MCIdempotency ----------------------------
(* Small instances of Idempotency for TLC.                                 *)
EXTENDS Idempotency, TLC

CONSTANTS a1, a2, a3, b1, k1, r1, r2

(* Three calls of one client that retries and one of another client that   *)
(* took the same key for another request.                                  *)
KeyOfCall == [c \in Calls |-> k1]
RequestOfCall == [c \in Calls |-> IF c = b1 THEN r2 ELSE r1]

=============================================================================
