---------------------------- MODULE MCEventOutbox ----------------------------
(* Small instances of EventOutbox for TLC.                                 *)
EXTENDS EventOutbox, TLC

CONSTANTS k1, k2, e1, e2

Symmetry == Permutations({k1, k2}) \cup Permutations({e1, e2})

(* The delay grows with the attempt and then stays (webhookRetryDelay).    *)
MCRetryDelays == <<1, 2>>
=============================================================================
