---------------------------- MODULE MCDeployment ----------------------------
(* Small instances of Deployment for TLC.                                  *)
EXTENDS Deployment, TLC

CONSTANTS a1, a2, b1, r1, r2

(* Release identities, and the two references of one digest, are alike.    *)
Symmetry == Permutations({r1, r2}) \cup Permutations({a1, a2})

(* Two references of one digest and one of another.                        *)
MCDigest == (a1 :> "a") @@ (a2 :> "a") @@ (b1 :> "b")
=============================================================================
