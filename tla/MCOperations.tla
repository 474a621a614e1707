---------------------------- MODULE MCOperations ----------------------------
(* Instances of Operations for TLC. *)
EXTENDS Operations, TLC

(* Requests and releases are interchangeable: no action tells them apart.  *)
Symmetry == Permutations(Requests) \cup Permutations(Releases)
=============================================================================
