----------------------------- MODULE MCDeadlines -----------------------------
(* Gateway and sidecar in time on small instances.                          *)
EXTENDS Deadlines, TLC

(* No definition tells one request from another.                            *)
Symmetry == Permutations(Requests)
=============================================================================
