------------------------------ MODULE MCRegistry ------------------------------
(***************************************************************************)
(* Small instances of Registry.  Threads, addresses and credentials are    *)
(* interchangeable; symmetry is used for safety only.                      *)
(***************************************************************************)
EXTENDS Registry, TLC

Symmetry == Permutations(Threads) \cup Permutations(Sessions)
              \cup Permutations(Jobs) \cup Permutations(Keys)
=============================================================================
