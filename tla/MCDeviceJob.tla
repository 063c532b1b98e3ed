---------------------------- MODULE MCDeviceJob ----------------------------
(* Finite instances of DeviceJob. *)
EXTENDS DeviceJob, TLC

Symmetry == Permutations(Threads) \cup Permutations(Handles)
              \cup Permutations(Ids) \cup Permutations(Programs)
=============================================================================
