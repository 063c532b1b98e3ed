-------------------------------- MODULE MCAuth --------------------------------
(***************************************************************************)
(* Small instances of Auth: the threads are interchangeable.  The margin   *)
(* is as large as the timeout, as with the hour of IBM's tokens (60 s) and *)
(* the default timeout (30 s).                                             *)
(***************************************************************************)
EXTENDS Auth, TLC

\* A delay, one that is beyond every deadline, and one beyond the type.
MCRetryAfter == [form : {"seconds"}, value : {1, 9, 10}]
    \cup [form : {"none"}, value : {0}] \cup [form : {"date"}, value : {2}]

Symmetry == Permutations(Threads)
=============================================================================
