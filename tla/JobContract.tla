----------------------------- MODULE JobContract -----------------------------
(***************************************************************************)
(* What a job handle promises to its owner (docs/api.md, "Jobs and         *)
(* results"), without threads, mutexes, requests or answers:               *)
(*  - it is configured freely until it is submitted, never afterwards;     *)
(*  - the service runs it at most once, with the configuration it shows;   *)
(*  - a submission that is not confirmed leaves it FAILED for good;        *)
(*  - its status only moves forward, and stops at a terminal one.          *)
(* DeviceJob is shown to implement this specification.                     *)
(***************************************************************************)
EXTENDS Naturals

CONSTANTS Handles, Programs, NoProgram

VARIABLES
    config,   \* config[h]: the programs h shows
    view,     \* view[h]: the status of h
    ran       \* ran[h]: the programs the service accepted from h

vars == <<config, view, ran>>

Statuses == {"CREATED", "SUBMITTING", "SUBMITTED", "QUEUED", "RUNNING",
             "DONE", "CANCELED", "FAILED"}

\* How far along a status is; a terminal one has no successor.
Rank(s) == CASE s = "CREATED" -> 0 [] s = "SUBMITTING" -> 1
             [] s = "SUBMITTED" -> 2 [] s = "QUEUED" -> 3
             [] s = "RUNNING" -> 4 [] OTHER -> 5

TypeOK ==
    /\ config \in [Handles -> Programs \cup {NoProgram}]
    /\ view \in [Handles -> Statuses]
    /\ ran \in [Handles -> Programs \cup {NoProgram}]

Init ==
    /\ config = [h \in Handles |-> NoProgram]
    /\ view = [h \in Handles |-> "CREATED"]
    /\ ran = [h \in Handles |-> NoProgram]

Configure(h, p) ==
    /\ view[h] = "CREATED"
    /\ config' = [config EXCEPT ![h] = p]
    /\ UNCHANGED <<view, ran>>

Submit(h) ==
    /\ view[h] = "CREATED"
    /\ config[h] # NoProgram
    /\ view' = [view EXCEPT ![h] = "SUBMITTING"]
    /\ UNCHANGED <<config, ran>>

\* The service may accept long after the submission was given up.
Accept(h) ==
    /\ view[h] \in {"SUBMITTING", "FAILED"}
    /\ config[h] # NoProgram
    /\ ran[h] = NoProgram
    /\ ran' = [ran EXCEPT ![h] = config[h]]
    /\ UNCHANGED <<config, view>>

Settle(h) ==
    /\ view[h] = "SUBMITTING"
    /\ \/ view' = [view EXCEPT ![h] = "FAILED"]
       \/ /\ ran[h] = config[h]
          /\ view' = [view EXCEPT ![h] = "SUBMITTED"]
    /\ UNCHANGED <<config, ran>>

Progress(h) ==
    /\ Rank(view[h]) \in 2 .. 4
    /\ view'[h] \in Statuses
    /\ Rank(view'[h]) > Rank(view[h])
    /\ view' = [view EXCEPT ![h] = view'[h]]
    /\ UNCHANGED <<config, ran>>

\* A handle made for a job that already exists.
Retrieve(h) ==
    /\ view[h] = "CREATED"
    /\ config[h] = NoProgram
    /\ view'[h] \in Statuses
    /\ Rank(view'[h]) >= 2
    /\ \E p \in Programs : config' = [config EXCEPT ![h] = p]
    /\ view' = [view EXCEPT ![h] = view'[h]]
    /\ UNCHANGED ran

Next == \E h \in Handles :
    \/ \E p \in Programs : Configure(h, p)
    \/ Submit(h) \/ Accept(h) \/ Settle(h) \/ Progress(h) \/ Retrieve(h)

Spec == Init /\ [][Next]_vars
=============================================================================
