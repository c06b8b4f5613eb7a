---------------------------- MODULE BoundedWork ----------------------------
(***************************************************************************)
(* What PassportScience promises about load, without threads, processes,   *)
(* waiters or semaphores: at most Limit jobs are ever active, a job is     *)
(* refused only while Limit others are active, and every admitted job      *)
(* finishes whatever its submitter does.                                   *)
(***************************************************************************)
EXTENDS Naturals, FiniteSets

CONSTANTS Jobs, Limit

VARIABLES active, finished, refused

workVars == <<active, finished, refused>>

Fresh(j) == j \notin active \cup finished \cup refused

Init == active = {} /\ finished = {} /\ refused = {}

Admit(j) == /\ Fresh(j)
            /\ Cardinality(active) < Limit
            /\ active' = active \cup {j}
            /\ UNCHANGED <<finished, refused>>

Refuse(j) == /\ Fresh(j)
             /\ Cardinality(active) = Limit
             /\ refused' = refused \cup {j}
             /\ UNCHANGED <<active, finished>>

Finish(j) == /\ j \in active
             /\ active' = active \ {j}
             /\ finished' = finished \cup {j}
             /\ UNCHANGED refused

Next == \E j \in Jobs : Admit(j) \/ Refuse(j) \/ Finish(j)

Spec == Init /\ [][Next]_workVars /\ \A j \in Jobs : WF_workVars(Finish(j))
=============================================================================
