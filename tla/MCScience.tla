----------------------------- MODULE MCScience -----------------------------
(* Three calls, one of them Lahiri: two permits, so the third call can find none. *)
EXTENDS Science, TLC

MCTasks == {Task(c) : c \in Calls}
MCResolveFaults == {"boundary", "nonexistent_local_time"}
MCNativeFaults == {"timeout", "replay_mismatch"}
=============================================================================
