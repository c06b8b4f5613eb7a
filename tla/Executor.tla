------------------------------ MODULE Executor ------------------------------
(***************************************************************************)
(* The event loop's default thread pool, as the service uses it: through   *)
(* loop.run_in_executor(None, ...) in pipeline.py and asyncio.to_thread in *)
(* api.py.  It belongs to CPython, so its definitions are external.        *)
(*                                                                         *)
(* Work items wait in one first-in first-out queue for one of Workers      *)
(* threads.  Cancelling the future of an item that no thread has taken     *)
(* leaves the item in the queue, and the thread that reaches it drops it;  *)
(* cancelling the future of a running item does not stop the thread.       *)
(***************************************************************************)
EXTENDS Naturals, Sequences, FiniteSets

CONSTANTS Tasks,      \* the work items that may be submitted, each at most once
          Workers     \* max_workers of the pool

ASSUME WorkersAssumption == Workers \in Nat \ {0}

VARIABLES queue,      \* items no thread has taken yet
          running,    \* items a thread is executing
          cancelled   \* items whose future was cancelled before they started

executorVars == <<queue, running, cancelled>>

ExecutorTypeOK == /\ queue \in Seq(Tasks)
                  /\ running \subseteq Tasks
                  /\ cancelled \subseteq Tasks

ExecutorInit == /\ queue = <<>>
                /\ running = {}
                /\ cancelled = {}

Enqueue(t) == /\ queue' = Append(queue, t)
              /\ UNCHANGED <<running, cancelled>>

WorkerFree == Cardinality(running) < Workers

\* A thread takes the item at the head of the queue and begins to execute it.
Take(t) == /\ queue # <<>> /\ Head(queue) = t /\ t \notin cancelled
           /\ WorkerFree
           /\ queue' = Tail(queue)
           /\ running' = running \cup {t}
           /\ UNCHANGED cancelled

\* A thread drops an item whose future was cancelled while it waited.
Skip == /\ queue # <<>> /\ Head(queue) \in cancelled
        /\ WorkerFree
        /\ queue' = Tail(queue)
        /\ UNCHANGED <<running, cancelled>>

Return(t) == /\ running' = running \ {t}
             /\ UNCHANGED <<queue, cancelled>>

Waiting(t) == \E i \in DOMAIN queue : queue[i] = t

\* future.cancel(): an item that still waits will never run, any other is unaffected.
CancelFuture(t) == /\ cancelled' = IF Waiting(t) THEN cancelled \cup {t} ELSE cancelled
                   /\ UNCHANGED <<queue, running>>
=============================================================================
