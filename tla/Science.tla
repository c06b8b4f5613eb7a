------------------------------ MODULE Science ------------------------------
(***************************************************************************)
(* app/science/pipeline.py and app/science/ephemeris/adapter.py: how a     *)
(* calculation is admitted, executed by a pool thread and answered.        *)
(*                                                                         *)
(* Three parties act on a call: the coroutine that submitted it (waiter),  *)
(* the work item a pool thread executes (work), and the native process     *)
(* that thread runs, once for a tropical call and twice in a row for a     *)
(* Lahiri call.  Two counting semaphores bound them: `free` is the value   *)
(* of PassportScience._capacity, `nativeFree` of the adapter's _CAPACITY.  *)
(***************************************************************************)
EXTENDS Executor

CONSTANTS Calls,           \* calculations that may be submitted
          LahiriCalls,     \* those submitted through calculate_lahiri
          Capacity,        \* PassportScience._capacity
          NativeCapacity,  \* adapter._CAPACITY
          ResolveFaults,   \* how place and civil time may fail to resolve
          NativeFaults,    \* how a native calculation may fail
          StrayStart       \* TRUE: a failing submit may leave its item queued

VARIABLES free, nativeFree,
          work,      \* where the work item of a call is
          passes,    \* native processes the call has started
          outcome,   \* the result of the work item, a wire code or "ok"
          waiter,    \* where the submitting coroutine is
          answer,    \* what that coroutine received
          stray      \* calls whose item was queued by a submit that raised

semaphores == <<free, nativeFree>>
scienceVars == <<semaphores, work, passes, outcome, waiter, answer, stray>>
vars == <<executorVars, scienceVars>>

\* ERROR_CODES, with the boundary statuses _calculate translates itself.
WireCode ==
  [boundary |-> "boundary_boundary", ambiguous |-> "boundary_ambiguous",
   no_match |-> "boundary_no_match",
   invalid_input |-> "invalid_request", unresolved_zone |-> "invalid_result",
   invalid_fold |-> "invalid_fold", ambiguous_local_time |-> "civil_ambiguous",
   nonexistent_local_time |-> "civil_nonexistent",
   artifact_unavailable |-> "artifact_unavailable",
   artifact_integrity |-> "artifact_integrity",
   artifact_invalid |-> "artifact_invalid",
   unsupported_runtime |-> "unsupported_runtime",
   data_unavailable |-> "artifact_unavailable",
   data_integrity |-> "artifact_integrity", busy |-> "busy",
   timeout |-> "timeout", native_failure |-> "native_failure",
   fallback_rejected |-> "fallback_rejected",
   invalid_result |-> "invalid_result", replay_mismatch |-> "invalid_result",
   async_context |-> "internal_error"]

Codes == {WireCode[f] : f \in DOMAIN WireCode}
Results == Codes \cup {"ok"}

Task(c) == <<"science", c>>

\* A native permit for every pipeline permit: both semaphores start at 2 in the code.
\* Only the adapter itself reports "busy", see Spawn.
ASSUME ScienceAssumption ==
  /\ IsFiniteSet(Calls) /\ LahiriCalls \subseteq Calls
  /\ \A c \in Calls : Task(c) \in Tasks
  /\ Capacity \in Nat \ {0} /\ NativeCapacity \in Nat /\ Capacity <= NativeCapacity
  /\ ResolveFaults \subseteq DOMAIN WireCode \ {"busy"}
  /\ NativeFaults \subseteq DOMAIN WireCode \ {"busy"}
  /\ StrayStart \in BOOLEAN

WorkStates == {"none", "queued", "resolve", "spawn", "native", "finish", "done"}
Live == {"queued", "resolve", "spawn", "native", "finish"}

\* Calls whose work item holds a permit of _capacity, and of _CAPACITY.
Holders == {c \in Calls : work[c] \in Live /\ c \notin stray}
Native == {c \in Calls : work[c] = "native"}

TypeOK == /\ ExecutorTypeOK
          /\ free \in 0..Capacity
          /\ nativeFree \in 0..NativeCapacity
          /\ work \in [Calls -> WorkStates]
          /\ passes \in [Calls -> 0..2]
          /\ outcome \in [Calls -> Results \cup {"none"}]
          /\ waiter \in [Calls -> {"idle", "waiting", "answered", "gone"}]
          /\ answer \in [Calls -> Results \cup {"none"}]
          /\ stray \subseteq Calls

ScienceInit == /\ free = Capacity
               /\ nativeFree = NativeCapacity
               /\ work = [c \in Calls |-> "none"]
               /\ passes = [c \in Calls |-> 0]
               /\ outcome = [c \in Calls |-> "none"]
               /\ waiter = [c \in Calls |-> "idle"]
               /\ answer = [c \in Calls |-> "none"]
               /\ stray = {}

Init == ExecutorInit /\ ScienceInit
-----------------------------------------------------------------------------
(* The submitting coroutine: _submit.                                      *)

Give(c, result) == /\ waiter' = [waiter EXCEPT ![c] = "answered"]
                   /\ answer' = [answer EXCEPT ![c] = result]

\* The permit is taken and the item queued in one uninterrupted stretch.
Admit(c) == /\ free > 0
            /\ free' = free - 1
            /\ Enqueue(Task(c))
            /\ work' = [work EXCEPT ![c] = "queued"]
            /\ waiter' = [waiter EXCEPT ![c] = "waiting"]
            /\ UNCHANGED <<nativeFree, passes, outcome, answer, stray>>

\* Variant: refusal one permit too early.
RefuseEarly(c) == /\ free <= 1
                  /\ Give(c, WireCode["busy"])
                  /\ UNCHANGED <<executorVars, semaphores, work, passes, outcome, stray>>

Refuse(c) == /\ free = 0
             /\ Give(c, WireCode["busy"])
             /\ UNCHANGED <<executorVars, semaphores, work, passes, outcome, stray>>

\* run_in_executor raises, the permit is given back and the exception passed on.
\* The pool queues an item before it starts a thread for it, so when the thread
\* cannot be started the item stays behind for a thread that is already there.
SubmitFails(c) ==
  /\ free > 0
  /\ Give(c, "internal_error")
  /\ \/ UNCHANGED <<executorVars, work, stray>>
     \/ /\ StrayStart
        /\ Enqueue(Task(c))
        /\ work' = [work EXCEPT ![c] = "queued"]
        /\ stray' = stray \cup {c}
  /\ UNCHANGED <<semaphores, passes, outcome>>

Submit(c) == waiter[c] = "idle" /\ (Admit(c) \/ Refuse(c) \/ SubmitFails(c))

\* Variant: an exception of the work item never reaches the awaiting coroutine.
DeliverSuccess(c) == /\ waiter[c] = "waiting" /\ work[c] = "done" /\ outcome[c] = "ok"
                     /\ Give(c, outcome[c])
                     /\ UNCHANGED <<executorVars, semaphores, work, passes, outcome, stray>>

\* The shielded await returns the result of the work item.
Deliver(c) == /\ waiter[c] = "waiting" /\ work[c] = "done"
              /\ Give(c, outcome[c])
              /\ UNCHANGED <<executorVars, semaphores, work, passes, outcome, stray>>

\* Variant: the permit belongs to the coroutine, whose finally clause returns it.
LeaveReleasing(c) ==
  /\ waiter[c] = "waiting"
  /\ waiter' = [waiter EXCEPT ![c] = "gone"]
  /\ free' = free + 1
  /\ UNCHANGED <<executorVars, nativeFree, work, passes, outcome, answer, stray>>

\* Variant: no asyncio.shield, the cancellation reaches the future of the item.
LeaveUnshielded(c) ==
  /\ waiter[c] = "waiting"
  /\ waiter' = [waiter EXCEPT ![c] = "gone"]
  /\ CancelFuture(Task(c))
  /\ UNCHANGED <<semaphores, work, passes, outcome, answer, stray>>

\* The waiter is cancelled, by the 6 s deadline or with its request: asyncio.shield
\* keeps the cancellation from the future of the work item.
Leave(c) == /\ waiter[c] = "waiting"
            /\ waiter' = [waiter EXCEPT ![c] = "gone"]
            /\ UNCHANGED <<executorVars, semaphores, work, passes, outcome, answer, stray>>
-----------------------------------------------------------------------------
(* The pool thread: work, _calculate, _lahiri and the adapter's _calculate. *)

Goto(c, state) == work' = [work EXCEPT ![c] = state]

Finish(c, result) == /\ Goto(c, "finish")
                     /\ outcome' = [outcome EXCEPT ![c] = result]

Start(c) == /\ work[c] = "queued"
            /\ Take(Task(c))
            /\ Goto(c, "resolve")
            /\ UNCHANGED <<semaphores, passes, outcome, waiter, answer, stray>>

\* Boundary, civil time and its replay: pure functions of the thread's own request.
Resolve(c) ==
  /\ work[c] = "resolve"
  /\ \/ Goto(c, "spawn") /\ UNCHANGED outcome
     \/ \E f \in ResolveFaults : Finish(c, WireCode[f])
  /\ UNCHANGED <<executorVars, semaphores, passes, waiter, answer, stray>>

\* The adapter takes its own permit without waiting, or fails with BUSY.
Spawn(c) ==
  /\ work[c] = "spawn"
  /\ \/ /\ nativeFree > 0
        /\ nativeFree' = nativeFree - 1
        /\ passes' = [passes EXCEPT ![c] = @ + 1]
        /\ Goto(c, "native")
        /\ UNCHANGED outcome
     \/ /\ nativeFree = 0
        /\ Finish(c, WireCode["busy"])
        /\ UNCHANGED <<nativeFree, passes>>
  /\ UNCHANGED <<executorVars, free, waiter, answer, stray>>

\* Variant: a Lahiri call is content with the tropical pass.
NoMorePasses(c) == c \in LahiriCalls /\ passes[c] = 2

MorePasses(c) == c \in LahiriCalls /\ passes[c] = 1

\* Variant: the permit is kept from the first pass to the second.
NativeEndsKeeping(c) ==
  /\ work[c] = "native"
  /\ \/ /\ nativeFree' = nativeFree + 1
        /\ \/ \E f \in NativeFaults : Finish(c, WireCode[f])
           \/ ~MorePasses(c) /\ Finish(c, "ok")
     \/ MorePasses(c) /\ Goto(c, "spawn") /\ UNCHANGED <<outcome, nativeFree>>
  /\ UNCHANGED <<executorVars, free, passes, waiter, answer, stray>>

\* Variant: the permit is released after a result but not after an exception.
NativeEndsLeaking(c) ==
  /\ work[c] = "native"
  /\ \/ \E f \in NativeFaults : Finish(c, WireCode[f]) /\ UNCHANGED nativeFree
     \/ /\ nativeFree' = nativeFree + 1
        /\ \/ MorePasses(c) /\ Goto(c, "spawn") /\ UNCHANGED outcome
           \/ ~MorePasses(c) /\ Finish(c, "ok")
  /\ UNCHANGED <<executorVars, free, passes, waiter, answer, stray>>

\* The process ends, by itself or killed after 5 s, and the permit is released.
\* The second pass of a Lahiri call must repeat the positions of the first.
NativeEnds(c) ==
  /\ work[c] = "native"
  /\ nativeFree' = nativeFree + 1
  /\ \/ \E f \in NativeFaults : Finish(c, WireCode[f])
     \/ MorePasses(c) /\ Goto(c, "spawn") /\ UNCHANGED outcome
     \/ ~MorePasses(c) /\ Finish(c, "ok")
     \/ passes[c] = 2 /\ Finish(c, "invalid_result")
  /\ UNCHANGED <<executorVars, free, passes, waiter, answer, stray>>

\* The finally clause of work.  A BoundedSemaphore refuses to pass its first value:
\* the ValueError then replaces the result.
Release(c) ==
  /\ work[c] = "finish"
  /\ Return(Task(c))
  /\ Goto(c, "done")
  /\ \/ free < Capacity /\ free' = free + 1 /\ UNCHANGED outcome
     \/ /\ free = Capacity
        /\ outcome' = [outcome EXCEPT ![c] = "internal_error"]
        /\ UNCHANGED free
  /\ UNCHANGED <<nativeFree, passes, waiter, answer, stray>>

Work(c) == Start(c) \/ Resolve(c) \/ Spawn(c) \/ NativeEnds(c) \/ Release(c)

Next == \E c \in Calls : Submit(c) \/ Deliver(c) \/ Leave(c) \/ Work(c)

\* Threads are scheduled, a native process is killed after 5 s, and the loop resumes
\* a waiter whose answer is there.  Nothing must be submitted and no waiter must leave.
Fairness == \A c \in Calls : WF_vars(Work(c)) /\ WF_vars(Deliver(c))

Spec == Init /\ [][Next]_vars /\ Fairness
-----------------------------------------------------------------------------
(* Every permit of _capacity is either free or held by exactly one work item that *)
(* has not finished, whoever has stopped waiting for it (work's finally clause,   *)
(* the except clause of _submit and asyncio.shield).                              *)
TokensConserved == free + Cardinality(Holders) = Capacity

(* Every permit of the adapter's _CAPACITY is free or belongs to a living native  *)
(* process, so at most NativeCapacity processes exist, even when a submit that    *)
(* raised has left its item behind and _capacity has been released twice.         *)
NativeConserved == nativeFree + Cardinality(Native) = NativeCapacity

(* No admitted calculation fails with the adapter's BUSY: both semaphores are     *)
(* taken without waiting, and the outer one leaves a native permit for every      *)
(* thread it admits.                                                              *)
NativeNeverBusy == \A c \in Calls : outcome[c] # "busy"

(* A waiter is given "ok" only when its own work item has run every native pass   *)
(* its profile needs; a refusal, or a place or time that does not resolve, has    *)
(* cost no native process.                                                        *)
Unresolved == {WireCode[f] : f \in {"boundary", "ambiguous", "no_match", "invalid_fold",
                                    "ambiguous_local_time", "nonexistent_local_time"}}
AnswersEarned ==
  \A c \in Calls : waiter[c] = "answered" =>
    /\ answer[c] = "ok" => /\ work[c] = "done"
                           /\ passes[c] = IF c \in LahiriCalls THEN 2 ELSE 1
    /\ answer[c] \in Unresolved => passes[c] = 0
    /\ work[c] = "none" => passes[c] = 0 /\ answer[c] \in {"busy", "internal_error"}

(* _submit and its threads implement BoundedWork: a call is active while its item *)
(* holds a permit, refused only when all are held, and always finishes.           *)
Bounded == INSTANCE BoundedWork WITH
             Jobs <- Calls, Limit <- Capacity,
             active <- Holders,
             finished <- {c \in Calls : work[c] = "done"},
             refused <- {c \in Calls : answer[c] = "busy" /\ work[c] = "none"}
ImplementsBoundedWork == Bounded!Spec

(* Whatever waiters do, every permit of both semaphores comes back and the pool   *)
(* becomes idle.                                                                  *)
CapacityReturns == <>[](/\ free = Capacity /\ nativeFree = NativeCapacity
                        /\ queue = <<>> /\ running = {})

(* Even without the deadline no waiter waits for ever: a calculation ends, because *)
(* its native processes are killed, and its result or failure arrives.            *)
WaitersAnswered == \A c \in Calls : waiter[c] = "waiting" ~> waiter[c] # "waiting"
=============================================================================
