-------------------------------- MODULE Api --------------------------------
(***************************************************************************)
(* app/api.py: POST /v1/passports, composed with the science it calls.     *)
(*                                                                         *)
(* A request is one coroutine.  Between two awaits it runs uninterrupted,  *)
(* so an action of a handler is the code from one await to the next, with  *)
(* the finally clause that returns the admission slot whenever it ends.    *)
(* authenticate and reserve_quota run in the pool that also runs science.  *)
(* The requests of a run carry one key and fall into one minute: quota is  *)
(* the atomic counter that module Quota shows it to be.                    *)
(***************************************************************************)
EXTENDS Science

CONSTANTS Slots,         \* admission slots, 4 in the code
          PerMinute,     \* per_minute of the key
          PreFaults,     \* refusals before a slot is taken
          HeaderFaults,  \* refusals between authentication and quota
          BodyFaults,    \* refusals after quota, before science
          MayCancel      \* TRUE: the server may cancel a handler

VARIABLES delegate,   \* what Runtime.delegate is for the life of the process
          slots,      \* free admission slots
          pc,         \* the await a handler is suspended in
          found,      \* the result of the authenticate thread
          reserved,   \* the result of the reserve_quota thread
          charges,    \* requests whose reservation is committed
          reply       \* <<HTTP status, code>>

handlerVars == <<delegate, slots, pc, found, reserved, charges, reply>>
apiVars == <<vars, handlerVars>>

\* STATUS of errors.py.
Status ==
  [invalid_request |-> 422, boundary_boundary |-> 422, boundary_ambiguous |-> 422,
   boundary_no_match |-> 422, civil_ambiguous |-> 422, civil_nonexistent |-> 422,
   invalid_fold |-> 422, artifact_unavailable |-> 503, artifact_integrity |-> 500,
   artifact_invalid |-> 500, unsupported_runtime |-> 503, native_failure |-> 500,
   fallback_rejected |-> 500, invalid_result |-> 500, busy |-> 503, timeout |-> 408,
   internal_error |-> 500]

Busy == <<503, "busy">>
InternalError == <<500, "internal_error">>
StateUnavailable == <<503, "state_unavailable">>

PreReplies == {<<503, "disabled">>, <<400, "invalid_request">>, <<413, "too_large">>}
HeaderReplies == {<<406, "unsupported_version">>, <<415, "unsupported_media_type">>,
                  <<400, "invalid_request">>, <<413, "too_large">>}
BodyReplies == {<<413, "too_large">>, <<408, "timeout">>, <<400, "invalid_request">>,
                <<422, "invalid_request">>, InternalError}

Auth(r) == <<"authenticate", r>>
Reserve(r) == <<"reserve", r>>

\* Every code a calculation can fail with has a status of its own.
ASSUME ApiAssumption == /\ Slots \in Nat \ {0} /\ PerMinute \in Nat \ {0}
                        /\ PreFaults \subseteq PreReplies
                        /\ HeaderFaults \subseteq HeaderReplies
                        /\ BodyFaults \subseteq BodyReplies
                        /\ MayCancel \in BOOLEAN
                        /\ Codes \subseteq DOMAIN Status
                        /\ \A r \in Calls : {Auth(r), Reserve(r)} \subseteq Tasks

Answer(result) == IF result = "ok" THEN <<200, "ok">> ELSE <<Status[result], result>>

Awaits == {"authenticating", "reserving", "reading", "calculating"}
Inside == {r \in Calls : pc[r] \in Awaits}

ApiTypeOK ==
  /\ TypeOK
  /\ delegate \in {"science", "unavailable"}
  /\ slots \in 0..Slots
  /\ pc \in [Calls -> Awaits \cup {"idle", "replied", "cancelled"}]
  /\ found \in [Calls -> {"none", "key", "denied", "fault"}]
  /\ reserved \in [Calls -> {"none", "granted", "refused", "fault"}]
  /\ charges \subseteq Calls

ApiInit == /\ Init
           /\ delegate \in {"science", "unavailable"}
           /\ slots = Slots
           /\ pc = [r \in Calls |-> "idle"]
           /\ found = [r \in Calls |-> "none"]
           /\ reserved = [r \in Calls |-> "none"]
           /\ charges = {}
           /\ reply = [r \in Calls |-> <<0, "none">>]
-----------------------------------------------------------------------------
(* The handler.                                                            *)

Suspend(r, await) == /\ pc' = [pc EXCEPT ![r] = await]
                     /\ UNCHANGED <<slots, reply>>

\* A reply to a request that holds a slot: the finally clause returns the slot.
Reply(r, answered) == /\ pc' = [pc EXCEPT ![r] = "replied"]
                      /\ reply' = [reply EXCEPT ![r] = answered]
                      /\ slots' = slots + 1

\* to_thread queues its item; when the pool refuses it, the exception becomes a 500.
ToThread(r, task, await) == \/ Enqueue(task) /\ Suspend(r, await)
                            \/ Reply(r, InternalError) /\ UNCHANGED executorVars

\* Variant: the finally clause also covers a request that never had a slot.
TurnAwayReleasing(r) == /\ slots = 0
                        /\ reply' = [reply EXCEPT ![r] = Busy]
                        /\ slots' = slots + 1
                        /\ pc' = [pc EXCEPT ![r] = "replied"]
                        /\ UNCHANGED executorVars

TurnAway(r) ==
  /\ \/ \E answered \in PreFaults : reply' = [reply EXCEPT ![r] = answered]
     \/ slots = 0 /\ reply' = [reply EXCEPT ![r] = Busy]
  /\ pc' = [pc EXCEPT ![r] = "replied"]
  /\ UNCHANGED <<executorVars, slots>>

Enter(r) ==
  /\ slots > 0
  /\ \/ /\ Enqueue(Auth(r))
        /\ slots' = slots - 1
        /\ pc' = [pc EXCEPT ![r] = "authenticating"]
        /\ UNCHANGED reply
     \/ /\ pc' = [pc EXCEPT ![r] = "replied"]
        /\ reply' = [reply EXCEPT ![r] = InternalError]
        /\ UNCHANGED <<executorVars, slots>>

Arrive(r) == /\ pc[r] = "idle"
             /\ TurnAway(r) \/ Enter(r)
             /\ UNCHANGED <<scienceVars, delegate, found, reserved, charges>>

\* Variant: the reservation is started before the headers are judged.
AuthenticatedEager(r) ==
  /\ pc[r] = "authenticating" /\ found[r] = "key"
  /\ Enqueue(Reserve(r))
  /\ \/ \E answered \in HeaderFaults : Reply(r, answered)
     \/ Suspend(r, "reserving")
  /\ UNCHANGED <<scienceVars, delegate, found, reserved, charges>>

Authenticated(r) ==
  /\ pc[r] = "authenticating" /\ found[r] # "none"
  /\ \/ /\ found[r] = "denied"
        /\ Reply(r, <<401, "unauthorized">>) /\ UNCHANGED executorVars
     \/ /\ found[r] = "fault"
        /\ Reply(r, StateUnavailable) /\ UNCHANGED executorVars
     \/ /\ found[r] = "key"
        /\ \/ \E answered \in HeaderFaults : Reply(r, answered) /\ UNCHANGED executorVars
           \/ ToThread(r, Reserve(r), "reserving")
  /\ UNCHANGED <<scienceVars, delegate, found, reserved, charges>>

\* Variant: quota state that cannot be read lets the request pass.
ReservedFailOpen(r) ==
  /\ pc[r] = "reserving" /\ reserved[r] # "none"
  /\ \/ reserved[r] \in {"granted", "fault"} /\ Suspend(r, "reading")
     \/ reserved[r] = "refused" /\ Reply(r, <<429, "rate_limited">>)
  /\ UNCHANGED <<vars, delegate, found, reserved, charges>>

Reserved(r) ==
  /\ pc[r] = "reserving" /\ reserved[r] # "none"
  /\ \/ reserved[r] = "granted" /\ Suspend(r, "reading")
     \/ reserved[r] = "refused" /\ Reply(r, <<429, "rate_limited">>)
     \/ reserved[r] = "fault" /\ Reply(r, StateUnavailable)
  /\ UNCHANGED <<vars, delegate, found, reserved, charges>>

\* The body is read and parsed; nothing is awaited between that and the permit.
BodyRead(r) ==
  /\ pc[r] = "reading"
  /\ \/ \E answered \in BodyFaults : Reply(r, answered) /\ UNCHANGED vars
     \/ /\ delegate = "unavailable"
        /\ Reply(r, <<503, "science_unavailable">>) /\ UNCHANGED vars
     \/ /\ delegate = "science"
        /\ \/ Admit(r) /\ Suspend(r, "calculating")
           \/ Refuse(r) /\ Reply(r, Busy)
           \/ SubmitFails(r) /\ Reply(r, InternalError)
  /\ UNCHANGED <<delegate, found, reserved, charges>>

\* A result is validated once more on its way out, and may fail there.
Calculated(r) == /\ pc[r] = "calculating"
                 /\ Deliver(r)
                 /\ \/ Reply(r, Answer(outcome[r]))
                    \/ outcome[r] = "ok" /\ Reply(r, InternalError)
                 /\ UNCHANGED <<delegate, found, reserved, charges>>

\* asyncio.timeout(6).
DeadlinePasses(r) == /\ pc[r] = "calculating"
                     /\ Leave(r)
                     /\ Reply(r, <<408, "timeout">>)
                     /\ UNCHANGED <<delegate, found, reserved, charges>>

\* Variant: the slot is returned by the except clauses, which a cancellation skips.
CancelLeaking(r) ==
  /\ MayCancel /\ pc[r] \in Awaits
  /\ pc' = [pc EXCEPT ![r] = "cancelled"]
  /\ \/ pc[r] = "authenticating" /\ CancelFuture(Auth(r)) /\ UNCHANGED scienceVars
     \/ pc[r] = "reserving" /\ CancelFuture(Reserve(r)) /\ UNCHANGED scienceVars
     \/ pc[r] = "reading" /\ UNCHANGED vars
     \/ pc[r] = "calculating" /\ Leave(r)
  /\ UNCHANGED <<slots, delegate, found, reserved, charges, reply>>

\* CancelledError passes every except clause, and finally returns the slot.
Cancel(r) ==
  /\ MayCancel /\ pc[r] \in Awaits
  /\ pc' = [pc EXCEPT ![r] = "cancelled"]
  /\ slots' = slots + 1
  /\ \/ pc[r] = "authenticating" /\ CancelFuture(Auth(r)) /\ UNCHANGED scienceVars
     \/ pc[r] = "reserving" /\ CancelFuture(Reserve(r)) /\ UNCHANGED scienceVars
     \/ pc[r] = "reading" /\ UNCHANGED vars
     \/ pc[r] = "calculating" /\ Leave(r)
  /\ UNCHANGED <<delegate, found, reserved, charges, reply>>
-----------------------------------------------------------------------------
(* The threads of authenticate and reserve_quota.                          *)

Begin(task) == Take(task) /\ UNCHANGED <<scienceVars, handlerVars>>

\* Variant: an exception of the thread is lost.
AuthenticateLosing(r) ==
  /\ Auth(r) \in running
  /\ Return(Auth(r))
  /\ \E result \in {"key", "denied", "none"} : found' = [found EXCEPT ![r] = result]
  /\ UNCHANGED <<scienceVars, delegate, slots, pc, reserved, charges, reply>>

Authenticate(r) ==
  /\ Auth(r) \in running
  /\ Return(Auth(r))
  /\ \E result \in {"key", "denied", "fault"} : found' = [found EXCEPT ![r] = result]
  /\ UNCHANGED <<scienceVars, delegate, slots, pc, reserved, charges, reply>>

ReserveQuota(r) ==
  /\ Reserve(r) \in running
  /\ Return(Reserve(r))
  /\ \/ /\ Cardinality(charges) < PerMinute
        /\ charges' = charges \cup {r}
        /\ reserved' = [reserved EXCEPT ![r] = "granted"]
     \/ /\ Cardinality(charges) >= PerMinute
        /\ reserved' = [reserved EXCEPT ![r] = "refused"]
        /\ UNCHANGED charges
     \/ reserved' = [reserved EXCEPT ![r] = "fault"] /\ UNCHANGED charges
  /\ UNCHANGED <<scienceVars, delegate, slots, pc, found, reply>>

SkipCancelled == Skip /\ UNCHANGED <<scienceVars, handlerVars>>

Thread(r) == \/ Begin(Auth(r)) \/ Authenticate(r)
             \/ Begin(Reserve(r)) \/ ReserveQuota(r)
             \/ Work(r) /\ UNCHANGED handlerVars

Handle(r) == \/ Authenticated(r) \/ Reserved(r) \/ BodyRead(r)
             \/ Calculated(r) \/ DeadlinePasses(r)

ApiNext == SkipCancelled \/ \E r \in Calls : Arrive(r) \/ Handle(r) \/ Cancel(r) \/ Thread(r)

\* Threads are scheduled; the loop resumes a handler whose await is over, and the
\* body and the calculation are awaited under a timeout.  Nothing forces an arrival
\* or a cancellation.
ApiFairness == /\ WF_apiVars(SkipCancelled)
               /\ \A r \in Calls : WF_apiVars(Thread(r)) /\ WF_apiVars(Handle(r))

ApiSpec == ApiInit /\ [][ApiNext]_apiVars /\ ApiFairness
-----------------------------------------------------------------------------
(* Every admission slot is either in the queue `slots` or held by exactly one     *)
(* handler between its get_nowait and its finally clause, on every early return,  *)
(* timeout and cancellation.                                                      *)
SlotsConserved == slots + Cardinality(Inside) = Slots

(* Zero work without right: a work item exists only for a request whose key was   *)
(* found, whose reservation is committed and whose service has a delegate, so the *)
(* quota of the minute bounds the calculations ever started.                      *)
WorkIsPaidFor ==
  /\ \A r \in Calls : work[r] # "none" =>
       found[r] = "key" /\ r \in charges /\ delegate = "science"
  /\ Cardinality({r \in Calls : work[r] # "none"}) <= PerMinute

(* A request refused for its credentials, version, media type or rate is not      *)
(* charged, then or later by a thread that outlives it; a success was charged and *)
(* is the answer of the request's own work item.                                  *)
RepliesMatchCharges ==
  \A r \in Calls :
    /\ reply[r][1] \in {401, 406, 415, 429} => r \notin charges
    /\ reply[r][1] = 200 => r \in charges /\ work[r] = "done" /\ outcome[r] = "ok"

(* The pool's backlog: items waiting or running are bounded by the slots plus the *)
(* calculations whose waiters have left, plus one item per cancelled handler.     *)
BacklogBounded ==
  Len(queue) + Cardinality(running) <=
    Slots + Capacity + Cardinality({r \in Calls : pc[r] = "cancelled"})

(* Every request that takes a slot is answered, unless the server cancels it.     *)
RequestsEnd == \A r \in Calls : pc[r] \in Awaits ~> pc[r] \in {"replied", "cancelled"}

(* Once requests stop, all admission slots and all permits are back, however the  *)
(* requests ended.                                                                *)
SlotsReturn == <>[](slots = Slots /\ free = Capacity /\ nativeFree = NativeCapacity)
=============================================================================
