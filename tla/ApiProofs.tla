----------------------------- MODULE ApiProofs -----------------------------
(***************************************************************************)
(* The pipeline alone, and the handler composed with it.                   *)
(*                                                                         *)
(* What Science keeps true for any set of calls and any capacities:        *)
(* TypeInv needs no assumption on submits that raise and carries the       *)
(* native bound.  TokenInv assumes that a submit that raises leaves no     *)
(* item behind (~StrayStart) and carries the permits of _capacity; the     *)
(* native permits can then never run out.                                  *)
(*                                                                         *)
(* What Api keeps true for any number of requests, slots, permits, threads *)
(* and any limit, with cancellations at every await: ApiInv rests on the   *)
(* identity of work items.  Each waits or runs at most once (ItemsOnce),   *)
(* so a thread reports once, to the handler that queued it, and never      *)
(* after that handler has replied (Sound).                                 *)
(***************************************************************************)
EXTENDS Api, FiniteSetTheorems, TLAPS

(* The first pass is started by an item that has started none, a second only by   *)
(* the item of a Lahiri call.                                                     *)
PassesFollowWork ==
  \A c \in Calls :
    /\ work[c] \in {"none", "queued", "resolve"} => passes[c] = 0
    /\ work[c] = "spawn" => passes[c] = 0 \/ (c \in LahiriCalls /\ passes[c] = 1)

(* A coroutine that has not submitted has no item and no answer.                  *)
IdleIsFresh == \A c \in Calls : waiter[c] = "idle" => work[c] = "none" /\ answer[c] = "none"

TypeInv == TypeOK /\ NativeConserved /\ PassesFollowWork /\ IdleIsFresh

TokenInv == /\ TypeInv
            /\ stray = {}
            /\ TokensConserved
            /\ NativeNeverBusy
-----------------------------------------------------------------------------
(* The wire codes a step can store are results.                                   *)
LEMMA CodesAreResults ==
  /\ \A f \in DOMAIN WireCode : WireCode[f] \in Results
  /\ {"ok", "internal_error", "invalid_result"} \subseteq Results
<1>1. \A f \in DOMAIN WireCode : WireCode[f] \in Codes
  BY DEF Codes
<1>2. /\ "async_context" \in DOMAIN WireCode
      /\ WireCode["async_context"] = "internal_error"
      /\ "invalid_result" \in DOMAIN WireCode
      /\ WireCode["invalid_result"] = "invalid_result"
  BY DEF WireCode
<1> QED BY <1>1, <1>2 DEF Results

(* Only the adapter's own category is answered as busy.                           *)
LEMMA OnlyBusyIsBusy ==
  /\ "busy" \in DOMAIN WireCode /\ WireCode["busy"] = "busy"
  /\ \A f \in DOMAIN WireCode \ {"busy"} : WireCode[f] # "busy"
BY DEF WireCode

(* Sets of calls are finite, and their size changes by one with one call.         *)
LEMMA SetsOfCalls ==
  ASSUME NEW S, S \subseteq Calls
  PROVE  /\ IsFiniteSet(S) /\ Cardinality(S) \in Nat
         /\ \A c \in S : Cardinality(S \ {c}) = Cardinality(S) - 1
         /\ \A c \in Calls \ S : Cardinality(S \cup {c}) = Cardinality(S) + 1
<1>1. IsFiniteSet(S)
  BY ScienceAssumption, FS_Subset
<1> QED BY <1>1, FS_AddElement, FS_RemoveElement, FS_CardinalityType
-----------------------------------------------------------------------------
(* A step that leaves the set of native items alone leaves their count.           *)
LEMMA NativeFrame ==
  ASSUME NativeConserved, nativeFree' = nativeFree,
         \A c \in Calls : work'[c] = "native" <=> work[c] = "native"
  PROVE  NativeConserved'
<1>1. Native' = Native
  BY DEF Native
<1> QED BY <1>1 DEF NativeConserved

(* TypeInv holds initially.                                                       *)
LEMMA InitTypeInv == Init => TypeInv
<1> SUFFICES ASSUME Init PROVE TypeInv
  OBVIOUS
<1> USE DEF Init, ExecutorInit, ScienceInit
<1>1. TypeOK
  BY ScienceAssumption DEF TypeOK, ExecutorTypeOK, WorkStates
<1>2. NativeConserved
  <2>1. Native = {}
    BY DEF Native
  <2> QED BY <2>1, FS_EmptySet, ScienceAssumption DEF NativeConserved
<1>3. PassesFollowWork
  BY DEF PassesFollowWork
<1>4. IdleIsFresh
  BY DEF IdleIsFresh
<1> QED BY <1>1, <1>2, <1>3, <1>4 DEF TypeInv

(* TypeInv is preserved by every step of _submit, of the pool and of the adapter. *)
LEMMA NextTypeInv == TypeInv /\ [Next]_vars => TypeInv'
<1> SUFFICES ASSUME TypeInv, [Next]_vars PROVE TypeInv'
  OBVIOUS
<1> USE ScienceAssumption
<1>p. TypeOK /\ NativeConserved /\ PassesFollowWork /\ IdleIsFresh
  BY DEF TypeInv
<1>0. CASE UNCHANGED vars
  <2> USE <1>0 DEF vars, executorVars, scienceVars, semaphores
  <2>1. TypeOK'
    BY <1>p DEF TypeOK, ExecutorTypeOK
  <2>2. NativeConserved'
    BY <1>p, NativeFrame
  <2>3. PassesFollowWork' /\ IdleIsFresh'
    BY <1>p DEF PassesFollowWork, IdleIsFresh
  <2> QED BY <2>1, <2>2, <2>3 DEF TypeInv
<1>1. ASSUME NEW c \in Calls, waiter[c] = "idle", Admit(c)
      PROVE  TypeInv'
  <2> USE <1>1 DEF Admit, Enqueue
  <2>0. work[c] = "none" /\ passes[c] = 0
    BY <1>p DEF IdleIsFresh, PassesFollowWork
  <2>1. TypeOK'
    <3>1. queue' \in Seq(Tasks)
      BY <1>p DEF TypeOK, ExecutorTypeOK
    <3>2. free' \in 0..Capacity
      BY <1>p DEF TypeOK
    <3> QED BY <3>1, <3>2, <1>p DEF TypeOK, ExecutorTypeOK, WorkStates
  <2>2. NativeConserved'
    <3>1. \A d \in Calls : work'[d] = "native" <=> work[d] = "native"
      BY <2>0, <1>p DEF TypeOK
    <3> QED BY <3>1, <1>p, NativeFrame
  <2>3. PassesFollowWork' /\ IdleIsFresh'
    BY <2>0, <1>p DEF PassesFollowWork, IdleIsFresh, TypeOK
  <2> QED BY <2>1, <2>2, <2>3 DEF TypeInv
<1>2. ASSUME NEW c \in Calls, waiter[c] = "idle", Refuse(c)
      PROVE  TypeInv'
  <2> USE <1>2 DEF Refuse, Give, executorVars, semaphores
  <2>1. TypeOK'
    BY <1>p, CodesAreResults, OnlyBusyIsBusy DEF TypeOK, ExecutorTypeOK
  <2>2. NativeConserved'
    BY <1>p, NativeFrame
  <2>3. PassesFollowWork' /\ IdleIsFresh'
    BY <1>p DEF PassesFollowWork, IdleIsFresh, TypeOK
  <2> QED BY <2>1, <2>2, <2>3 DEF TypeInv
<1>3. ASSUME NEW c \in Calls, waiter[c] = "idle", SubmitFails(c)
      PROVE  TypeInv'
  <2> USE <1>3 DEF SubmitFails, Give, Enqueue, executorVars, semaphores
  <2>0. work[c] = "none" /\ passes[c] = 0
    BY <1>p DEF IdleIsFresh, PassesFollowWork
  <2>1. TypeOK'
    <3>1. queue' \in Seq(Tasks)
      BY <1>p DEF TypeOK, ExecutorTypeOK
    <3>2. work' \in [Calls -> WorkStates] /\ stray' \subseteq Calls
      BY <1>p DEF TypeOK, WorkStates
    <3> QED BY <3>1, <3>2, <1>p, CodesAreResults DEF TypeOK, ExecutorTypeOK
  <2>2. NativeConserved'
    <3>1. \A d \in Calls : work'[d] = "native" <=> work[d] = "native"
      BY <2>0, <1>p DEF TypeOK
    <3> QED BY <3>1, <1>p, NativeFrame
  <2>3. PassesFollowWork' /\ IdleIsFresh'
    BY <2>0, <1>p DEF PassesFollowWork, IdleIsFresh, TypeOK
  <2> QED BY <2>1, <2>2, <2>3 DEF TypeInv
<1>4. ASSUME NEW c \in Calls, Deliver(c) \/ Leave(c)
      PROVE  TypeInv'
  <2> USE <1>4 DEF Deliver, Leave, Give, executorVars, semaphores
  <2>1. TypeOK'
    BY <1>p DEF TypeOK, ExecutorTypeOK
  <2>2. NativeConserved'
    BY <1>p, NativeFrame
  <2>3. PassesFollowWork' /\ IdleIsFresh'
    BY <1>p DEF PassesFollowWork, IdleIsFresh, TypeOK
  <2> QED BY <2>1, <2>2, <2>3 DEF TypeInv
<1>5. ASSUME NEW c \in Calls, Start(c) \/ Resolve(c) \/ Release(c)
      PROVE  TypeInv'
  <2> USE <1>5 DEF Start, Resolve, Release, Take, Return, Goto, Finish, executorVars, semaphores
  <2>0. waiter[c] # "idle"
    BY <1>p DEF IdleIsFresh
  <2>1. TypeOK'
    <3>1. queue' \in Seq(Tasks)
      <4>1. queue \in Seq(Tasks)
        BY <1>p DEF TypeOK, ExecutorTypeOK
      <4>2. CASE Start(c)
        BY <4>1, <4>2
      <4>3. CASE Resolve(c) \/ Release(c)
        BY <4>1, <4>3
      <4> QED BY <1>5, <4>2, <4>3
    <3>2. running' \subseteq Tasks
      BY <1>p DEF TypeOK, ExecutorTypeOK
    <3>3. free' \in 0..Capacity
      BY <1>p DEF TypeOK
    <3>4. outcome' \in [Calls -> Results \cup {"none"}]
      BY <1>p, CodesAreResults DEF TypeOK
    <3> QED BY <3>1, <3>2, <3>3, <3>4, <1>p DEF TypeOK, ExecutorTypeOK, WorkStates
  <2>2. NativeConserved'
    <3>1. \A d \in Calls : work'[d] = "native" <=> work[d] = "native"
      BY <1>p DEF TypeOK
    <3> QED BY <3>1, <1>p, NativeFrame
  <2>3. PassesFollowWork' /\ IdleIsFresh'
    BY <2>0, <1>p DEF PassesFollowWork, IdleIsFresh, TypeOK
  <2> QED BY <2>1, <2>2, <2>3 DEF TypeInv
<1>6. ASSUME NEW c \in Calls, Spawn(c)
      PROVE  TypeInv'
  <2> USE <1>6 DEF Spawn, Goto, Finish, executorVars
  <2>0. waiter[c] # "idle"
    BY <1>p DEF IdleIsFresh
  <2>1. passes[c] \in 0..1
    BY <1>p DEF PassesFollowWork, TypeOK
  <2>2. TypeOK'
    <3>1. nativeFree' \in 0..NativeCapacity
      BY <1>p DEF TypeOK
    <3>2. passes' \in [Calls -> 0..2]
      BY <2>1, <1>p DEF TypeOK
    <3>3. outcome' \in [Calls -> Results \cup {"none"}]
      BY <1>p, CodesAreResults, OnlyBusyIsBusy DEF TypeOK
    <3> QED BY <3>1, <3>2, <3>3, <1>p DEF TypeOK, ExecutorTypeOK, WorkStates
  <2>3. NativeConserved'
    <3>1. CASE nativeFree = 0
      <4>1. \A d \in Calls : work'[d] = "native" <=> work[d] = "native"
        BY <3>1, <1>p DEF TypeOK
      <4> QED BY <4>1, <3>1, <1>p, NativeFrame
    <3>2. CASE nativeFree > 0
      <4>1. c \notin Native /\ Native \subseteq Calls /\ Native' = Native \cup {c}
        BY <3>2, <1>p DEF Native, TypeOK
      <4>2. Cardinality(Native') = Cardinality(Native) + 1 /\ Cardinality(Native) \in Nat
        BY <4>1, SetsOfCalls
      <4> QED BY <3>2, <4>2, <1>p DEF NativeConserved, TypeOK
    <3> QED BY <3>1, <3>2, <1>p DEF TypeOK
  <2>4. PassesFollowWork' /\ IdleIsFresh'
    BY <2>0, <1>p DEF PassesFollowWork, IdleIsFresh, TypeOK
  <2> QED BY <2>2, <2>3, <2>4 DEF TypeInv
<1>7. ASSUME NEW c \in Calls, NativeEnds(c)
      PROVE  TypeInv'
  <2> USE <1>7 DEF NativeEnds, Goto, Finish, executorVars
  <2>0. waiter[c] # "idle"
    BY <1>p DEF IdleIsFresh
  <2>1. /\ c \in Native /\ Native \subseteq Calls /\ Native' = Native \ {c}
    BY <1>p DEF Native, TypeOK, MorePasses
  <2>2. /\ Cardinality(Native') = Cardinality(Native) - 1
        /\ Cardinality(Native') \in Nat /\ Cardinality(Native) \in Nat
    BY <2>1, SetsOfCalls
  <2>3. NativeConserved' /\ nativeFree' \in 0..NativeCapacity
    BY <2>2, <1>p DEF NativeConserved, TypeOK
  <2>4. TypeOK'
    <3>1. outcome' \in [Calls -> Results \cup {"none"}]
      BY <1>p, CodesAreResults DEF TypeOK
    <3> QED BY <3>1, <2>3, <1>p DEF TypeOK, ExecutorTypeOK, WorkStates
  <2>5. PassesFollowWork' /\ IdleIsFresh'
    BY <2>0, <1>p DEF PassesFollowWork, IdleIsFresh, TypeOK, MorePasses
  <2> QED BY <2>3, <2>4, <2>5 DEF TypeInv
<1> QED BY <1>0, <1>1, <1>2, <1>3, <1>4, <1>5, <1>6, <1>7 DEF Next, Submit, Work

(* The types of module Science, for any calls, capacities and submits.            *)
THEOREM TypeCorrect == Spec => []TypeOK
<1>1. TypeInv => TypeOK
  BY DEF TypeInv
<1> QED BY <1>1, InitTypeInv, NextTypeInv, PTL DEF Spec

(* The native permits are conserved, so never more than NativeCapacity processes  *)
(* live, even if submits that raise leave items behind.                           *)
THEOREM NativeBounded == Spec => []NativeConserved
<1>1. TypeInv => NativeConserved
  BY DEF TypeInv
<1> QED BY <1>1, InitTypeInv, NextTypeInv, PTL DEF Spec
-----------------------------------------------------------------------------
(* What an answer costs.                                                   *)

\* A result is there only at the end, and says how many native processes it took.
OutcomeEarned(c) ==
  /\ work[c] = "native" => passes[c] = 1 \/ (c \in LahiriCalls /\ passes[c] = 2)
  /\ outcome[c] = "ok" => /\ work[c] \in {"finish", "done"}
                          /\ passes[c] = IF c \in LahiriCalls THEN 2 ELSE 1
  /\ outcome[c] \in Unresolved => work[c] \in {"finish", "done"} /\ passes[c] = 0

\* A waiter is answered with the outcome of its item, or has been refused.
AnswerEarned(c) ==
  waiter[c] = "answered" => \/ answer[c] \in {"busy", "internal_error"}
                            \/ work[c] = "done" /\ answer[c] = outcome[c]

EarnInv == TypeInv /\ \A c \in Calls : OutcomeEarned(c) /\ AnswerEarned(c)

(* The codes of a place or a time that does not resolve.                          *)
LEMMA UnresolvedCodes ==
  Unresolved = {"boundary_boundary", "boundary_ambiguous", "boundary_no_match",
                "invalid_fold", "civil_ambiguous", "civil_nonexistent"}
BY DEF Unresolved, WireCode

(* No code is a success.                                                          *)
LEMMA CodesAreNotOk == \A f \in DOMAIN WireCode : WireCode[f] # "ok" /\ WireCode[f] # "none"
BY DEF WireCode

(* EarnInv is preserved when no native fault looks like an unresolved request.    *)
LEMMA NextEarnInv ==
  ASSUME \A f \in NativeFaults : WireCode[f] \notin Unresolved,
         EarnInv, [Next]_vars
  PROVE  EarnInv'
<1> USE ScienceAssumption
<1>t. TypeInv'
  BY NextTypeInv DEF EarnInv
<1>p. /\ TypeOK /\ PassesFollowWork /\ IdleIsFresh
      /\ \A c \in Calls : OutcomeEarned(c) /\ AnswerEarned(c)
  BY DEF EarnInv, TypeInv
<1>f. ASSUME NEW d \in Calls, work'[d] = work[d], passes'[d] = passes[d],
             outcome'[d] = outcome[d], waiter'[d] = waiter[d], answer'[d] = answer[d]
      PROVE  OutcomeEarned(d)' /\ AnswerEarned(d)'
  BY <1>p, <1>f DEF OutcomeEarned, AnswerEarned
<1>0. CASE UNCHANGED vars
  BY <1>0, <1>t, <1>f DEF EarnInv, vars, scienceVars
<1>1. ASSUME NEW c \in Calls, waiter[c] = "idle", Admit(c) \/ Refuse(c) \/ SubmitFails(c)
      PROVE  EarnInv'
  <2> USE <1>1 DEF Admit, Refuse, SubmitFails, Give
  <2>1. ASSUME NEW d \in Calls \ {c}
        PROVE  /\ work'[d] = work[d] /\ passes'[d] = passes[d] /\ outcome'[d] = outcome[d]
               /\ waiter'[d] = waiter[d] /\ answer'[d] = answer[d]
    BY <1>p DEF TypeOK
  <2>2. work[c] = "none" /\ work'[c] \in {"none", "queued"} /\ outcome' = outcome
    BY <1>p DEF IdleIsFresh, TypeOK
  <2>3. OutcomeEarned(c)'
    BY <2>2, <1>p, UnresolvedCodes DEF OutcomeEarned
  <2>4. AnswerEarned(c)'
    BY <1>p, OnlyBusyIsBusy DEF AnswerEarned, TypeOK
  <2> QED BY <2>1, <2>3, <2>4, <1>f, <1>t DEF EarnInv
<1>2. ASSUME NEW c \in Calls, Deliver(c) \/ Leave(c)
      PROVE  EarnInv'
  <2> USE <1>2 DEF Deliver, Leave, Give
  <2>1. ASSUME NEW d \in Calls \ {c}
        PROVE  /\ work'[d] = work[d] /\ passes'[d] = passes[d] /\ outcome'[d] = outcome[d]
               /\ waiter'[d] = waiter[d] /\ answer'[d] = answer[d]
    BY <1>p DEF TypeOK
  <2>2. OutcomeEarned(c)'
    BY <1>p DEF OutcomeEarned
  <2>3. AnswerEarned(c)'
    BY <1>p DEF AnswerEarned, TypeOK
  <2> QED BY <2>1, <2>2, <2>3, <1>f, <1>t DEF EarnInv
<1>3. ASSUME NEW c \in Calls, Work(c)
      PROVE  EarnInv'
  <2>1. ASSUME NEW d \in Calls \ {c}
        PROVE  /\ work'[d] = work[d] /\ passes'[d] = passes[d] /\ outcome'[d] = outcome[d]
               /\ waiter'[d] = waiter[d] /\ answer'[d] = answer[d]
    BY <1>3, <1>p DEF Work, Start, Resolve, Spawn, NativeEnds, Release, Goto, Finish, TypeOK
  <2>2. work[c] \notin {"none", "done"} /\ waiter' = waiter /\ answer' = answer
    BY <1>3, <1>p DEF Work, Start, Resolve, Spawn, NativeEnds, Release
  <2>3. AnswerEarned(c)'
    BY <2>2, <1>p DEF AnswerEarned
  <2>4. OutcomeEarned(c)'
    <3>1. CASE Start(c)
      BY <3>1, <1>p DEF Start, Goto, OutcomeEarned, TypeOK
    <3>2. CASE Resolve(c)
      <4>1. passes' = passes /\ passes[c] = 0 /\ work[c] = "resolve"
        BY <3>2, <1>p DEF Resolve, PassesFollowWork
      <4>2. CASE Goto(c, "spawn") /\ UNCHANGED outcome
        BY <4>1, <4>2, <1>p DEF Goto, OutcomeEarned, TypeOK
      <4>3. ASSUME NEW f \in ResolveFaults, Finish(c, WireCode[f])
            PROVE  OutcomeEarned(c)'
        BY <4>1, <4>3, <1>p, CodesAreNotOk DEF Finish, Goto, OutcomeEarned, TypeOK
      <4> QED BY <3>2, <4>2, <4>3 DEF Resolve
    <3>3. CASE Spawn(c)
      BY <3>3, <1>p, OnlyBusyIsBusy, UnresolvedCodes
      DEF Spawn, Goto, Finish, OutcomeEarned, PassesFollowWork, TypeOK
    <3>4. CASE NativeEnds(c)
      <4>1. /\ passes' = passes /\ work[c] = "native"
            /\ passes[c] = 1 \/ (c \in LahiriCalls /\ passes[c] = 2)
        BY <3>4, <1>p DEF NativeEnds, OutcomeEarned
      <4>2. ASSUME NEW f \in NativeFaults, Finish(c, WireCode[f])
            PROVE  OutcomeEarned(c)'
        BY <4>1, <4>2, <1>p, CodesAreNotOk DEF Finish, Goto, OutcomeEarned, TypeOK
      <4>3. CASE Goto(c, "spawn") /\ UNCHANGED outcome
        BY <4>1, <4>3, <1>p DEF Goto, OutcomeEarned, TypeOK
      <4>4. CASE ~MorePasses(c) /\ Finish(c, "ok")
        BY <4>1, <4>4, <1>p, UnresolvedCodes
        DEF MorePasses, Finish, Goto, OutcomeEarned, TypeOK
      <4>5. CASE Finish(c, "invalid_result")
        BY <4>1, <4>5, <1>p, UnresolvedCodes DEF Finish, Goto, OutcomeEarned, TypeOK
      <4> QED BY <3>4, <4>2, <4>3, <4>4, <4>5 DEF NativeEnds
    <3>5. CASE Release(c)
      BY <3>5, <1>p, UnresolvedCodes DEF Release, Goto, OutcomeEarned, TypeOK
    <3> QED BY <1>3, <3>1, <3>2, <3>3, <3>4, <3>5 DEF Work
  <2> QED BY <2>1, <2>3, <2>4, <1>f, <1>t DEF EarnInv
<1> QED BY <1>0, <1>1, <1>2, <1>3 DEF Next, Submit

(* A success has run every native pass its profile needs; a request refused or    *)
(* not resolved has cost no native process, whatever submits that raise do.       *)
THEOREM AnswersAreEarned ==
  ASSUME \A f \in NativeFaults : WireCode[f] \notin Unresolved
  PROVE  Spec => []AnswersEarned
<1>1. Init => EarnInv
  BY InitTypeInv, UnresolvedCodes
  DEF Init, ScienceInit, EarnInv, OutcomeEarned, AnswerEarned
<1>2. EarnInv /\ [Next]_vars => EarnInv'
  BY NextEarnInv
<1>3. EarnInv => AnswersEarned
  <2> SUFFICES ASSUME EarnInv, NEW c \in Calls, waiter[c] = "answered"
               PROVE  /\ answer[c] = "ok" => /\ work[c] = "done"
                                             /\ passes[c] = IF c \in LahiriCalls THEN 2 ELSE 1
                      /\ answer[c] \in Unresolved => passes[c] = 0
                      /\ work[c] = "none" => /\ passes[c] = 0
                                             /\ answer[c] \in {"busy", "internal_error"}
    BY DEF AnswersEarned
  <2> QED BY UnresolvedCodes
          DEF EarnInv, TypeInv, PassesFollowWork, OutcomeEarned, AnswerEarned
<1> QED BY <1>1, <1>2, <1>3, PTL DEF Spec
-----------------------------------------------------------------------------
(* From here on a submit that raises leaves no item behind.                       *)

(* A step that leaves the set of admitted items and `free` alone keeps their sum. *)
LEMMA TokenFrame ==
  ASSUME TokensConserved, free' = free, stray' = stray,
         \A c \in Calls : work'[c] \in Live <=> work[c] \in Live
  PROVE  TokensConserved'
<1>1. Holders' = Holders
  BY DEF Holders
<1> QED BY <1>1 DEF TokensConserved

(* TokenInv holds initially.                                                      *)
LEMMA InitTokenInv == Init => TokenInv
<1> SUFFICES ASSUME Init PROVE TokenInv
  OBVIOUS
<1> USE DEF Init, ScienceInit
<1>1. Holders = {}
  BY DEF Holders, Live
<1>2. TokensConserved
  BY <1>1, FS_EmptySet, ScienceAssumption DEF TokensConserved
<1> QED BY <1>2, InitTypeInv DEF TokenInv, NativeNeverBusy

(* While some admitted item is about to take a native permit, one is left: native *)
(* items are admitted items, and their number is below that of the permits.       *)
LEMMA NativePermitLeft ==
  ASSUME TokenInv, NEW c \in Calls, work[c] = "spawn"
  PROVE  nativeFree > 0
<1> USE DEF TokenInv, TypeInv
<1>1. /\ Native \subseteq Holders \ {c} /\ c \in Holders
      /\ Holders \subseteq Calls /\ IsFiniteSet(Holders \ {c})
  BY SetsOfCalls DEF Native, Holders, Live
<1>2. /\ Cardinality(Native) <= Cardinality(Holders \ {c})
      /\ Cardinality(Holders \ {c}) = Cardinality(Holders) - 1
  BY <1>1, FS_Subset, SetsOfCalls
<1>3. Cardinality(Native) \in Nat /\ Cardinality(Holders) \in Nat
  BY SetsOfCalls DEF Native, Holders
<1> QED BY <1>2, <1>3, ScienceAssumption DEF TokensConserved, NativeConserved, TypeOK

(* TokenInv is preserved by every step of _submit, of the pool and of the adapter. *)
LEMMA NextTokenInv == ~StrayStart /\ TokenInv /\ [Next]_vars => TokenInv'
<1> SUFFICES ASSUME ~StrayStart, TokenInv, [Next]_vars PROVE TokenInv'
  OBVIOUS
<1> USE ScienceAssumption
<1>p. TypeOK /\ IdleIsFresh /\ stray = {} /\ TokensConserved /\ NativeNeverBusy
  BY DEF TokenInv, TypeInv
<1>t. TypeInv'
  BY NextTypeInv DEF TokenInv
<1>h. Holders \subseteq Calls
  BY DEF Holders
<1>0. CASE UNCHANGED vars
  <2> USE <1>0 DEF vars, scienceVars, semaphores
  <2>1. TokensConserved'
    BY <1>p, TokenFrame
  <2> QED BY <2>1, <1>t, <1>p DEF TokenInv, NativeNeverBusy
<1>1. ASSUME NEW c \in Calls, waiter[c] = "idle", Admit(c)
      PROVE  TokenInv'
  <2> USE <1>1 DEF Admit
  <2>1. c \notin Holders /\ Holders' = Holders \cup {c}
    BY <1>p DEF Holders, Live, IdleIsFresh, TypeOK
  <2>2. Cardinality(Holders') = Cardinality(Holders) + 1 /\ Cardinality(Holders) \in Nat
    BY <2>1, <1>h, SetsOfCalls
  <2>3. TokensConserved'
    BY <2>2, <1>p DEF TokensConserved, TypeOK
  <2> QED BY <2>3, <1>t, <1>p DEF TokenInv, NativeNeverBusy
<1>2. ASSUME NEW c \in Calls, Refuse(c) \/ SubmitFails(c) \/ Deliver(c) \/ Leave(c)
      PROVE  TokenInv'
  <2> USE <1>2 DEF Refuse, SubmitFails, Deliver, Leave, semaphores
  <2>1. TokensConserved'
    BY <1>p, TokenFrame
  <2> QED BY <2>1, <1>t, <1>p DEF TokenInv, NativeNeverBusy
<1>3. ASSUME NEW c \in Calls, Start(c) \/ Resolve(c) \/ NativeEnds(c)
      PROVE  TokenInv'
  <2> USE <1>3 DEF Start, Resolve, NativeEnds, Goto, Finish, semaphores
  <2>1. TokensConserved'
    <3>1. \A d \in Calls : work'[d] \in Live <=> work[d] \in Live
      BY <1>p DEF TypeOK, Live
    <3> QED BY <3>1, <1>p, TokenFrame
  <2>2. NativeNeverBusy'
    <3>1. \A f \in ResolveFaults \cup NativeFaults : WireCode[f] # "busy"
      BY OnlyBusyIsBusy
    <3> QED BY <3>1, <1>p DEF NativeNeverBusy, TypeOK
  <2> QED BY <2>1, <2>2, <1>t, <1>p DEF TokenInv
<1>4. ASSUME NEW c \in Calls, Spawn(c)
      PROVE  TokenInv'
  <2> USE <1>4 DEF Spawn, Goto
  <2>1. nativeFree > 0
    BY NativePermitLeft
  <2>2. TokensConserved'
    <3>1. \A d \in Calls : work'[d] \in Live <=> work[d] \in Live
      BY <2>1, <1>p DEF TypeOK, Live
    <3> QED BY <3>1, <1>p, TokenFrame
  <2> QED BY <2>1, <2>2, <1>t, <1>p DEF TokenInv, NativeNeverBusy
<1>5. ASSUME NEW c \in Calls, Release(c)
      PROVE  TokenInv'
  <2> USE <1>5 DEF Release, Goto
  <2>1. c \in Holders /\ Holders' = Holders \ {c}
    BY <1>p DEF Holders, Live, TypeOK
  <2>2. /\ Cardinality(Holders') = Cardinality(Holders) - 1
        /\ Cardinality(Holders') \in Nat /\ Cardinality(Holders) \in Nat
    BY <2>1, <1>h, SetsOfCalls
  <2>3. free < Capacity
    BY <2>2, <1>p DEF TokensConserved, TypeOK
  <2>4. TokensConserved'
    BY <2>2, <2>3, <1>p DEF TokensConserved, TypeOK
  <2> QED BY <2>3, <2>4, <1>t, <1>p DEF TokenInv, NativeNeverBusy
<1> QED BY <1>0, <1>1, <1>2, <1>3, <1>4, <1>5 DEF Next, Submit, Work

(* The permits of _capacity are conserved: cancelled and timed-out waiters neither *)
(* leak nor return one.                                                           *)
THEOREM PermitsConserved ==
  ASSUME ~StrayStart
  PROVE  Spec => []TokensConserved
<1>1. TokenInv /\ [Next]_vars => TokenInv'
  BY NextTokenInv
<1>2. TokenInv => TokensConserved
  BY DEF TokenInv
<1> QED BY <1>1, <1>2, InitTokenInv, PTL DEF Spec

(* An admitted calculation never fails for want of a native permit.               *)
THEOREM NativeAlwaysAvailable ==
  ASSUME ~StrayStart
  PROVE  Spec => []NativeNeverBusy
<1>1. TokenInv /\ [Next]_vars => TokenInv'
  BY NextTokenInv
<1>2. TokenInv => NativeNeverBusy
  BY DEF TokenInv
<1> QED BY <1>1, <1>2, InitTokenInv, PTL DEF Spec
-----------------------------------------------------------------------------
(* BoundedWork's Cardinality is the one of this module.                           *)
LEMMA SameCardinality == \A S : Bounded!Cardinality(S) = Cardinality(S)
BY DEF Bounded!Cardinality, Cardinality

(* Every step of the service is a step of BoundedWork or leaves its state alone.  *)
LEMMA StepsAreBounded ==
  ASSUME ~StrayStart, TokenInv, TokenInv', [Next]_vars
  PROVE  [Bounded!Next]_(Bounded!workVars)
<1> USE ScienceAssumption
<1> DEFINE finished == {c \in Calls : work[c] = "done"}
           refused == {c \in Calls : answer[c] = "busy" /\ work[c] = "none"}
<1>p. /\ TypeOK /\ IdleIsFresh /\ stray = {} /\ TokensConserved
      /\ TypeOK' /\ stray' = {} /\ TokensConserved'
  BY DEF TokenInv, TypeInv
<1>s. ASSUME Holders' = Holders, finished' = finished, refused' = refused
      PROVE  UNCHANGED Bounded!workVars
  BY <1>s DEF Bounded!workVars
<1>h. Holders \subseteq Calls /\ Cardinality(Holders) \in Nat
  BY SetsOfCalls DEF Holders
<1>0. CASE UNCHANGED vars
  BY <1>0, <1>s DEF vars, scienceVars, semaphores, Holders
<1>1. ASSUME NEW c \in Calls, waiter[c] = "idle", Admit(c)
      PROVE  Bounded!Admit(c)
  <2> USE <1>1 DEF Admit
  <2>1. work[c] = "none" /\ answer[c] = "none"
    BY <1>p DEF IdleIsFresh
  <2>2. Bounded!Fresh(c)
    BY <2>1 DEF Bounded!Fresh, Holders, Live
  <2>3. Holders' = Holders \cup {c} /\ finished' = finished /\ refused' = refused
    BY <2>1, <1>p DEF Holders, Live, TypeOK
  <2>4. Cardinality(Holders) < Capacity
    BY <1>h, <1>p DEF TokensConserved, TypeOK
  <2> QED BY <2>2, <2>3, <2>4, SameCardinality DEF Bounded!Admit
<1>2. ASSUME NEW c \in Calls, waiter[c] = "idle", Refuse(c)
      PROVE  Bounded!Refuse(c)
  <2> USE <1>2 DEF Refuse, Give, semaphores
  <2>1. work[c] = "none" /\ answer[c] = "none"
    BY <1>p DEF IdleIsFresh
  <2>2. Bounded!Fresh(c)
    BY <2>1 DEF Bounded!Fresh, Holders, Live
  <2>3. Holders' = Holders /\ finished' = finished
    BY DEF Holders
  <2>4. refused' = refused \cup {c}
    BY <2>1, <1>p, OnlyBusyIsBusy DEF TypeOK
  <2>5. Cardinality(Holders) = Capacity
    BY <1>h, <1>p DEF TokensConserved, TypeOK
  <2> QED BY <2>2, <2>3, <2>4, <2>5, SameCardinality DEF Bounded!Refuse
<1>3. ASSUME NEW c \in Calls, waiter[c] = "idle", SubmitFails(c)
      PROVE  UNCHANGED Bounded!workVars
  <2> USE <1>3 DEF SubmitFails, Give, semaphores
  <2>1. work[c] = "none" /\ answer[c] = "none"
    BY <1>p DEF IdleIsFresh
  <2>2. Holders' = Holders /\ finished' = finished
    BY DEF Holders
  <2>3. refused' = refused
    BY <2>1, <1>p DEF TypeOK
  <2> QED BY <2>2, <2>3, <1>s
<1>4. ASSUME NEW c \in Calls, Deliver(c) \/ Leave(c)
      PROVE  UNCHANGED Bounded!workVars
  <2> USE <1>4 DEF Deliver, Leave, Give, semaphores
  <2>1. Holders' = Holders /\ finished' = finished
    BY DEF Holders
  <2>2. refused' = refused
    BY <1>p DEF TypeOK
  <2> QED BY <2>1, <2>2, <1>s
<1>5. ASSUME NEW c \in Calls, Start(c) \/ Resolve(c) \/ Spawn(c) \/ NativeEnds(c)
      PROVE  UNCHANGED Bounded!workVars
  <2> USE <1>5 DEF Start, Resolve, Spawn, NativeEnds, Goto, Finish, semaphores
  <2>1. Holders' = Holders
    BY <1>p DEF Holders, Live, TypeOK
  <2>2. finished' = finished /\ refused' = refused
    BY <1>p DEF TypeOK
  <2> QED BY <2>1, <2>2, <1>s
<1>6. ASSUME NEW c \in Calls, Release(c)
      PROVE  Bounded!Finish(c)
  <2> USE <1>6 DEF Release, Goto
  <2>1. c \in Holders /\ Holders' = Holders \ {c}
    BY <1>p DEF Holders, Live, TypeOK
  <2>2. finished' = finished \cup {c} /\ refused' = refused
    BY <1>p DEF TypeOK
  <2> QED BY <2>1, <2>2 DEF Bounded!Finish
<1> QED BY <1>0, <1>1, <1>2, <1>3, <1>4, <1>5, <1>6
        DEF Next, Submit, Work, Bounded!Next

(* The service implements the safety part of BoundedWork: never more than Capacity *)
(* active calculations, and none refused while a permit is free.                  *)
THEOREM ServiceIsBounded ==
  ASSUME ~StrayStart
  PROVE  Spec => Bounded!Init /\ [][Bounded!Next]_(Bounded!workVars)
<1>1. Init => Bounded!Init
  BY DEF Init, ScienceInit, Bounded!Init, Holders, Live
<1>2. TokenInv /\ [Next]_vars => TokenInv'
  BY NextTokenInv
<1>3. TokenInv /\ TokenInv' /\ [Next]_vars => [Bounded!Next]_(Bounded!workVars)
  BY StepsAreBounded
<1> QED BY <1>1, <1>2, <1>3, InitTokenInv, PTL DEF Spec
-----------------------------------------------------------------------------
\* The item waits in the queue or is executed.
Pending(t) == Waiting(t) \/ t \in running

ItemsOnce == /\ \A i, j \in DOMAIN queue : queue[i] = queue[j] => i = j
             /\ \A i \in DOMAIN queue : queue[i] \notin running

\* No item appears.
NoNewItems == \A t : Pending(t)' => Pending(t)

HandlerTypes ==
  /\ delegate \in {"science", "unavailable"}
  /\ slots \in Nat
  /\ pc \in [Calls -> Awaits \cup {"idle", "replied", "cancelled"}]
  /\ found \in [Calls -> {"none", "key", "denied", "fault"}]
  /\ reserved \in [Calls -> {"none", "granted", "refused", "fault"}]
  /\ charges \subseteq Calls
  /\ DOMAIN reply = Calls

\* The threads of a request report to a handler that still waits for them.
ThreadsSound(r) ==
  /\ Pending(Auth(r)) => found[r] = "none" /\ pc[r] \in {"authenticating", "cancelled"}
  /\ Pending(Reserve(r)) => /\ found[r] = "key" /\ reserved[r] = "none"
                            /\ pc[r] \in {"reserving", "cancelled"}
  /\ Pending(Task(r)) => work[r] # "none"

\* What a request has been granted when it has come as far as it has.
ProgressSound(r) ==
  /\ pc[r] = "idle" => found[r] = "none"
  /\ pc[r] \in {"idle", "authenticating"} => reserved[r] = "none"
  /\ pc[r] \in {"idle", "authenticating", "reserving", "reading"} => waiter[r] = "idle"
  /\ pc[r] \in {"reading", "calculating"} => reserved[r] = "granted"
  /\ reserved[r] # "none" => found[r] = "key"
  /\ r \in charges <=> reserved[r] = "granted"
  /\ work[r] # "none" => reserved[r] = "granted" /\ delegate = "science"
  /\ work[r] \in {"finish", "done"} => outcome[r] \in Results

ReplySound(r) ==
  /\ pc[r] # "replied" => reply[r] = <<0, "none">>
  /\ reply[r][1] \in {401, 406, 415, 429} => r \notin charges
  /\ reply[r][1] = 200 => r \in charges /\ work[r] = "done" /\ outcome[r] = "ok"

Sound(r) == ThreadsSound(r) /\ ProgressSound(r) /\ ReplySound(r)

ApiInv == /\ TypeInv
          /\ HandlerTypes
          /\ ItemsOnce
          /\ \A r \in Calls : Sound(r)
          /\ SlotsConserved
          /\ Cardinality(charges) <= PerMinute
-----------------------------------------------------------------------------
(* The pool.                                                               *)

(* An item that is queued for the first time is the only new one.                 *)
LEMMA EnqueueOnce ==
  ASSUME queue \in Seq(Tasks), ItemsOnce, NEW t \in Tasks, ~Pending(t), Enqueue(t)
  PROVE  /\ queue' \in Seq(Tasks)
         /\ ItemsOnce'
         /\ \A s : Pending(s)' <=> Pending(s) \/ s = t
<1> USE DEF Enqueue
<1>1. /\ queue' \in Seq(Tasks) /\ Len(queue') = Len(queue) + 1 /\ Len(queue) \in Nat
      /\ DOMAIN queue = 1..Len(queue) /\ DOMAIN queue' = 1..(Len(queue) + 1)
      /\ \A i \in 1..Len(queue) : queue'[i] = queue[i]
      /\ queue'[Len(queue) + 1] = t
  OBVIOUS
<1>2. ItemsOnce'
  BY <1>1 DEF ItemsOnce, Pending, Waiting
<1>3. ASSUME NEW s PROVE Pending(s)' <=> Pending(s) \/ s = t
  BY <1>1 DEF Pending, Waiting
<1> QED BY <1>1, <1>2, <1>3

(* Dropping the head of the queue keeps the rest in place.                        *)
LEMMA TailOfQueue ==
  ASSUME queue \in Seq(Tasks), queue # <<>>, queue' = Tail(queue)
  PROVE  /\ queue' \in Seq(Tasks) /\ Head(queue) \in Tasks
         /\ Head(queue) = queue[1] /\ 1 \in DOMAIN queue
         /\ \A i \in DOMAIN queue' : i + 1 \in DOMAIN queue /\ queue'[i] = queue[i + 1]
         /\ DOMAIN queue' \subseteq Nat /\ DOMAIN queue \subseteq Nat
         /\ \A i \in DOMAIN queue : i # 1 => i - 1 \in DOMAIN queue' /\ queue[i] = queue'[i - 1]
<1>1. Len(queue) \in Nat /\ Len(queue) > 0 /\ Len(queue') = Len(queue) - 1
  OBVIOUS
<1>2. DOMAIN queue = 1..Len(queue) /\ queue' \in Seq(Tasks) /\ DOMAIN queue' = 1..(Len(queue) - 1)
  BY <1>1
<1>3. \A i \in 1..(Len(queue) - 1) : queue'[i] = queue[i + 1]
  BY <1>1
<1> QED BY <1>1, <1>2, <1>3

(* A thread that takes or drops an item adds none.                                *)
LEMMA TakeOnce ==
  ASSUME queue \in Seq(Tasks), running \subseteq Tasks, ItemsOnce,
         NEW t, Take(t) \/ Skip
  PROVE  /\ queue' \in Seq(Tasks) /\ running' \subseteq Tasks
         /\ ItemsOnce' /\ NoNewItems
<1>1. queue # <<>> /\ queue' = Tail(queue)
  BY DEF Take, Skip
<1>2. queue' \in Seq(Tasks) /\ Head(queue) \in Tasks
  BY <1>1, TailOfQueue
<1>3. running' = running \/ running' = running \cup {Head(queue)}
  BY DEF Take, Skip
<1>4. ItemsOnce'
  <2>1. \A i, j \in DOMAIN queue' : queue'[i] = queue'[j] => i = j
    BY <1>1, TailOfQueue DEF ItemsOnce
  <2>2. \A i \in DOMAIN queue' : queue'[i] # queue[1]
    BY <1>1, TailOfQueue DEF ItemsOnce
  <2>3. \A i \in DOMAIN queue' : queue'[i] \notin running
    BY <1>1, TailOfQueue DEF ItemsOnce
  <2> QED BY <2>1, <2>2, <2>3, <1>1, <1>3, TailOfQueue DEF ItemsOnce
<1>5. NoNewItems
  BY <1>1, <1>3, TailOfQueue DEF NoNewItems, Pending, Waiting
<1> QED BY <1>2, <1>3, <1>4, <1>5

(* An item that returns is gone.                                                  *)
LEMMA ReturnOnce ==
  ASSUME ItemsOnce, NEW t, Return(t)
  PROVE  ItemsOnce' /\ NoNewItems /\ (t \in running => ~Pending(t)')
BY DEF Return, ItemsOnce, NoNewItems, Pending, Waiting

(* A step that leaves queue and threads alone.                                    *)
LEMMA PoolFrame ==
  ASSUME ItemsOnce, queue' = queue, running' = running
  PROVE  ItemsOnce' /\ NoNewItems
BY DEF ItemsOnce, NoNewItems, Pending, Waiting
-----------------------------------------------------------------------------
(* Frames.                                                                 *)

\* What a step of request r leaves alone of request d.
Untouched(d) ==
  /\ pc'[d] = pc[d] /\ found'[d] = found[d] /\ reserved'[d] = reserved[d]
  /\ reply'[d] = reply[d] /\ (d \in charges' <=> d \in charges)
  /\ work'[d] = work[d] /\ outcome'[d] = outcome[d] /\ waiter'[d] = waiter[d]
  /\ \A t \in {Auth(d), Reserve(d), Task(d)} : Pending(t)' => Pending(t)

(* A request that a step does not touch stays sound.                              *)
LEMMA SoundFrame ==
  ASSUME NEW d \in Calls, Sound(d), Untouched(d), delegate' = delegate
  PROVE  Sound(d)'
<1> USE DEF Untouched
<1>1. ThreadsSound(d)'
  BY DEF Sound, ThreadsSound
<1>2. ProgressSound(d)'
  BY DEF Sound, ProgressSound
<1>3. ReplySound(d)'
  BY DEF Sound, ReplySound
<1> QED BY <1>1, <1>2, <1>3 DEF Sound

(* The tasks of requests are different items.                                     *)
LEMMA TasksDiffer ==
  /\ \A r, d : Auth(r) # Reserve(d) /\ Auth(r) # Task(d) /\ Reserve(r) # Task(d)
  /\ \A r, d : r # d => Auth(r) # Auth(d) /\ Reserve(r) # Reserve(d) /\ Task(r) # Task(d)
BY DEF Auth, Reserve, Task

(* The invariant of module Science needs of the pool its types only.              *)
LEMMA ScienceFrame ==
  ASSUME TypeInv, UNCHANGED scienceVars, ExecutorTypeOK'
  PROVE  TypeInv'
<1> USE DEF scienceVars, semaphores
<1>p. TypeOK /\ NativeConserved /\ PassesFollowWork /\ IdleIsFresh
  BY DEF TypeInv
<1>1. TypeOK'
  BY <1>p DEF TypeOK
<1>2. NativeConserved'
  BY <1>p, NativeFrame
<1>3. PassesFollowWork' /\ IdleIsFresh'
  BY <1>p DEF PassesFollowWork, IdleIsFresh
<1> QED BY <1>1, <1>2, <1>3 DEF TypeInv

(* A request inside the service holds one slot.                                   *)
LEMMA SlotsFollow ==
  ASSUME HandlerTypes, SlotsConserved, NEW r \in Calls,
         pc' \in [Calls -> Awaits \cup {"idle", "replied", "cancelled"}],
         \A d \in Calls \ {r} : pc'[d] = pc[d],
         \/ (pc'[r] \in Awaits <=> pc[r] \in Awaits) /\ slots' = slots
         \/ pc[r] \in Awaits /\ pc'[r] \notin Awaits /\ slots' = slots + 1
         \/ slots > 0 /\ pc[r] \notin Awaits /\ pc'[r] \in Awaits /\ slots' = slots - 1
  PROVE  SlotsConserved' /\ slots' \in Nat
<1> USE DEF HandlerTypes
<1>0. Inside \subseteq Calls /\ Inside' \subseteq Calls /\ Cardinality(Inside) \in Nat
  BY SetsOfCalls DEF Inside
<1>1. CASE (pc'[r] \in Awaits <=> pc[r] \in Awaits) /\ slots' = slots
  <2>1. Inside' = Inside
    BY <1>1 DEF Inside
  <2> QED BY <2>1, <1>1 DEF SlotsConserved
<1>2. CASE pc[r] \in Awaits /\ pc'[r] \notin Awaits /\ slots' = slots + 1
  <2>1. r \in Inside /\ Inside' = Inside \ {r}
    BY <1>2 DEF Inside
  <2>2. Cardinality(Inside') = Cardinality(Inside) - 1
    BY <2>1, <1>0, SetsOfCalls
  <2> QED BY <2>2, <1>0, <1>2, ApiAssumption DEF SlotsConserved
<1>3. CASE slots > 0 /\ pc[r] \notin Awaits /\ pc'[r] \in Awaits /\ slots' = slots - 1
  <2>1. r \in Calls \ Inside /\ Inside' = Inside \cup {r}
    BY <1>3 DEF Inside
  <2>2. Cardinality(Inside') = Cardinality(Inside) + 1
    BY <2>1, <1>0, SetsOfCalls
  <2> QED BY <2>2, <1>0, <1>3, ApiAssumption DEF SlotsConserved
<1> QED BY <1>1, <1>2, <1>3

(* ApiInv holds initially.                                                        *)
LEMMA InitApiInv == ApiInit => ApiInv
<1> SUFFICES ASSUME ApiInit PROVE ApiInv
  OBVIOUS
<1> USE ApiAssumption DEF ApiInit
<1>1. TypeInv
  BY InitTypeInv
<1>2. HandlerTypes
  BY DEF HandlerTypes
<1>3. ItemsOnce /\ \A t : ~Pending(t)
  BY DEF Init, ExecutorInit, ItemsOnce, Pending, Waiting
<1>4. ASSUME NEW r \in Calls PROVE Sound(r)
  <2>1. ThreadsSound(r)
    BY <1>3 DEF ThreadsSound
  <2>2. ProgressSound(r)
    BY DEF ProgressSound, Init, ScienceInit
  <2>3. ReplySound(r)
    BY DEF ReplySound
  <2> QED BY <2>1, <2>2, <2>3 DEF Sound
<1>5. SlotsConserved
  <2>1. Inside = {}
    BY DEF Inside, Awaits
  <2> QED BY <2>1, FS_EmptySet DEF SlotsConserved
<1>6. Cardinality(charges) <= PerMinute
  BY FS_EmptySet
<1> QED BY <1>1, <1>2, <1>3, <1>4, <1>5, <1>6 DEF ApiInv
(* What a step of one request has to show.                                        *)
LEMMA StepOfOne ==
  ASSUME ApiInv, NEW r \in Calls,
         [Next]_vars \/ (UNCHANGED scienceVars /\ ExecutorTypeOK'),
         HandlerTypes', ItemsOnce', Sound(r)', delegate' = delegate,
         \A d \in Calls \ {r} : Untouched(d),
         \/ (pc'[r] \in Awaits <=> pc[r] \in Awaits) /\ slots' = slots
         \/ pc[r] \in Awaits /\ pc'[r] \notin Awaits /\ slots' = slots + 1
         \/ slots > 0 /\ pc[r] \notin Awaits /\ pc'[r] \in Awaits /\ slots' = slots - 1,
         charges' = charges \/ Cardinality(charges') <= PerMinute
  PROVE  ApiInv'
<1>1. TypeInv'
  BY NextTypeInv, ScienceFrame DEF ApiInv
<1>2. \A d \in Calls : Sound(d)'
  BY SoundFrame DEF ApiInv
<1>3. SlotsConserved'
  <2>1. \A d \in Calls \ {r} : pc'[d] = pc[d]
    BY DEF Untouched
  <2> QED BY <2>1, SlotsFollow DEF ApiInv, HandlerTypes
<1> QED BY <1>1, <1>2, <1>3 DEF ApiInv

(* The statuses of the replies.                                                   *)
LEMMA ReplyStatuses ==
  /\ \A answered \in PreFaults : answered[1] \in {503, 400, 413}
  /\ \A answered \in HeaderFaults : answered[1] \in {406, 415, 400, 413}
  /\ \A answered \in BodyFaults : answered[1] \in {413, 408, 400, 422, 500}
  /\ Busy[1] = 503 /\ InternalError[1] = 500 /\ StateUnavailable[1] = 503
<1>1. \A answered \in PreReplies : answered[1] \in {503, 400, 413}
  BY DEF PreReplies
<1>2. \A answered \in HeaderReplies : answered[1] \in {406, 415, 400, 413}
  BY DEF HeaderReplies
<1>3. \A answered \in BodyReplies : answered[1] \in {413, 408, 400, 422, 500}
  BY DEF BodyReplies, InternalError
<1> QED BY <1>1, <1>2, <1>3, ApiAssumption DEF Busy, InternalError, StateUnavailable

(* A calculation that fails is answered neither like a success nor like a refusal *)
(* that precedes the charge.                                                      *)
LEMMA AnswerStatuses ==
  ASSUME NEW result \in Results
  PROVE  /\ result = "ok" => Answer(result)[1] = 200
         /\ result # "ok" => Answer(result)[1] \in {422, 503, 500, 408}
<1>1. \A code \in DOMAIN Status : Status[code] \in {422, 503, 500, 408}
  BY DEF Status
<1> QED BY <1>1, ApiAssumption DEF Results, Answer
-----------------------------------------------------------------------------
(* What the pool and the science of one request may do.                    *)

PoolStep(r) ==
  /\ [Next]_vars \/ (UNCHANGED scienceVars /\ ExecutorTypeOK')
  /\ ItemsOnce'
  /\ \A t : Pending(t)' => Pending(t) \/ t = Task(r)
  /\ \A d \in Calls \ {r} : /\ work'[d] = work[d] /\ outcome'[d] = outcome[d]
                            /\ waiter'[d] = waiter[d]
  /\ Pending(Task(r))' => work'[r] # "none"
  /\ work'[r] # "none" => work[r] # "none" \/ (pc[r] = "reading" /\ delegate = "science")
  /\ work'[r] \in {"finish", "done"} => outcome'[r] \in Results
  /\ work[r] = "done" => work'[r] = "done" /\ outcome'[r] = outcome[r]
  /\ waiter[r] = "idle" /\ pc[r] # "reading" => waiter'[r] = "idle"

(* A step of the pool alone.                                                      *)
LEMMA PoolAlone ==
  ASSUME ApiInv, NEW r \in Calls, UNCHANGED scienceVars, ExecutorTypeOK', ItemsOnce', NoNewItems
  PROVE  PoolStep(r)
BY DEF PoolStep, ApiInv, Sound, ThreadsSound, ProgressSound, NoNewItems, scienceVars

(* Steps that leave queue and threads alone.                                      *)
LEMMA NothingMoves ==
  ASSUME ApiInv, NEW r \in Calls, UNCHANGED vars
  PROVE  PoolStep(r)
<1> USE DEF vars, executorVars
<1>1. ItemsOnce' /\ NoNewItems
  BY PoolFrame DEF ApiInv
<1>2. ExecutorTypeOK'
  BY DEF ApiInv, TypeInv, TypeOK, ExecutorTypeOK
<1> QED BY <1>1, <1>2, PoolAlone

(* The coroutine that submits, and is answered or leaves.                         *)
LEMMA WaiterSteps ==
  ASSUME ApiInv, NEW r \in Calls,
         \/ pc[r] = "reading" /\ delegate = "science" /\ (Admit(r) \/ Refuse(r) \/ SubmitFails(r))
         \/ Deliver(r) \/ Leave(r)
  PROVE  PoolStep(r)
<1>p. /\ TypeOK /\ ExecutorTypeOK /\ ItemsOnce /\ IdleIsFresh
      /\ ThreadsSound(r) /\ ProgressSound(r)
  BY DEF ApiInv, TypeInv, TypeOK, Sound
<1>1. CASE pc[r] = "reading" /\ delegate = "science" /\ (Admit(r) \/ Refuse(r) \/ SubmitFails(r))
  <2> USE <1>1
  <2>1. waiter[r] = "idle" /\ work[r] = "none" /\ ~Pending(Task(r)) /\ Task(r) \in Tasks
    BY <1>p, ScienceAssumption DEF ThreadsSound, ProgressSound, IdleIsFresh
  <2>2. [Next]_vars
    BY <2>1 DEF Next, Submit
  <2>3. \A d \in Calls \ {r} : /\ work'[d] = work[d] /\ outcome'[d] = outcome[d]
                               /\ waiter'[d] = waiter[d]
    BY <1>p DEF Admit, Refuse, SubmitFails, Give, TypeOK
  <2>4. work'[r] \in {"none", "queued"}
    BY <2>1, <1>p DEF Admit, Refuse, SubmitFails, TypeOK
  <2>5. CASE Enqueue(Task(r)) /\ work' = [work EXCEPT ![r] = "queued"]
    <3>1. ItemsOnce' /\ \A t : Pending(t)' <=> Pending(t) \/ t = Task(r)
      BY <2>1, <2>5, <1>p, EnqueueOnce DEF ExecutorTypeOK
    <3>2. work'[r] = "queued"
      BY <2>5, <1>p DEF TypeOK
    <3> QED BY <2>1, <2>2, <2>3, <3>1, <3>2 DEF PoolStep
  <2>6. CASE UNCHANGED executorVars
    <3>1. ItemsOnce' /\ NoNewItems
      BY <2>6, <1>p, PoolFrame DEF executorVars
    <3> QED BY <2>1, <2>2, <2>3, <2>4, <3>1 DEF PoolStep, NoNewItems
  <2> QED BY <2>5, <2>6 DEF Admit, Refuse, SubmitFails
<1>2. CASE Deliver(r) \/ Leave(r)
  <2> USE <1>2 DEF Deliver, Leave, Give
  <2>1. [Next]_vars
    BY DEF Next
  <2>2. ItemsOnce' /\ NoNewItems
    BY <1>p, PoolFrame DEF executorVars
  <2>3. work' = work /\ outcome' = outcome
    OBVIOUS
  <2>4. waiter[r] = "waiting" /\ \A d \in Calls \ {r} : waiter'[d] = waiter[d]
    BY <1>p DEF TypeOK
  <2> QED BY <2>1, <2>2, <2>3, <2>4, <1>p DEF PoolStep, NoNewItems, ThreadsSound, ProgressSound
<1> QED BY <1>1, <1>2

(* The thread that calculates: it never leaves "done", and ends with a result.    *)
LEMMA WorkSteps ==
  ASSUME ApiInv, NEW r \in Calls, Work(r)
  PROVE  PoolStep(r)
<1>p. /\ TypeOK /\ ExecutorTypeOK /\ ItemsOnce
      /\ ThreadsSound(r) /\ ProgressSound(r)
  BY DEF ApiInv, TypeInv, TypeOK, Sound
<1>n. [Next]_vars
  BY DEF Next
<1>w. /\ waiter' = waiter
      /\ \A d \in Calls \ {r} : work'[d] = work[d] /\ outcome'[d] = outcome[d]
  BY <1>p DEF Work, Start, Resolve, Spawn, NativeEnds, Release, Goto, Finish, TypeOK
<1>1. ItemsOnce' /\ NoNewItems
  <2>1. CASE Start(r)
    BY <2>1, <1>p, TakeOnce DEF Start, ExecutorTypeOK
  <2>2. CASE Resolve(r) \/ Spawn(r) \/ NativeEnds(r)
    BY <2>2, <1>p, PoolFrame DEF Resolve, Spawn, NativeEnds, executorVars
  <2>3. CASE Release(r)
    BY <2>3, <1>p, ReturnOnce DEF Release
  <2> QED BY <2>1, <2>2, <2>3 DEF Work
<1>2. work[r] \notin {"none", "done"} /\ work'[r] # "none"
  BY <1>p DEF Work, Start, Resolve, Spawn, NativeEnds, Release, Goto, Finish, TypeOK
<1>3. work'[r] \in {"finish", "done"} => outcome'[r] \in Results
  <2>1. CASE Start(r)
    BY <2>1, <1>p DEF Start, Goto, TypeOK
  <2>2. CASE Resolve(r) \/ Spawn(r) \/ NativeEnds(r)
    BY <2>2, <1>p, CodesAreResults, OnlyBusyIsBusy, ScienceAssumption
    DEF Resolve, Spawn, NativeEnds, Goto, Finish, TypeOK
  <2>3. CASE Release(r)
    BY <2>3, <1>p, CodesAreResults DEF Release, Goto, TypeOK, ProgressSound
  <2> QED BY <2>1, <2>2, <2>3 DEF Work
<1> QED BY <1>p, <1>n, <1>w, <1>1, <1>2, <1>3 DEF PoolStep, NoNewItems, ThreadsSound
-----------------------------------------------------------------------------
(* The steps of a handler.                                                 *)

(* A request arrives: no thread of it has run, and it is not charged.             *)
LEMMA ArriveKeeps ==
  ASSUME ApiInv, NEW r \in Calls, Arrive(r)
  PROVE  ApiInv'
<1> USE DEF Arrive
<1>p. HandlerTypes /\ ItemsOnce /\ ExecutorTypeOK /\ \A d \in Calls : Sound(d)
  BY DEF ApiInv, TypeInv, TypeOK
<1>s. /\ found[r] = "none" /\ reserved[r] = "none" /\ waiter[r] = "idle" /\ work[r] = "none"
      /\ r \notin charges /\ ~Pending(Auth(r)) /\ ~Pending(Reserve(r)) /\ ~Pending(Task(r))
      /\ reply[r] = <<0, "none">>
  BY <1>p DEF Sound, ThreadsSound, ProgressSound, ReplySound
<1>0. UNCHANGED <<scienceVars, delegate, found, reserved, charges, work, outcome, waiter>>
  BY DEF scienceVars
<1>1. CASE /\ \E answered : /\ reply' = [reply EXCEPT ![r] = answered]
                            /\ answered[1] \in {503, 400, 413, 500}
           /\ pc' = [pc EXCEPT ![r] = "replied"]
           /\ UNCHANGED <<executorVars, slots>>
  <2> USE <1>1, <1>0 DEF executorVars
  <2>1. HandlerTypes' /\ ExecutorTypeOK'
    BY <1>p DEF HandlerTypes, ExecutorTypeOK
  <2>2. ItemsOnce' /\ NoNewItems
    BY <1>p, PoolFrame
  <2>3. Sound(r)'
    <3>1. ThreadsSound(r)'
      BY <2>2, <1>s DEF ThreadsSound, NoNewItems
    <3>2. ProgressSound(r)'
      BY <1>s, <1>p DEF ProgressSound, HandlerTypes
    <3>3. ReplySound(r)'
      BY <1>s, <1>p DEF ReplySound, HandlerTypes
    <3> QED BY <3>1, <3>2, <3>3 DEF Sound
  <2>4. \A d \in Calls \ {r} : Untouched(d)
    BY <2>2, <1>p DEF Untouched, NoNewItems, HandlerTypes
  <2>5. pc[r] \notin Awaits /\ pc'[r] \notin Awaits
    BY <1>p DEF HandlerTypes, Awaits
  <2> QED BY <2>1, <2>2, <2>3, <2>4, <2>5, StepOfOne
<1>2. CASE /\ slots > 0 /\ Enqueue(Auth(r)) /\ slots' = slots - 1
           /\ pc' = [pc EXCEPT ![r] = "authenticating"]
           /\ UNCHANGED reply
  <2> USE <1>2, <1>0
  <2>1. /\ queue' \in Seq(Tasks) /\ ItemsOnce'
        /\ \A t : Pending(t)' <=> Pending(t) \/ t = Auth(r)
    BY <1>s, <1>p, ApiAssumption, EnqueueOnce DEF ExecutorTypeOK
  <2>2. HandlerTypes' /\ ExecutorTypeOK'
    BY <2>1, <1>p DEF HandlerTypes, ExecutorTypeOK, Awaits, Enqueue
  <2>3. Sound(r)'
    <3>1. ThreadsSound(r)'
      BY <2>1, <1>s, <1>p, TasksDiffer DEF ThreadsSound, HandlerTypes
    <3>2. ProgressSound(r)'
      BY <1>s, <1>p DEF ProgressSound, HandlerTypes
    <3>3. ReplySound(r)'
      BY <1>s, <1>p DEF ReplySound, HandlerTypes
    <3> QED BY <3>1, <3>2, <3>3 DEF Sound
  <2>4. \A d \in Calls \ {r} : Untouched(d)
    BY <2>1, <1>p, TasksDiffer DEF Untouched, HandlerTypes
  <2>5. pc[r] \notin Awaits /\ pc'[r] \in Awaits
    BY <1>p DEF HandlerTypes, Awaits
  <2> QED BY <2>1, <2>2, <2>3, <2>4, <2>5, StepOfOne
<1> QED BY <1>1, <1>2, ReplyStatuses DEF TurnAway, Enter

(* A step of the pool and of science leaves other requests untouched when the     *)
(* handler's own variables move for one request only.                             *)
LEMMA OthersUntouched ==
  ASSUME NEW r \in Calls, PoolStep(r),
         \A d \in Calls \ {r} : /\ pc'[d] = pc[d] /\ found'[d] = found[d]
                                /\ reserved'[d] = reserved[d] /\ reply'[d] = reply[d]
                                /\ (d \in charges' <=> d \in charges)
  PROVE  \A d \in Calls \ {r} : Untouched(d)
BY TasksDiffer DEF PoolStep, Untouched

(* A reply from inside returns the slot.  Its request has no thread left, is not  *)
(* charged when the status says so, and is answered 200 by its finished item.     *)
LEMMA ReplyKeeps ==
  ASSUME ApiInv, NEW r \in Calls, NEW answered, pc[r] \in Awaits, PoolStep(r),
         Reply(r, answered), UNCHANGED <<delegate, found, reserved, charges>>,
         pc[r] = "authenticating" => found[r] # "none",
         pc[r] = "reserving" => reserved[r] # "none",
         answered[1] \in {401, 406, 415, 429} => r \notin charges,
         answered[1] = 200 => r \in charges /\ work[r] = "done" /\ outcome[r] = "ok"
  PROVE  ApiInv'
<1> USE DEF Reply
<1>p. HandlerTypes /\ Sound(r)
  BY DEF ApiInv
<1>1. pc'[r] = "replied" /\ reply'[r] = answered
  BY <1>p DEF HandlerTypes
<1>2. \A d \in Calls \ {r} : Untouched(d)
  BY <1>p, OthersUntouched DEF HandlerTypes
<1>3. HandlerTypes'
  BY <1>p DEF HandlerTypes
<1>4. ~Pending(Auth(r))' /\ ~Pending(Reserve(r))'
  BY <1>p, TasksDiffer DEF PoolStep, Sound, ThreadsSound, Awaits
<1>5. Sound(r)'
  <2>1. ThreadsSound(r)'
    BY <1>4 DEF ThreadsSound, PoolStep
  <2>2. ProgressSound(r)'
    BY <1>p, <1>1 DEF Sound, ProgressSound, PoolStep
  <2>3. ReplySound(r)'
    BY <1>1 DEF ReplySound, PoolStep
  <2> QED BY <2>1, <2>2, <2>3 DEF Sound
<1>6. pc'[r] \notin Awaits
  BY <1>1 DEF Awaits
<1> QED BY <1>2, <1>3, <1>5, <1>6, StepOfOne DEF PoolStep

(* After authentication: no reservation exists, so a refusal is not charged, and  *)
(* the reservation that is queued is the first.                                   *)
LEMMA AuthenticatedKeeps ==
  ASSUME ApiInv, NEW r \in Calls, Authenticated(r)
  PROVE  ApiInv'
<1> USE DEF Authenticated
<1>p. HandlerTypes /\ ItemsOnce /\ ExecutorTypeOK /\ Sound(r)
  BY DEF ApiInv, TypeInv, TypeOK
<1>s. /\ reserved[r] = "none" /\ r \notin charges /\ work[r] = "none" /\ waiter[r] = "idle"
      /\ ~Pending(Auth(r)) /\ ~Pending(Reserve(r)) /\ ~Pending(Task(r)) /\ pc[r] \in Awaits
      /\ reply[r] = <<0, "none">>
  BY <1>p DEF Sound, ThreadsSound, ProgressSound, ReplySound, Awaits
<1>1. CASE \E answered : /\ Reply(r, answered) /\ UNCHANGED executorVars
                         /\ answered[1] \in {401, 503, 406, 415, 400, 413, 500}
  <2>1. PICK answered : /\ Reply(r, answered) /\ UNCHANGED executorVars
                        /\ answered[1] \in {401, 503, 406, 415, 400, 413, 500}
    BY <1>1
  <2>2. PoolStep(r)
    BY <2>1, NothingMoves DEF vars
  <2> QED BY <2>1, <2>2, <1>s, ReplyKeeps
<1>2. CASE found[r] = "key" /\ Enqueue(Reserve(r)) /\ Suspend(r, "reserving")
  <2> USE <1>2 DEF Suspend
  <2>1. /\ queue' \in Seq(Tasks) /\ ItemsOnce'
        /\ \A t : Pending(t)' <=> Pending(t) \/ t = Reserve(r)
    BY <1>s, <1>p, ApiAssumption, EnqueueOnce DEF ExecutorTypeOK
  <2>2. HandlerTypes' /\ ExecutorTypeOK' /\ pc'[r] = "reserving"
    BY <2>1, <1>p DEF HandlerTypes, ExecutorTypeOK, Awaits, Enqueue
  <2>3. Sound(r)'
    <3>1. ThreadsSound(r)'
      BY <2>1, <2>2, <1>s, TasksDiffer DEF ThreadsSound
    <3>2. ProgressSound(r)'
      BY <2>2, <1>s, <1>p DEF Sound, ProgressSound, scienceVars
    <3>3. ReplySound(r)'
      BY <2>2, <1>s DEF ReplySound
    <3> QED BY <3>1, <3>2, <3>3 DEF Sound
  <2>4. \A d \in Calls \ {r} : Untouched(d)
    BY <2>1, <1>p, TasksDiffer DEF Untouched, HandlerTypes, scienceVars
  <2>5. pc[r] \in Awaits /\ pc'[r] \in Awaits
    BY <1>s, <2>2 DEF Awaits
  <2> QED BY <2>1, <2>2, <2>3, <2>4, <2>5, StepOfOne
<1> QED BY <1>1, <1>2, ReplyStatuses DEF ToThread

(* A handler that goes on to its next await.                                      *)
LEMMA SuspendKeeps ==
  ASSUME ApiInv, NEW r \in Calls, PoolStep(r),
         UNCHANGED <<delegate, found, reserved, charges>>,
         \/ /\ pc[r] = "reserving" /\ reserved[r] = "granted"
            /\ waiter'[r] = waiter[r] /\ Suspend(r, "reading")
         \/ pc[r] = "reading" /\ Suspend(r, "calculating")
  PROVE  ApiInv'
<1> USE DEF Suspend
<1>p. HandlerTypes /\ Sound(r)
  BY DEF ApiInv
<1>1. pc'[r] \in {"reading", "calculating"} /\ pc[r] \in Awaits /\ pc'[r] \in Awaits
  BY <1>p DEF HandlerTypes, Awaits
<1>2. \A d \in Calls \ {r} : Untouched(d)
  BY <1>p, OthersUntouched DEF HandlerTypes
<1>3. HandlerTypes'
  BY <1>p DEF HandlerTypes, Awaits
<1>4. Sound(r)'
  <2>1. ThreadsSound(r)'
    BY <1>p, <1>1, TasksDiffer DEF Sound, ThreadsSound, PoolStep
  <2>2. ProgressSound(r)'
    BY <1>p, <1>1 DEF Sound, ProgressSound, PoolStep, HandlerTypes
  <2>3. ReplySound(r)'
    BY <1>p, <1>1 DEF Sound, ReplySound
  <2> QED BY <2>1, <2>2, <2>3 DEF Sound
<1> QED BY <1>1, <1>2, <1>3, <1>4, StepOfOne DEF PoolStep

(* After the reservation: who is refused is not charged.                          *)
LEMMA ReservedKeeps ==
  ASSUME ApiInv, NEW r \in Calls, Reserved(r)
  PROVE  ApiInv'
<1> USE DEF Reserved
<1>p. Sound(r) /\ PoolStep(r) /\ pc[r] \in Awaits
  BY NothingMoves DEF ApiInv, Awaits
<1>1. CASE reserved[r] = "granted" /\ Suspend(r, "reading")
  BY <1>1, <1>p, SuspendKeeps DEF vars, scienceVars
<1>2. CASE reserved[r] = "refused" /\ Reply(r, <<429, "rate_limited">>)
  BY <1>2, <1>p, ReplyKeeps DEF Sound, ProgressSound
<1>3. CASE Reply(r, StateUnavailable)
  BY <1>3, <1>p, ReplyKeeps, ReplyStatuses
<1> QED BY <1>1, <1>2, <1>3

(* After the body: a calculation is submitted, or the request is answered.        *)
LEMMA BodyReadKeeps ==
  ASSUME ApiInv, NEW r \in Calls, BodyRead(r)
  PROVE  ApiInv'
<1> USE DEF BodyRead
<1>p. pc[r] \in Awaits
  BY DEF Awaits
<1>1. CASE UNCHANGED vars /\ \E answered : /\ Reply(r, answered)
                                           /\ answered[1] \in {413, 408, 400, 422, 500, 503}
  BY <1>1, <1>p, NothingMoves, ReplyKeeps
<1>2. CASE delegate = "science" /\ Admit(r) /\ Suspend(r, "calculating")
  BY <1>2, WaiterSteps, SuspendKeeps
<1>3. CASE /\ delegate = "science" /\ (Refuse(r) \/ SubmitFails(r))
           /\ \E answered : Reply(r, answered) /\ answered[1] \in {503, 500}
  BY <1>3, <1>p, WaiterSteps, ReplyKeeps
<1> QED BY <1>1, <1>2, <1>3, ReplyStatuses

(* The result of the item, or the deadline.                                       *)
LEMMA CalculatedKeeps ==
  ASSUME ApiInv, NEW r \in Calls, Calculated(r) \/ DeadlinePasses(r)
  PROVE  ApiInv'
<1>p. /\ pc[r] \in Awaits /\ pc[r] = "calculating" /\ PoolStep(r) /\ Sound(r)
      /\ UNCHANGED <<delegate, found, reserved, charges>>
  BY WaiterSteps DEF Calculated, DeadlinePasses, Awaits, ApiInv
<1>1. CASE Deliver(r) /\ Reply(r, Answer(outcome[r]))
  <2>1. work[r] = "done" /\ outcome[r] \in Results /\ r \in charges
    BY <1>1, <1>p DEF Deliver, Sound, ProgressSound
  <2>2. Answer(outcome[r])[1] = 200 => outcome[r] = "ok"
    BY <2>1, AnswerStatuses
  <2>3. Answer(outcome[r])[1] \notin {401, 406, 415, 429}
    BY <2>1, AnswerStatuses
  <2> QED BY <1>1, <1>p, <2>1, <2>2, <2>3, ReplyKeeps
<1>2. CASE \E answered : Reply(r, answered) /\ answered[1] \in {500, 408}
  BY <1>2, <1>p, ReplyKeeps
<1> QED BY <1>1, <1>2, ReplyStatuses DEF Calculated, DeadlinePasses

(* A cancelled handler returns its slot, whatever its thread still does.          *)
LEMMA CancelKeeps ==
  ASSUME ApiInv, NEW r \in Calls, Cancel(r)
  PROVE  ApiInv'
<1> USE DEF Cancel
<1>p. HandlerTypes /\ ItemsOnce /\ ExecutorTypeOK /\ Sound(r)
  BY DEF ApiInv, TypeInv, TypeOK
<1>1. PoolStep(r)
  <2>1. ASSUME NEW t \in Tasks, CancelFuture(t), UNCHANGED scienceVars
        PROVE  PoolStep(r)
    <3> USE <2>1 DEF CancelFuture
    <3>1. ItemsOnce' /\ NoNewItems
      BY <1>p, PoolFrame
    <3>2. ExecutorTypeOK'
      BY <1>p DEF ExecutorTypeOK
    <3> QED BY <3>1, <3>2, PoolAlone
  <2> QED BY <2>1, NothingMoves, WaiterSteps, ApiAssumption
<1>2. pc'[r] = "cancelled" /\ reply'[r] = reply[r]
  BY <1>p DEF HandlerTypes
<1>3. \A d \in Calls \ {r} : Untouched(d)
  BY <1>1, <1>p, OthersUntouched DEF HandlerTypes
<1>4. HandlerTypes'
  BY <1>p DEF HandlerTypes
<1>5. Sound(r)'
  <2>1. ThreadsSound(r)'
    BY <1>p, <1>1, <1>2, TasksDiffer DEF Sound, ThreadsSound, PoolStep
  <2>2. ProgressSound(r)'
    BY <1>p, <1>1, <1>2 DEF Sound, ProgressSound, PoolStep
  <2>3. ReplySound(r)'
    BY <1>p, <1>2 DEF Sound, ReplySound, Awaits
  <2> QED BY <2>1, <2>2, <2>3 DEF Sound
<1>6. pc'[r] \notin Awaits
  BY <1>2 DEF Awaits
<1> QED BY <1>1, <1>3, <1>4, <1>5, <1>6, StepOfOne DEF PoolStep
-----------------------------------------------------------------------------
(* The steps of the threads.                                               *)

(* Threads that take an item, and the calculation, leave the handlers alone.      *)
LEMMA QuietKeeps ==
  ASSUME ApiInv, NEW r \in Calls, PoolStep(r), UNCHANGED handlerVars,
         waiter'[r] = waiter[r], pc[r] # "reading" \/ work'[r] = work[r]
  PROVE  ApiInv'
<1> USE DEF handlerVars
<1>p. HandlerTypes /\ Sound(r)
  BY DEF ApiInv
<1>1. \A d \in Calls \ {r} : Untouched(d)
  BY OthersUntouched
<1>2. HandlerTypes'
  BY <1>p DEF HandlerTypes
<1>3. Sound(r)'
  <2>1. ThreadsSound(r)'
    BY <1>p, TasksDiffer DEF Sound, ThreadsSound, PoolStep
  <2>2. ProgressSound(r)'
    BY <1>p DEF Sound, ProgressSound, PoolStep
  <2>3. ReplySound(r)'
    BY <1>p DEF Sound, ReplySound, PoolStep
  <2> QED BY <2>1, <2>2, <2>3 DEF Sound
<1> QED BY <1>1, <1>2, <1>3, StepOfOne DEF PoolStep

(* authenticate ends: it had not reported before.                                 *)
LEMMA AuthenticateKeeps ==
  ASSUME ApiInv, NEW r \in Calls, Authenticate(r)
  PROVE  ApiInv'
<1> USE DEF Authenticate
<1>p. HandlerTypes /\ ItemsOnce /\ ExecutorTypeOK /\ Sound(r) /\ Pending(Auth(r))
  BY DEF ApiInv, TypeInv, TypeOK, Pending
<1>1. ItemsOnce' /\ NoNewItems /\ ~Pending(Auth(r))'
  BY <1>p, ReturnOnce
<1>2. ExecutorTypeOK' /\ HandlerTypes'
  BY <1>p DEF ExecutorTypeOK, HandlerTypes, Return
<1>3. PoolStep(r)
  BY <1>1, <1>2, PoolAlone
<1>4. \A d \in Calls \ {r} : Untouched(d)
  BY <1>3, <1>p, OthersUntouched DEF HandlerTypes
<1>5. Sound(r)'
  <2>1. found[r] = "none" /\ pc[r] \in {"authenticating", "cancelled"}
    BY <1>p DEF Sound, ThreadsSound
  <2>2. reserved[r] = "none" /\ ~Pending(Reserve(r))
    BY <2>1, <1>p DEF Sound, ThreadsSound, ProgressSound
  <2>3. ThreadsSound(r)'
    BY <1>1, <2>2, <1>3 DEF ThreadsSound, NoNewItems, PoolStep
  <2>4. ProgressSound(r)'
    BY <2>1, <2>2, <1>p DEF Sound, ProgressSound, scienceVars
  <2>5. ReplySound(r)'
    BY <1>p DEF Sound, ReplySound, scienceVars
  <2> QED BY <2>3, <2>4, <2>5 DEF Sound
<1> QED BY <1>1, <1>2, <1>4, <1>5, StepOfOne

(* reserve_quota ends: it charges a request at most once, below the limit, and    *)
(* none whose handler has replied.                                                *)
LEMMA ReserveQuotaKeeps ==
  ASSUME ApiInv, NEW r \in Calls, ReserveQuota(r)
  PROVE  ApiInv'
<1> USE DEF ReserveQuota
<1>p. HandlerTypes /\ ItemsOnce /\ ExecutorTypeOK /\ Sound(r) /\ Pending(Reserve(r))
  BY DEF ApiInv, TypeInv, TypeOK, Pending
<1>s. /\ found[r] = "key" /\ reserved[r] = "none" /\ pc[r] \in {"reserving", "cancelled"}
      /\ r \notin charges /\ reply[r] = <<0, "none">> /\ ~Pending(Auth(r)) /\ work[r] = "none"
  BY <1>p DEF Sound, ThreadsSound, ProgressSound, ReplySound
<1>1. ItemsOnce' /\ NoNewItems /\ ~Pending(Reserve(r))'
  BY <1>p, ReturnOnce
<1>2. ExecutorTypeOK' /\ HandlerTypes'
  BY <1>p DEF ExecutorTypeOK, HandlerTypes, Return
<1>3. PoolStep(r)
  BY <1>1, <1>2, PoolAlone
<1>4. \A d \in Calls \ {r} : Untouched(d)
  BY <1>3, <1>p, OthersUntouched DEF HandlerTypes
<1>5. Sound(r)'
  <2>1. ThreadsSound(r)'
    BY <1>1, <1>s, <1>3 DEF ThreadsSound, NoNewItems, PoolStep
  <2>2. ProgressSound(r)'
    BY <1>s, <1>p DEF Sound, ProgressSound, scienceVars, HandlerTypes
  <2>3. ReplySound(r)'
    BY <1>p, <1>s DEF Sound, ReplySound, scienceVars
  <2> QED BY <2>1, <2>2, <2>3 DEF Sound
<1>6. charges' = charges \/ Cardinality(charges') <= PerMinute
  <2>1. CASE Cardinality(charges) < PerMinute /\ charges' = charges \cup {r}
    <3>1. Cardinality(charges') = Cardinality(charges) + 1 /\ Cardinality(charges) \in Nat
      BY <2>1, <1>s, <1>p, SetsOfCalls DEF HandlerTypes
    <3> QED BY <3>1, <2>1, ApiAssumption
  <2> QED BY <2>1
<1> QED BY <1>1, <1>2, <1>4, <1>5, <1>6, StepOfOne

(* A thread that drops a cancelled item.                                          *)
LEMMA SkipKeeps ==
  ASSUME ApiInv, SkipCancelled
  PROVE  ApiInv'
<1> USE DEF SkipCancelled, handlerVars
<1>1. ItemsOnce' /\ NoNewItems /\ ExecutorTypeOK'
  BY TakeOnce DEF ApiInv, TypeInv, TypeOK, ExecutorTypeOK, Skip
<1>2. TypeInv'
  BY <1>1, ScienceFrame DEF ApiInv
<1>3. \A d \in Calls : Sound(d)'
  <2>1. ASSUME NEW d \in Calls PROVE Untouched(d)
    BY <1>1 DEF Untouched, NoNewItems, scienceVars
  <2> QED BY <2>1, SoundFrame DEF ApiInv
<1>4. HandlerTypes' /\ SlotsConserved' /\ Cardinality(charges') <= PerMinute
  <2>1. Inside' = Inside
    BY DEF Inside
  <2> QED BY <2>1 DEF ApiInv, HandlerTypes, SlotsConserved
<1> QED BY <1>1, <1>2, <1>3, <1>4 DEF ApiInv

(* The threads of one request.                                                    *)
LEMMA ThreadKeeps ==
  ASSUME ApiInv, NEW r \in Calls, Thread(r)
  PROVE  ApiInv'
<1>1. ASSUME NEW t, Begin(t) PROVE ApiInv'
  <2> USE <1>1 DEF Begin
  <2>1. ItemsOnce' /\ NoNewItems /\ ExecutorTypeOK'
    BY TakeOnce DEF ApiInv, TypeInv, TypeOK, ExecutorTypeOK, Take
  <2>2. PoolStep(r)
    BY <2>1, PoolAlone
  <2> QED BY <2>2, QuietKeeps DEF scienceVars
<1>2. CASE Work(r) /\ UNCHANGED handlerVars
  <2>1. PoolStep(r) /\ waiter' = waiter
    BY <1>2, WorkSteps DEF Work, Start, Resolve, Spawn, NativeEnds, Release
  <2>2. work[r] # "none"
    BY <1>2 DEF Work, Start, Resolve, Spawn, NativeEnds, Release
  <2>3. pc[r] # "reading"
    BY <2>2 DEF ApiInv, TypeInv, IdleIsFresh, Sound, ProgressSound
  <2> QED BY <1>2, <2>1, <2>3, QuietKeeps
<1> QED BY <1>1, <1>2, AuthenticateKeeps, ReserveQuotaKeeps DEF Thread

(* ApiInv is preserved by every step of a handler, of its threads and of science. *)
LEMMA NextApiInv == ApiInv /\ [ApiNext]_apiVars => ApiInv'
<1> SUFFICES ASSUME ApiInv, [ApiNext]_apiVars PROVE ApiInv'
  OBVIOUS
<1>0. CASE UNCHANGED apiVars
  <2> USE <1>0 DEF apiVars, vars, handlerVars, executorVars
  <2>1. TypeInv'
    BY NextTypeInv DEF ApiInv
  <2>2. ItemsOnce' /\ NoNewItems
    BY PoolFrame DEF ApiInv
  <2>3. \A d \in Calls : Sound(d)'
    <3>1. ASSUME NEW d \in Calls PROVE Untouched(d)
      BY <2>2 DEF Untouched, NoNewItems, scienceVars
    <3> QED BY <3>1, SoundFrame DEF ApiInv
  <2>4. HandlerTypes' /\ SlotsConserved' /\ Cardinality(charges') <= PerMinute
    <3>1. Inside' = Inside
      BY DEF Inside
    <3> QED BY <3>1 DEF ApiInv, HandlerTypes, SlotsConserved
  <2> QED BY <2>1, <2>2, <2>3, <2>4 DEF ApiInv
<1>1. ASSUME NEW r \in Calls, Handle(r) PROVE ApiInv'
  BY <1>1, AuthenticatedKeeps, ReservedKeeps, BodyReadKeeps, CalculatedKeeps DEF Handle
<1> QED BY <1>0, <1>1, SkipKeeps, ArriveKeeps, CancelKeeps, ThreadKeeps DEF ApiNext
-----------------------------------------------------------------------------
(* Theorems.                                                               *)

(* Every admission slot is free or held by one handler between its get_nowait and *)
(* its finally clause, however the handlers of any number of requests end.        *)
THEOREM SlotsAreConserved == ApiSpec => []SlotsConserved
<1>1. ApiInv => SlotsConserved
  BY DEF ApiInv
<1> QED BY <1>1, InitApiInv, NextApiInv, PTL DEF ApiSpec

(* No calculation exists without a key that was found, a committed charge and a   *)
(* delegate, so the limit of the key bounds the calculations ever started.        *)
THEOREM WorkIsCharged == ApiSpec => []WorkIsPaidFor
<1>1. ApiInv => WorkIsPaidFor
  <2> SUFFICES ASSUME ApiInv PROVE WorkIsPaidFor
    OBVIOUS
  <2> DEFINE Worked == {r \in Calls : work[r] # "none"}
  <2>1. \A r \in Calls : work[r] # "none" =>
          found[r] = "key" /\ r \in charges /\ delegate = "science"
    BY DEF ApiInv, Sound, ProgressSound
  <2>2. Worked \subseteq charges /\ charges \subseteq Calls /\ Cardinality(charges) <= PerMinute
    BY <2>1 DEF ApiInv, HandlerTypes
  <2>3. Cardinality(Worked) <= Cardinality(charges) /\ Cardinality(Worked) \in Nat
        /\ Cardinality(charges) \in Nat
    BY <2>2, SetsOfCalls, FS_Subset
  <2>4. Cardinality(Worked) <= PerMinute
    BY <2>2, <2>3, ApiAssumption
  <2> QED BY <2>1, <2>4 DEF WorkIsPaidFor
<1> QED BY <1>1, InitApiInv, NextApiInv, PTL DEF ApiSpec

(* Who is refused for credentials, version, media type or rate is never charged,  *)
(* not even by a thread that outlives the handler; a success was charged and is   *)
(* the result of the request's own item.                                          *)
THEOREM RepliesAreHonest == ApiSpec => []RepliesMatchCharges
<1>1. ApiInv => RepliesMatchCharges
  BY DEF ApiInv, Sound, ReplySound, RepliesMatchCharges
<1> QED BY <1>1, InitApiInv, NextApiInv, PTL DEF ApiSpec

(* The types of the handlers.                                                     *)
THEOREM ApiTypes == ApiSpec => []ApiTypeOK
<1>1. ApiInv => ApiTypeOK
  <2> SUFFICES ASSUME ApiInv PROVE ApiTypeOK
    OBVIOUS
  <2>1. Cardinality(Inside) \in Nat
    BY SetsOfCalls DEF Inside
  <2>2. slots \in 0..Slots
    BY <2>1, ApiAssumption DEF ApiInv, HandlerTypes, SlotsConserved
  <2> QED BY <2>2 DEF ApiInv, HandlerTypes, TypeInv, ApiTypeOK
<1> QED BY <1>1, InitApiInv, NextApiInv, PTL DEF ApiSpec
-----------------------------------------------------------------------------
(* The composition.  From here on a submit that raises leaves no item      *)
(* behind.                                                                 *)

\* Items belong to requests, and a calculation has one while it is unfinished.
ItemsOwned ==
  /\ \A t : Pending(t) => \E r \in Calls : t \in {Auth(r), Reserve(r), Task(r)}
  /\ \A r \in Calls : /\ Waiting(Task(r)) => work[r] = "queued"
                      /\ Task(r) \in running => work[r] \in Live \ {"queued"}

ServiceInv == ApiInv /\ TokenInv /\ ItemsOwned

(* ServiceInv holds initially.                                                    *)
LEMMA InitServiceInv == ApiInit => ServiceInv
<1> SUFFICES ASSUME ApiInit PROVE ServiceInv
  OBVIOUS
<1>1. ItemsOwned
  BY DEF ApiInit, Init, ExecutorInit, ItemsOwned, Pending, Waiting
<1> QED BY <1>1, InitApiInv, InitTokenInv DEF ServiceInv, ApiInit

(* A step of the service is one of module Science, or one of the pool alone.      *)
LEMMA ServiceSteps ==
  ASSUME ApiInv, [ApiNext]_apiVars
  PROVE  [Next]_vars \/ UNCHANGED scienceVars
<1>1. ASSUME NEW r \in Calls, Handle(r) \/ Cancel(r)
      PROVE  [Next]_vars \/ UNCHANGED scienceVars
  <2>1. CASE PoolStep(r)
    BY <2>1 DEF PoolStep
  <2>2. CASE UNCHANGED scienceVars
    BY <2>2
  <2> QED BY <1>1, <2>1, <2>2, WaiterSteps, NothingMoves
          DEF Handle, Cancel, Authenticated, Reserved, BodyRead, Calculated, DeadlinePasses
<1>2. ASSUME NEW r \in Calls, Thread(r)
      PROVE  [Next]_vars \/ UNCHANGED scienceVars
  BY <1>2 DEF Thread, Begin, Authenticate, ReserveQuota, Next
<1> QED BY <1>1, <1>2 DEF ApiNext, Arrive, SkipCancelled, apiVars, vars

(* The invariant of module Science survives the composition.                      *)
LEMMA TokensSurvive ==
  ASSUME ~StrayStart, ServiceInv, [ApiNext]_apiVars
  PROVE  TokenInv'
<1>1. CASE [Next]_vars
  BY <1>1, NextTokenInv DEF ServiceInv
<1>2. CASE UNCHANGED scienceVars
  <2> USE <1>2 DEF scienceVars, semaphores
  <2>1. TypeInv'
    BY NextApiInv DEF ServiceInv, ApiInv
  <2>2. TokensConserved'
    BY TokenFrame DEF ServiceInv, TokenInv
  <2> QED BY <2>1, <2>2 DEF ServiceInv, TokenInv, NativeNeverBusy
<1> QED BY <1>1, <1>2, ServiceSteps DEF ServiceInv

(* Steps that leave calculations alone and bring no item but a handler's own.     *)
LEMMA OwnedByHandlers ==
  ASSUME ItemsOwned, NEW r \in Calls, work' = work,
         \A t : Waiting(t)' => Waiting(t) \/ t \in {Auth(r), Reserve(r)},
         \A t : t \in running' => t \in running \/ t \in {Auth(r), Reserve(r)}
  PROVE  ItemsOwned'
<1>1. ASSUME NEW t, Pending(t)'
      PROVE  \E d \in Calls : t \in {Auth(d), Reserve(d), Task(d)}
  BY <1>1 DEF ItemsOwned, Pending
<1>2. ASSUME NEW d \in Calls
      PROVE  /\ Waiting(Task(d))' => work'[d] = "queued"
             /\ (Task(d) \in running)' => work'[d] \in Live \ {"queued"}
  BY TasksDiffer DEF ItemsOwned
<1> QED BY <1>1, <1>2 DEF ItemsOwned

(* Steps that add no item and leave calculations alone.                           *)
LEMMA OwnedFrame ==
  ASSUME ItemsOwned, work' = work, NoNewItems,
         \A t : Waiting(t)' => Waiting(t), running' \subseteq running
  PROVE  ItemsOwned'
BY DEF ItemsOwned, NoNewItems

(* A calculation takes its item from the queue when it starts, and is rid of it   *)
(* when it is done.                                                               *)
LEMMA OwnedByWork ==
  ASSUME ApiInv, ItemsOwned, NEW r \in Calls, Work(r)
  PROVE  ItemsOwned'
<1>p. TypeOK /\ ExecutorTypeOK /\ ItemsOnce
  BY DEF ApiInv, TypeInv, TypeOK
<1>0. \A t : Pending(t)' => Pending(t) \/ t = Task(r)
  BY WorkSteps DEF PoolStep
<1>1. ASSUME NEW t, Pending(t)'
      PROVE  \E d \in Calls : t \in {Auth(d), Reserve(d), Task(d)}
  BY <1>0, <1>1 DEF ItemsOwned
<1>2. \A d \in Calls \ {r} : work'[d] = work[d]
  BY WorkSteps DEF PoolStep
<1>3. CASE Start(r)
  <2> USE <1>3 DEF Start, Take, Goto
  <2>1. work'[r] = "resolve" /\ Head(queue) = Task(r)
    BY <1>p DEF TypeOK
  <2>2. \A t : Waiting(t)' => Waiting(t) /\ t # Task(r)
    BY <2>1, <1>p, TailOfQueue DEF Waiting, ItemsOnce, ExecutorTypeOK
  <2>3. ASSUME NEW d \in Calls
        PROVE  /\ Waiting(Task(d))' => work'[d] = "queued"
               /\ (Task(d) \in running)' => work'[d] \in Live \ {"queued"}
    <3>1. CASE d = r
      BY <3>1, <2>1, <2>2 DEF Live
    <3>2. CASE d # r
      BY <3>2, <2>2, <1>2, TasksDiffer DEF ItemsOwned
    <3> QED BY <3>1, <3>2
  <2> QED BY <1>1, <2>3 DEF ItemsOwned
<1>4. CASE Resolve(r) \/ Spawn(r) \/ NativeEnds(r)
  <2> USE <1>4 DEF Resolve, Spawn, NativeEnds, executorVars, Goto, Finish
  <2>1. queue' = queue /\ running' = running
    OBVIOUS
  <2>2. work[r] # "queued" /\ work'[r] \in Live \ {"queued"}
    BY <1>p DEF TypeOK, Live
  <2>3. ASSUME NEW d \in Calls
        PROVE  /\ Waiting(Task(d))' => work'[d] = "queued"
               /\ (Task(d) \in running)' => work'[d] \in Live \ {"queued"}
    BY <2>1, <2>2, <1>2 DEF ItemsOwned, Waiting
  <2> QED BY <1>1, <2>3 DEF ItemsOwned
<1>5. CASE Release(r)
  <2> USE <1>5 DEF Release, Return
  <2>1. \A t : Waiting(t)' <=> Waiting(t)
    BY DEF Waiting
  <2>2. ASSUME NEW d \in Calls
        PROVE  /\ Waiting(Task(d))' => work'[d] = "queued"
               /\ (Task(d) \in running)' => work'[d] \in Live \ {"queued"}
    BY <2>1, <1>2 DEF ItemsOwned
  <2> QED BY <1>1, <2>2 DEF ItemsOwned
<1> QED BY <1>3, <1>4, <1>5 DEF Work

(* The submit brings the item of its own request.                                 *)
LEMMA OwnedBySubmit ==
  ASSUME ApiInv, ItemsOwned, NEW r \in Calls, pc[r] = "reading", delegate = "science",
         Admit(r) \/ Refuse(r) \/ SubmitFails(r)
  PROVE  ItemsOwned'
<1>p. /\ TypeOK /\ ExecutorTypeOK /\ ItemsOnce /\ work[r] = "none" /\ ~Pending(Task(r))
      /\ Task(r) \in Tasks
  BY ScienceAssumption
  DEF ApiInv, TypeInv, TypeOK, IdleIsFresh, Sound, ThreadsSound, ProgressSound
<1>1. CASE Enqueue(Task(r)) /\ work' = [work EXCEPT ![r] = "queued"]
  <2> USE <1>1
  <2>1. \A t : Pending(t)' <=> Pending(t) \/ t = Task(r)
    BY <1>p, EnqueueOnce DEF ExecutorTypeOK
  <2>2. running' = running /\ work'[r] = "queued" /\ \A d \in Calls \ {r} : work'[d] = work[d]
    BY <1>p DEF Enqueue, TypeOK
  <2>3. \A t : Waiting(t)' => Waiting(t) \/ t = Task(r)
    <3>1. \A i \in DOMAIN queue' : queue'[i] = Task(r) \/ (i \in DOMAIN queue /\ queue'[i] = queue[i])
      BY <1>p DEF Enqueue, ExecutorTypeOK
    <3> QED BY <3>1 DEF Waiting
  <2>4. ASSUME NEW d \in Calls
        PROVE  /\ Waiting(Task(d))' => work'[d] = "queued"
               /\ (Task(d) \in running)' => work'[d] \in Live \ {"queued"}
    BY <2>2, <2>3, <1>p, TasksDiffer DEF ItemsOwned, Pending
  <2> QED BY <2>1, <2>4 DEF ItemsOwned
<1>2. CASE UNCHANGED executorVars /\ work' = work
  <2>1. NoNewItems /\ \A t : Waiting(t)' => Waiting(t)
    BY <1>2, <1>p, PoolFrame DEF executorVars, Waiting
  <2> QED BY <1>2, <2>1, OwnedFrame DEF executorVars
<1> QED BY <1>1, <1>2 DEF Admit, Refuse, SubmitFails

(* ItemsOwned is preserved by every step.                                         *)
LEMMA NextItemsOwned ==
  ASSUME ApiInv, ItemsOwned, [ApiNext]_apiVars
  PROVE  ItemsOwned'
<1>p. ExecutorTypeOK /\ ItemsOnce
  BY DEF ApiInv, TypeInv, TypeOK
<1>1. ASSUME queue' = queue, running' = running, work' = work
      PROVE  ItemsOwned'
  <2>1. NoNewItems /\ \A t : Waiting(t)' => Waiting(t)
    BY <1>1, <1>p, PoolFrame DEF Waiting
  <2> QED BY <1>1, <2>1, OwnedFrame
<1>2. ASSUME NEW r \in Calls, NEW t \in {Auth(r), Reserve(r)}, Enqueue(t), work' = work
      PROVE  ItemsOwned'
  <2>1. \A i \in DOMAIN queue' : queue'[i] = t \/ (i \in DOMAIN queue /\ queue'[i] = queue[i])
    BY <1>2, <1>p, ApiAssumption DEF Enqueue, ExecutorTypeOK
  <2>2. \A s : Waiting(s)' => Waiting(s) \/ s = t
    BY <2>1 DEF Waiting
  <2> QED BY <1>2, <2>2, OwnedByHandlers DEF Enqueue
<1>3. ASSUME NEW t, Take(t) \/ Skip, work' = work,
             Skip \/ \E r \in Calls : t \in {Auth(r), Reserve(r)}
      PROVE  ItemsOwned'
  <2>1. queue # <<>> /\ queue' = Tail(queue)
    BY <1>3 DEF Take, Skip
  <2>2. \A s : Waiting(s)' => Waiting(s)
    BY <2>1, <1>p, TailOfQueue DEF Waiting, ExecutorTypeOK
  <2>3. CASE Skip
    <3>1. running' = running
      BY <2>3 DEF Skip
    <3> QED BY <2>2, <3>1, <1>3, OwnedFrame DEF NoNewItems, Pending
  <2>4. CASE ~Skip
    <3>1. PICK r \in Calls : t \in {Auth(r), Reserve(r)}
      BY <1>3, <2>4
    <3>2. \A s : s \in running' => s \in running \/ s \in {Auth(r), Reserve(r)}
      BY <1>3, <2>4, <3>1 DEF Take
    <3> QED BY <2>2, <3>2, <1>3, OwnedByHandlers
  <2> QED BY <2>3, <2>4
<1>4. ASSUME NEW t, Return(t), work' = work
      PROVE  ItemsOwned'
  <2>1. NoNewItems /\ (\A s : Waiting(s)' => Waiting(s)) /\ running' \subseteq running
    BY <1>4, <1>p, ReturnOnce DEF Return, Waiting
  <2> QED BY <1>4, <2>1, OwnedFrame
<1>5. CASE SkipCancelled
  BY <1>5, <1>3 DEF SkipCancelled, scienceVars
<1>6. ASSUME NEW r \in Calls, Arrive(r) PROVE ItemsOwned'
  BY <1>6, <1>1, <1>2 DEF Arrive, TurnAway, Enter, scienceVars, executorVars
<1>7. ASSUME NEW r \in Calls, Authenticated(r) PROVE ItemsOwned'
  BY <1>7, <1>1, <1>2 DEF Authenticated, ToThread, scienceVars, executorVars
<1>8. ASSUME NEW r \in Calls, Reserved(r) PROVE ItemsOwned'
  BY <1>8, <1>1 DEF Reserved, vars, scienceVars, executorVars
<1>9. ASSUME NEW r \in Calls, BodyRead(r) PROVE ItemsOwned'
  <2>1. CASE UNCHANGED vars
    BY <2>1, <1>1 DEF vars, scienceVars, executorVars
  <2> QED BY <1>9, <2>1, OwnedBySubmit DEF BodyRead
<1>10. ASSUME NEW r \in Calls, Calculated(r) \/ DeadlinePasses(r) PROVE ItemsOwned'
  BY <1>10, <1>1 DEF Calculated, DeadlinePasses, Deliver, Leave, executorVars
<1>11. ASSUME NEW r \in Calls, Cancel(r) PROVE ItemsOwned'
  BY <1>11, <1>1 DEF Cancel, CancelFuture, Leave, vars, scienceVars, executorVars
<1>12. ASSUME NEW r \in Calls, Thread(r) PROVE ItemsOwned'
  BY <1>12, <1>3, <1>4, OwnedByWork DEF Thread, Begin, Authenticate, ReserveQuota, scienceVars
<1>13. CASE UNCHANGED apiVars
  BY <1>13, <1>1 DEF apiVars, vars, scienceVars, executorVars
<1> QED BY <1>5, <1>6, <1>7, <1>8, <1>9, <1>10, <1>11, <1>12, <1>13 DEF ApiNext, Handle

(* ServiceInv is preserved by every step of the service.                          *)
LEMMA NextServiceInv == ~StrayStart /\ ServiceInv /\ [ApiNext]_apiVars => ServiceInv'
BY NextApiInv, TokensSurvive, NextItemsOwned DEF ServiceInv
-----------------------------------------------------------------------------
(* The backlog.                                                            *)

(* The queue is as long as it has different items.                                *)
LEMMA QueueIsASet ==
  ASSUME queue \in Seq(Tasks), ItemsOnce
  PROVE  LET Queued == {queue[i] : i \in DOMAIN queue}
         IN  IsFiniteSet(Queued) /\ Cardinality(Queued) = Len(queue)
<1> DEFINE Queued == {queue[i] : i \in DOMAIN queue}
<1>1. DOMAIN queue = 1..Len(queue) /\ Len(queue) \in Nat
  OBVIOUS
<1>2. IsFiniteSet(DOMAIN queue) /\ Cardinality(DOMAIN queue) = Len(queue)
  BY <1>1, FS_Interval
<1>3. queue \in [DOMAIN queue -> Queued] /\ \A t \in Queued : \E i \in DOMAIN queue : queue[i] = t
  BY <1>1
<1>4. queue \in Surjection(DOMAIN queue, Queued)
  BY <1>3 DEF Surjection
<1>5. queue \in Injection(DOMAIN queue, Queued)
  BY <1>3 DEF Injection, IsInjective, ItemsOnce
<1> HIDE DEF Queued
<1>6. IsFiniteSet(Queued) /\ Cardinality(Queued) = Cardinality(DOMAIN queue)
  BY <1>2, <1>4, <1>5, FS_Surjection
<1> QED BY <1>2, <1>6 DEF Queued

(* A set of items with different owners is no larger than its set of owners.      *)
LEMMA OwnersCount ==
  ASSUME NEW Items, NEW Owners \in SUBSET Calls,
         \A t \in Items : t[2] \in Owners,
         \A s, t \in Items : s[2] = t[2] => s = t
  PROVE  IsFiniteSet(Items) /\ Cardinality(Items) <= Cardinality(Owners)
<1> DEFINE owner == [t \in Items |-> t[2]]
<1>1. owner \in Injection(Items, Owners)
  BY DEF Injection, IsInjective
<1> QED BY <1>1, SetsOfCalls, FS_Injection

(* Items that wait or run belong to handlers inside, to handlers that were        *)
(* cancelled, or to calculations that hold a permit, one each.                    *)
LEMMA BacklogIsBounded == ServiceInv => BacklogBounded
<1> SUFFICES ASSUME ServiceInv PROVE BacklogBounded
  OBVIOUS
<1> DEFINE Queued == {queue[i] : i \in DOMAIN queue}
           Gone == {r \in Calls : pc[r] = "cancelled"}
           Own == {t \in Queued \cup running : \E r \in Calls : t \in {Auth(r), Reserve(r)}}
           Calculations == {t \in Queued \cup running : \E r \in Calls : t = Task(r)}
<1>p. /\ queue \in Seq(Tasks) /\ ItemsOnce /\ \A r \in Calls : Sound(r)
      /\ SlotsConserved /\ slots \in Nat /\ TokensConserved /\ free \in 0..Capacity /\ stray = {}
  BY DEF ServiceInv, ApiInv, TokenInv, TypeInv, TypeOK, ExecutorTypeOK, HandlerTypes
<1>1. \A t \in Queued \cup running : Pending(t)
  BY DEF Pending, Waiting
<1>2. Queued \cup running = Own \cup Calculations
  BY <1>1 DEF ServiceInv, ItemsOwned
<1>3. IsFiniteSet(Own) /\ Cardinality(Own) <= Cardinality(Inside \cup Gone)
  <2>1. ASSUME NEW t \in Own
        PROVE  /\ t[2] \in Inside \cup Gone
               /\ t = IF found[t[2]] = "none" THEN Auth(t[2]) ELSE Reserve(t[2])
    <3>1. PICK r \in Calls : t \in {Auth(r), Reserve(r)}
      OBVIOUS
    <3>2. t[2] = r /\ Pending(t)
      BY <3>1, <1>1 DEF Auth, Reserve
    <3>3. ThreadsSound(r)
      BY <1>p DEF Sound
    <3> QED BY <3>1, <3>2, <3>3 DEF ThreadsSound, Inside, Awaits
  <2>2. \A s, t \in Own : s[2] = t[2] => s = t
    BY <2>1
  <2>3. Inside \cup Gone \in SUBSET Calls
    BY DEF Inside
  <2> HIDE DEF Own, Gone
  <2> QED BY <2>1, <2>2, <2>3, OwnersCount
<1>4. IsFiniteSet(Calculations) /\ Cardinality(Calculations) <= Cardinality(Holders)
  <2>1. ASSUME NEW t \in Calculations
        PROVE  t[2] \in Holders /\ t = Task(t[2])
    <3>1. PICK r \in Calls : t = Task(r)
      OBVIOUS
    <3>2. t[2] = r /\ Pending(t)
      BY <3>1, <1>1 DEF Task
    <3> QED BY <3>1, <3>2, <1>p DEF ServiceInv, ItemsOwned, Pending, Holders, Live
  <2>2. \A s, t \in Calculations : s[2] = t[2] => s = t
    BY <2>1
  <2>3. Holders \in SUBSET Calls
    BY DEF Holders
  <2> HIDE DEF Calculations
  <2> QED BY <2>1, <2>2, <2>3, OwnersCount
<1>5. IsFiniteSet(Queued) /\ Cardinality(Queued) = Len(queue)
  BY <1>p, QueueIsASet
<1>6. Cardinality(Queued \cup running) = Len(queue) + Cardinality(running)
      /\ Cardinality(Queued \cup running) \in Nat
  <2>1. Queued \cap running = {}
    BY <1>p DEF ItemsOnce
  <2>2. IsFiniteSet(Own \cup Calculations)
    BY <1>3, <1>4, FS_Union
  <2>3. IsFiniteSet(Queued \cup running)
    BY <2>2, <1>2
  <2>4. IsFiniteSet(running)
    BY <2>3, FS_Subset
  <2> HIDE DEF Queued
  <2>5. Cardinality(Queued \cup running)
          = Cardinality(Queued) + Cardinality(running) - Cardinality({})
    BY <1>5, <2>1, <2>4, FS_Union
  <2> QED BY <1>5, <2>3, <2>4, <2>5, FS_EmptySet, FS_CardinalityType
<1>7. Cardinality(Own \cup Calculations) <= Cardinality(Own) + Cardinality(Calculations)
      /\ Cardinality(Own) \in Nat /\ Cardinality(Calculations) \in Nat
  <2> HIDE DEF Own, Calculations
  <2>1. IsFiniteSet(Own \cap Calculations)
    BY <1>3, FS_Subset
  <2>2. /\ Cardinality(Own) \in Nat /\ Cardinality(Calculations) \in Nat
        /\ Cardinality(Own \cap Calculations) \in Nat
    BY <2>1, <1>3, <1>4, FS_CardinalityType
  <2>3. Cardinality(Own \cup Calculations) =
          Cardinality(Own) + Cardinality(Calculations) - Cardinality(Own \cap Calculations)
    BY <1>3, <1>4, FS_Union
  <2> QED BY <2>2, <2>3
<1>8. Cardinality(Inside \cup Gone) <= Cardinality(Inside) + Cardinality(Gone)
      /\ Cardinality(Inside) \in Nat /\ Cardinality(Gone) \in Nat
      /\ Cardinality(Inside \cup Gone) \in Nat
  <2>1. Inside \subseteq Calls /\ Gone \subseteq Calls
    BY DEF Inside
  <2> HIDE DEF Gone
  <2>2. IsFiniteSet(Inside) /\ IsFiniteSet(Gone) /\ IsFiniteSet(Inside \cap Gone)
    BY <2>1, SetsOfCalls
  <2>3. /\ Cardinality(Inside) \in Nat /\ Cardinality(Gone) \in Nat
        /\ Cardinality(Inside \cap Gone) \in Nat
    BY <2>2, FS_CardinalityType
  <2>4. Cardinality(Inside \cup Gone) =
          Cardinality(Inside) + Cardinality(Gone) - Cardinality(Inside \cap Gone)
    BY <2>2, FS_Union
  <2>5. Cardinality(Inside \cup Gone) \in Nat
    BY <2>2, FS_Union, FS_CardinalityType
  <2> QED BY <2>3, <2>4, <2>5
<1>9. Cardinality(Inside) <= Slots
  BY <1>8, <1>p, ApiAssumption DEF SlotsConserved
<1>10. Cardinality(Holders) <= Capacity /\ Cardinality(Holders) \in Nat
  <2>1. Cardinality(Holders) \in Nat
    BY SetsOfCalls DEF Holders
  <2> QED BY <2>1, <1>p, ScienceAssumption DEF TokensConserved
<1> HIDE DEF Queued, Own, Calculations, Gone
<1>11. Len(queue) + Cardinality(running) <= Cardinality(Own) + Cardinality(Calculations)
  BY <1>2, <1>6, <1>7
<1>12. Len(queue) + Cardinality(running) \in Nat
  BY <1>6
<1>13. Len(queue) + Cardinality(running) <= Slots + Capacity + Cardinality(Gone)
  BY <1>3, <1>4, <1>7, <1>8, <1>9, <1>10, <1>11, <1>12, ApiAssumption, ScienceAssumption
<1> QED BY <1>13 DEF Gone, BacklogBounded

(* Work in the pool is bounded by the slots, the permits and the handlers that    *)
(* were cancelled, for any number of requests and threads.                        *)
THEOREM BacklogStaysBounded ==
  ASSUME ~StrayStart
  PROVE  ApiSpec => []BacklogBounded
<1>1. ServiceInv /\ [ApiNext]_apiVars => ServiceInv'
  BY NextServiceInv
<1> QED BY <1>1, InitServiceInv, BacklogIsBounded, PTL DEF ApiSpec

(* The permits of a calculation are conserved in the service as a whole, where    *)
(* handlers time out or are cancelled and share the pool with its other threads.  *)
THEOREM PermitsSurviveTheService ==
  ASSUME ~StrayStart
  PROVE  ApiSpec => [](TokensConserved /\ NativeConserved /\ NativeNeverBusy)
<1>1. ServiceInv /\ [ApiNext]_apiVars => ServiceInv'
  BY NextServiceInv
<1>2. ServiceInv => TokensConserved /\ NativeConserved /\ NativeNeverBusy
  BY DEF ServiceInv, TokenInv, TypeInv
<1> QED BY <1>1, <1>2, InitServiceInv, PTL DEF ApiSpec
=============================================================================
