---------------------------- MODULE AtomicQuota ----------------------------
(***************************************************************************)
(* What reserve_quota promises: a reservation is one indivisible charge to *)
(* a key and a minute.  A charge is made only while the charges of its key *)
(* and minute are below the request's limit and the key has no charge in a *)
(* later minute; a request is granted only if it was charged.              *)
(***************************************************************************)
EXTENDS Naturals, FiniteSets

CONSTANTS Requests,
          KeyOf,      \* the key of each request
          LimitOf,    \* per_minute of the key record the request was given
          Minutes     \* minutes that can be charged, positive numbers

VARIABLES charged,    \* the minute each request is charged to, 0 for none
          answered    \* "none", "granted", "refused" or "fault"

quotaVars == <<charged, answered>>

Charges(k, m) == {r \in Requests : KeyOf[r] = k /\ charged[r] = m}

Init == /\ charged = [r \in Requests |-> 0]
        /\ answered = [r \in Requests |-> "none"]

Pending(r) == answered[r] = "none" /\ charged[r] = 0

Charge(r, m) == /\ Pending(r)
                /\ Cardinality(Charges(KeyOf[r], m)) < LimitOf[r]
                /\ \A q \in Requests : KeyOf[q] = KeyOf[r] => charged[q] <= m
                /\ charged' = [charged EXCEPT ![r] = m]
                /\ UNCHANGED answered

Give(r, result) == /\ answered' = [answered EXCEPT ![r] = result]
                   /\ UNCHANGED charged

Grant(r) == charged[r] # 0 /\ answered[r] = "none" /\ Give(r, "granted")

Refuse(r, m) == /\ Pending(r)
                /\ Cardinality(Charges(KeyOf[r], m)) >= LimitOf[r]
                /\ Give(r, "refused")

Fault(r) == Pending(r) /\ Give(r, "fault")

Next == \E r \in Requests : \/ \E m \in Minutes : Charge(r, m) \/ Refuse(r, m)
                            \/ Grant(r) \/ Fault(r)

Spec == Init /\ [][Next]_quotaVars
=============================================================================
