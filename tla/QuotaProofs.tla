---------------------------- MODULE QuotaProofs ----------------------------
(***************************************************************************)
(* What module Quota keeps true for any requests, keys, limits, processes, *)
(* clocks and table size.  The invariant joins the table to the charges    *)
(* really committed; it is inductive because a transaction's holder is the *)
(* only one, so the row it selected is still the committed row when it     *)
(* commits.                                                                *)
(***************************************************************************)
EXTENDS Quota, FiniteSetTheorems, TLAPS

(* The write lock has one holder.                                                 *)
OneHolder == \A r, q \in holders : r = q

(* A request that has written may still commit: the checks it passed hold.        *)
WritersMayCommit == \A r \in Requests : pc[r] = "written" => ~StateError(r) /\ Used(r) < LimitOf[r]

(* A request has its minute once it has called, is charged at its commit, and is  *)
(* answered when it returns.                                                      *)
ChargedOnce ==
  \A r \in Requests :
    /\ pc[r] \notin {"idle", "dead"} => bucket[r] \in Minutes
    /\ pc[r] \in {"idle", "called", "begun", "selected", "written"} => charged[r] = 0
    /\ pc[r] = "committed" => charged[r] = bucket[r]
    /\ pc[r] # "returned" => answered[r] = "none"

QuotaInv == /\ TypeOK /\ OneHolder /\ ReadsStayValid /\ WritersMayCommit /\ ChargedOnce
            /\ TableCountsCharges /\ NeverOverspent /\ AnswersMatchCharges /\ RowsBounded
-----------------------------------------------------------------------------
(* Sets of requests are finite, and one more request makes them one larger.       *)
LEMMA SetsOfRequests ==
  ASSUME NEW S, S \subseteq Requests
  PROVE  /\ IsFiniteSet(S) /\ Cardinality(S) \in Nat
         /\ \A r \in Requests \ S : Cardinality(S \cup {r}) = Cardinality(S) + 1
<1>1. IsFiniteSet(S)
  BY QuotaAssumption, FS_Subset
<1> QED BY <1>1, FS_AddElement, FS_CardinalityType

(* There are finitely many keys.                                                  *)
LEMMA SetsOfKeys ==
  ASSUME NEW S, S \subseteq Keys
  PROVE  /\ IsFiniteSet(S) /\ Cardinality(S) \in Nat
         /\ \A k \in Keys : Cardinality(S \cup {k}) =
                              IF k \in S THEN Cardinality(S) ELSE Cardinality(S) + 1
<1>1. IsFiniteSet(Keys)
  <2> DEFINE key == [r \in Requests |-> KeyOf[r]]
  <2>1. key \in Surjection(Requests, Keys)
    BY DEF Surjection, Keys
  <2> QED BY <2>1, QuotaAssumption, FS_Surjection
<1>2. IsFiniteSet(S)
  BY <1>1, FS_Subset
<1> QED BY <1>2, FS_AddElement, FS_CardinalityType

(* The counter a request goes by is the number of requests charged to its minute. *)
LEMMA UsedIsCharged ==
  ASSUME QuotaInv, NEW r \in Requests, pc[r] \in {"selected", "written"}, ~StateError(r)
  PROVE  /\ Used(r) = Cardinality(Charges(KeyOf[r], bucket[r]))
         /\ \A m \in Minutes : m > bucket[r] => Charges(KeyOf[r], m) = {}
<1> DEFINE k == KeyOf[r]
<1>p. /\ row[r] = Fetched(r) /\ bucket[r] \in Minutes /\ k \in Keys
      /\ TableCountsCharges /\ TypeOK
  BY DEF QuotaInv, ReadsStayValid, ChargedOnce, Keys
<1>1. CASE k \notin DOMAIN table
  <2>1. row[r] = NoRow /\ \A m \in Minutes : Charges(k, m) = {}
    BY <1>p, <1>1 DEF Fetched, TableCountsCharges
  <2> QED BY <2>1, <1>p, FS_EmptySet DEF Used
<1>2. CASE k \in DOMAIN table
  <2>1. /\ row[r] = table[k] /\ row[r] \in Rows /\ row[r] # NoRow
        /\ row[r].used = Cardinality(Charges(k, row[r].bucket))
        /\ \A m \in Minutes : m > row[r].bucket => Charges(k, m) = {}
        /\ row[r].bucket <= bucket[r] /\ row[r].bucket \in Nat /\ bucket[r] \in Nat
    BY <1>p, <1>2, QuotaAssumption DEF Fetched, TableCountsCharges, TypeOK, Rows, StateError, Minutes
  <2>2. CASE row[r].bucket = bucket[r]
    BY <2>1, <2>2, <1>p DEF Used, Minutes
  <2>3. CASE row[r].bucket < bucket[r]
    <3>1. Charges(k, bucket[r]) = {} /\ Used(r) = 0
      BY <2>1, <2>3, <1>p DEF Used
    <3> QED BY <3>1, <2>1, <2>3, <1>p, FS_EmptySet DEF Minutes
  <2> QED BY <2>1, <2>2, <2>3
<1> QED BY <1>1, <1>2

(* The invariant holds before any request.                                        *)
LEMMA InitQuotaInv == Init => QuotaInv
<1> SUFFICES ASSUME Init PROVE QuotaInv
  OBVIOUS
<1> USE QuotaAssumption DEF Init
<1>1. TypeOK /\ OneHolder
  BY DEF TypeOK, OneHolder, Stages, Minutes
<1>2. ReadsStayValid /\ WritersMayCommit /\ ChargedOnce /\ AnswersMatchCharges
  BY DEF ReadsStayValid, InTransaction, WritersMayCommit, ChargedOnce, AnswersMatchCharges
<1>3. \A k, m : m \in Minutes => Charges(k, m) = {}
  BY DEF Charges, Minutes
<1>4. TableCountsCharges /\ NeverOverspent
  BY <1>3 DEF TableCountsCharges, NeverOverspent
<1>5. RowsBounded
  <2>1. DOMAIN table = {}
    OBVIOUS
  <2> QED BY <2>1, FS_EmptySet DEF RowsBounded
<1> QED BY <1>1, <1>2, <1>4, <1>5 DEF QuotaInv
-----------------------------------------------------------------------------
(* A step that commits nothing preserves what relates the table to the charges.   *)
LEMMA LedgerFrame ==
  ASSUME QuotaInv, table' = table, charged' = charged
  PROVE  TableCountsCharges' /\ NeverOverspent' /\ RowsBounded'
<1>1. \A k, m : Charges(k, m)' = Charges(k, m)
  BY DEF Charges
<1> QED BY <1>1 DEF QuotaInv, TableCountsCharges, NeverOverspent, RowsBounded

(* The checks of a writer concern its own row, minute and the table.              *)
LEMMA WriterFrame ==
  ASSUME QuotaInv, table' = table, row' = row,
         \A r \in Requests : pc'[r] = "written" => pc[r] = "written" /\ bucket'[r] = bucket[r]
  PROVE  WritersMayCommit'
BY DEF QuotaInv, WritersMayCommit, StateError, Used

(* A transaction ends without a commit, or a committed request is granted.        *)
LEMMA ReturnQuotaInv ==
  ASSUME QuotaInv, NEW r \in Requests, NEW result \in {"granted", "refused", "fault"},
         Return(r, result),
         pc[r] \in {"called", "begun", "selected", "written", "committed"},
         result = "granted" <=> pc[r] = "committed"
  PROVE  QuotaInv'
<1> USE DEF Return, Goto
<1>p. TypeOK /\ OneHolder /\ ReadsStayValid /\ ChargedOnce /\ AnswersMatchCharges
  BY DEF QuotaInv
<1>1. TypeOK' /\ OneHolder'
  BY <1>p DEF TypeOK, OneHolder, Stages
<1>2. ReadsStayValid'
  BY <1>p DEF TypeOK, ReadsStayValid, InTransaction, Fetched
<1>3. WritersMayCommit'
  <2>1. \A q \in Requests : pc'[q] = "written" => pc[q] = "written"
    BY <1>p DEF TypeOK
  <2> QED BY <2>1, WriterFrame
<1>4. ChargedOnce'
  BY <1>p DEF TypeOK, ChargedOnce
<1>5. AnswersMatchCharges'
  BY <1>p DEF TypeOK, ChargedOnce, AnswersMatchCharges, Minutes
<1> QED BY <1>1, <1>2, <1>3, <1>4, <1>5, LedgerFrame DEF QuotaInv

(* The commit charges its request and moves the row of its key to its minute.     *)
LEMMA CommitQuotaInv ==
  ASSUME QuotaInv, NEW r \in Requests, Commit(r)
  PROVE  QuotaInv'
<1> USE QuotaAssumption DEF Commit, Goto
<1> DEFINE k == KeyOf[r]
           b == bucket[r]
<1>p. /\ TypeOK /\ OneHolder /\ ReadsStayValid /\ WritersMayCommit /\ ChargedOnce
      /\ TableCountsCharges /\ NeverOverspent /\ AnswersMatchCharges /\ RowsBounded
  BY DEF QuotaInv
<1>a. /\ k \in Keys /\ b \in Minutes /\ charged[r] = 0 /\ ~StateError(r)
      /\ Used(r) < LimitOf[r] /\ row[r] = Fetched(r) /\ r \in holders
  BY <1>p DEF Keys, ChargedOnce, WritersMayCommit, ReadsStayValid, InTransaction
<1>b. /\ Used(r) = Cardinality(Charges(k, b)) /\ Used(r) \in Nat
      /\ \A m \in Minutes : m > b => Charges(k, m) = {}
  <2>1. Charges(k, b) \subseteq Requests
    BY DEF Charges
  <2> QED BY <1>a, <2>1, UsedIsCharged, SetsOfRequests
<1>c. /\ DOMAIN table' = DOMAIN table \cup {k}
      /\ table'[k].bucket = b /\ table'[k].used = Used(r) + 1 /\ table'[k] \in Rows
      /\ \A j \in DOMAIN table : j # k => table'[j] = table[j]
  BY <1>a, <1>b DEF Inserted, Rows
<1>d. \A q \in Requests : q # r => charged'[q] = charged[q] /\ pc'[q] = pc[q]
  BY <1>p DEF TypeOK
<1>e. /\ charged'[r] = b /\ pc'[r] = "committed"
      /\ \A j, m : <<j, m>> # <<k, b>> /\ m \in Minutes => Charges(j, m)' = Charges(j, m)
      /\ Charges(k, b)' = Charges(k, b) \cup {r}
  <2>1. charged'[r] = b /\ pc'[r] = "committed"
    BY <1>p DEF TypeOK
  <2>2. ASSUME NEW j, NEW m \in Minutes, <<j, m>> # <<k, b>>
        PROVE  Charges(j, m)' = Charges(j, m)
    BY <2>1, <2>2, <1>a, <1>d DEF Charges, Minutes
  <2>3. Charges(k, b)' = Charges(k, b) \cup {r}
    BY <2>1, <1>d DEF Charges
  <2> QED BY <2>1, <2>2, <2>3
<1>f. Cardinality(Charges(k, b)') = Used(r) + 1
  <2>1. Charges(k, b) \subseteq Requests /\ r \notin Charges(k, b)
    BY <1>a DEF Charges, Minutes
  <2> QED BY <2>1, <1>b, <1>e, SetsOfRequests
<1>g. holders' = {} /\ \A q \in Requests : pc'[q] \notin {"begun", "selected", "written"}
  BY <1>p, <1>a, <1>d, <1>e DEF OneHolder, ReadsStayValid, InTransaction
<1>1. TypeOK' /\ OneHolder'
  <2>1. charged' \in [Requests -> 0..LastMinute] /\ pc' \in [Requests -> Stages]
    BY <1>p, <1>a DEF TypeOK, Minutes, Stages
  <2>2. DOMAIN table' \subseteq Keys /\ \A j \in DOMAIN table' : table'[j] \in Rows
    BY <1>p, <1>a, <1>c DEF TypeOK
  <2> QED BY <2>1, <2>2, <1>g, <1>p DEF TypeOK, OneHolder
<1>2. ReadsStayValid' /\ WritersMayCommit'
  BY <1>g DEF ReadsStayValid, InTransaction, WritersMayCommit
<1>3. ChargedOnce'
  BY <1>p, <1>a, <1>d, <1>e DEF ChargedOnce
<1>4. AnswersMatchCharges'
  <2>1. ASSUME NEW q \in Requests
        PROVE  /\ answered'[q] = "granted" => charged'[q] = bucket'[q] /\ charged'[q] # 0
               /\ answered'[q] \in {"refused", "fault"} => charged'[q] = 0
    <3>1. CASE q = r
      BY <3>1, <1>p DEF ChargedOnce
    <3>2. CASE q # r
      BY <3>2, <1>d, <1>p DEF AnswersMatchCharges
    <3> QED BY <3>1, <3>2
  <2> QED BY <2>1 DEF AnswersMatchCharges
<1>5. TableCountsCharges'
  <2> DEFINE Counts(j) ==
               /\ j \notin DOMAIN table => \A m \in Minutes : Charges(j, m) = {}
               /\ j \in DOMAIN table =>
                    /\ table[j].used = Cardinality(Charges(j, table[j].bucket))
                    /\ \A m \in Minutes : m > table[j].bucket => Charges(j, m) = {}
  <2> SUFFICES ASSUME NEW j \in Keys PROVE Counts(j)'
    BY DEF TableCountsCharges
  <2>1. CASE j = k
    <3>1. \A m \in Minutes : m > b => Charges(k, m)' = {}
      BY <1>a, <1>b, <1>e DEF Minutes
    <3>2. Charges(k, table[k].bucket)' = Charges(k, b)'
      BY <1>c DEF Charges
    <3> QED BY <2>1, <3>1, <3>2, <1>c, <1>f
  <2>2. CASE j # k
    <3>1. \A m \in Minutes : Charges(j, m)' = Charges(j, m)
      BY <2>2, <1>e
    <3>2. CASE j \in DOMAIN table
      <4>1. table[j].bucket \in Minutes /\ table'[j] = table[j]
        BY <2>2, <3>2, <1>c, <1>p DEF TypeOK, Rows
      <4>2. Charges(j, table[j].bucket)' = Charges(j, table[j].bucket)
        BY <3>1, <4>1 DEF Charges
      <4> QED BY <3>1, <3>2, <4>1, <4>2, <1>c, <1>p DEF TableCountsCharges
    <3>3. CASE j \notin DOMAIN table
      BY <2>2, <3>1, <3>3, <1>c, <1>p DEF TableCountsCharges
    <3> QED BY <3>2, <3>3
  <2> QED BY <2>1, <2>2
<1>6. NeverOverspent'
  <2> SUFFICES ASSUME NEW j \in Keys, NEW m \in Minutes, Charges(j, m)' # {}
               PROVE  \E q \in Charges(j, m)' : Cardinality(Charges(j, m)') <= LimitOf[q]
    BY DEF NeverOverspent, Charges
  <2>1. CASE <<j, m>> = <<k, b>>
    <3>1. r \in Charges(k, b)' /\ Cardinality(Charges(k, b)') <= LimitOf[r]
      BY <1>a, <1>b, <1>e, <1>f
    <3> QED BY <2>1, <3>1
  <2>2. CASE <<j, m>> # <<k, b>>
    <3>1. Charges(j, m)' = Charges(j, m)
      BY <2>2, <1>e
    <3> QED BY <3>1, <1>p DEF NeverOverspent
  <2> QED BY <2>1, <2>2
<1>7. RowsBounded'
  <2>1. DOMAIN table \subseteq Keys
    BY <1>p DEF TypeOK
  <2>2. CASE k \in DOMAIN table
    BY <2>2, <1>c, <1>p DEF RowsBounded
  <2>3. CASE k \notin DOMAIN table
    <3>1. Cardinality(DOMAIN table) < MaxRows /\ Cardinality(DOMAIN table) \in Nat
      BY <2>1, <2>3, <1>a, <1>p, SetsOfKeys DEF Fetched, StateError
    <3>2. Cardinality(DOMAIN table') = Cardinality(DOMAIN table) + 1
      BY <2>1, <2>3, <1>a, <1>c, SetsOfKeys
    <3> QED BY <3>1, <3>2 DEF RowsBounded
  <2> QED BY <2>2, <2>3
<1> QED BY <1>1, <1>2, <1>3, <1>4, <1>5, <1>6, <1>7 DEF QuotaInv

(* Every step of the callers, of SQLite, of the clock and of crashes preserves it. *)
LEMMA NextQuotaInv == QuotaInv /\ [Next]_vars => QuotaInv'
<1> SUFFICES ASSUME QuotaInv, [Next]_vars PROVE QuotaInv'
  OBVIOUS
<1> USE DEF Goto
<1>p. TypeOK /\ OneHolder /\ ReadsStayValid /\ WritersMayCommit /\ ChargedOnce /\ AnswersMatchCharges
  BY DEF QuotaInv
<1>0. CASE UNCHANGED vars \/ SetClock
  <2> USE <1>0 DEF vars, SetClock
  <2>1. TypeOK' /\ OneHolder' /\ ReadsStayValid'
    BY <1>p DEF TypeOK, OneHolder, ReadsStayValid, InTransaction, Fetched
  <2>2. ChargedOnce' /\ AnswersMatchCharges'
    BY <1>p DEF ChargedOnce, AnswersMatchCharges
  <2> QED BY <2>1, <2>2, LedgerFrame, WriterFrame DEF QuotaInv
<1>1. ASSUME NEW r \in Requests, Call(r) PROVE QuotaInv'
  <2> USE <1>1 DEF Call
  <2>1. TypeOK' /\ OneHolder' /\ ReadsStayValid'
    BY <1>p DEF TypeOK, OneHolder, ReadsStayValid, InTransaction, Fetched, Minutes, Stages
  <2>2. ChargedOnce' /\ AnswersMatchCharges'
    BY <1>p DEF ChargedOnce, AnswersMatchCharges, TypeOK
  <2>3. \A q \in Requests : pc'[q] = "written" => pc[q] = "written" /\ bucket'[q] = bucket[q]
    BY <1>p DEF TypeOK
  <2> QED BY <2>1, <2>2, <2>3, LedgerFrame, WriterFrame DEF QuotaInv
<1>2. ASSUME NEW r \in Requests, Fail(r) \/ Grant(r) PROVE QuotaInv'
  BY <1>2, ReturnQuotaInv DEF Fail, Grant
<1>3. ASSUME NEW r \in Requests, Begin(r) \/ Select(r) PROVE QuotaInv'
  <2> USE <1>3 DEF Begin, Select
  <2>1. TypeOK' /\ OneHolder'
    <3>1. Fetched(r) \in Rows \cup {NoRow}
      BY <1>p DEF Fetched, TypeOK
    <3> QED BY <3>1, <1>p DEF TypeOK, OneHolder, Stages
  <2>2. ReadsStayValid'
    BY <1>p DEF TypeOK, ReadsStayValid, InTransaction, Fetched
  <2>3. ChargedOnce' /\ AnswersMatchCharges'
    BY <1>p DEF ChargedOnce, AnswersMatchCharges, TypeOK
  <2>4. WritersMayCommit'
    BY <1>p DEF WritersMayCommit, StateError, Used, TypeOK
  <2> QED BY <2>1, <2>2, <2>3, <2>4, LedgerFrame DEF QuotaInv
<1>4. ASSUME NEW r \in Requests, Decide(r) PROVE QuotaInv'
  <2>1. CASE Return(r, "fault") \/ Return(r, "refused")
    BY <1>4, <2>1, ReturnQuotaInv DEF Decide
  <2>2. CASE ~StateError(r) /\ Used(r) < LimitOf[r] /\ Goto(r, "written")
             /\ UNCHANGED <<clock, table, holders, bucket, row, charged, answered>>
    <3> USE <1>4, <2>2 DEF Decide
    <3>1. TypeOK' /\ OneHolder' /\ ReadsStayValid'
      BY <1>p DEF TypeOK, OneHolder, ReadsStayValid, InTransaction, Fetched, Stages
    <3>2. ChargedOnce' /\ AnswersMatchCharges'
      BY <1>p DEF ChargedOnce, AnswersMatchCharges, TypeOK
    <3>3. WritersMayCommit'
      BY <1>p DEF WritersMayCommit, StateError, Used, TypeOK
    <3> QED BY <3>1, <3>2, <3>3, LedgerFrame DEF QuotaInv
  <2> QED BY <1>4, <2>1, <2>2 DEF Decide
<1>5. ASSUME NEW r \in Requests, Commit(r) PROVE QuotaInv'
  BY <1>5, CommitQuotaInv
<1>6. ASSUME NEW p, Crash(p) PROVE QuotaInv'
  <2> USE <1>6 DEF Crash
  <2>1. TypeOK' /\ OneHolder' /\ ReadsStayValid'
    BY <1>p DEF TypeOK, OneHolder, ReadsStayValid, InTransaction, Fetched, Stages
  <2>2. ChargedOnce' /\ AnswersMatchCharges'
    BY <1>p DEF ChargedOnce, AnswersMatchCharges, TypeOK
  <2>3. \A q \in Requests : pc'[q] = "written" => pc[q] = "written"
    BY <1>p DEF TypeOK
  <2> QED BY <2>1, <2>2, <2>3, LedgerFrame, WriterFrame DEF QuotaInv
<1> QED BY <1>0, <1>1, <1>2, <1>3, <1>4, <1>5, <1>6 DEF Next, Step
-----------------------------------------------------------------------------
(* The counters in the table are the charges committed, for any clock, crashes    *)
(* and interleaving.                                                              *)
THEOREM CountersAreExact == Spec => []TableCountsCharges
<1>1. QuotaInv => TableCountsCharges
  BY DEF QuotaInv
<1> QED BY <1>1, InitQuotaInv, NextQuotaInv, PTL DEF Spec

(* No request is charged beyond its own limit, whatever limit others were given.  *)
THEOREM LimitsAreKept == Spec => []NeverOverspent
<1>1. QuotaInv => NeverOverspent
  BY DEF QuotaInv
<1> QED BY <1>1, InitQuotaInv, NextQuotaInv, PTL DEF Spec

(* Granted requests are charged and refused or failed ones are not.               *)
THEOREM AnswersAreHonest == Spec => []AnswersMatchCharges
<1>1. QuotaInv => AnswersMatchCharges
  BY DEF QuotaInv
<1> QED BY <1>1, InitQuotaInv, NextQuotaInv, PTL DEF Spec

(* The types of module Quota, its lock discipline and the bound on its table.     *)
THEOREM TableIsBounded == Spec => [](TypeOK /\ ReadsStayValid /\ RowsBounded)
<1>1. QuotaInv => TypeOK /\ ReadsStayValid /\ RowsBounded
  BY DEF QuotaInv
<1> QED BY <1>1, InitQuotaInv, NextQuotaInv, PTL DEF Spec

(* Rows only move forward: no clock reading, stale or set back, reopens a minute. *)
THEOREM RowsOnlyAdvance == Spec => RowsAdvance
<1>1. ASSUME QuotaInv, [Next]_vars, NEW k \in Keys
      PROVE  RowAdvances(k)
  <2> SUFFICES ASSUME k \in DOMAIN table PROVE RowAdvances(k)
    BY DEF RowAdvances
  <2>0. table[k].bucket \in Nat /\ table[k].used \in Nat
    BY <1>1 DEF QuotaInv, TypeOK, Rows, Minutes
  <2>1. CASE table' = table
    BY <2>0, <2>1 DEF RowAdvances
  <2>2. ASSUME NEW r \in Requests, Commit(r) PROVE RowAdvances(k)
    <3> USE <1>1, <2>2 DEF Commit
    <3>1. CASE KeyOf[r] # k
      BY <2>0, <3>1 DEF RowAdvances
    <3>2. CASE KeyOf[r] = k
      <4>1. /\ row[r] = table[k] /\ row[r] \in Rows /\ row[r] # NoRow /\ ~StateError(r)
            /\ bucket[r] \in Nat
        BY <3>2, QuotaAssumption
        DEF QuotaInv, ReadsStayValid, Fetched, WritersMayCommit, ChargedOnce, TypeOK, Minutes
      <4>2. table'[k].bucket = bucket[r] /\ table'[k].used = Used(r) + 1 /\ k \in DOMAIN table'
        BY <3>2 DEF Inserted
      <4> QED BY <2>0, <4>1, <4>2 DEF RowAdvances, StateError, Used
    <3> QED BY <3>1, <3>2
  <2> QED BY <1>1, <2>1, <2>2 DEF Next, Step, vars, SetClock, Call, Fail, Begin, Select,
                                  Decide, Grant, Return, Crash
<1>2. QuotaInv /\ [Next]_vars => [\A k \in Keys : RowAdvances(k)]_vars
  BY <1>1
<1> QED BY <1>2, InitQuotaInv, NextQuotaInv, PTL DEF Spec, RowsAdvance
-----------------------------------------------------------------------------
(* AtomicQuota's Cardinality is the one of this module.                           *)
LEMMA SameCardinality == \A S : Atomic!Cardinality(S) = Cardinality(S)
BY DEF Atomic!Cardinality, Cardinality

(* A commit is one indivisible charge.                                            *)
LEMMA CommitCharges ==
  ASSUME QuotaInv, NEW r \in Requests, Commit(r)
  PROVE  Atomic!Charge(r, bucket[r])
<1> DEFINE k == KeyOf[r]
<1>1. /\ answered[r] = "none" /\ charged[r] = 0 /\ bucket[r] \in Minutes
      /\ ~StateError(r) /\ Used(r) < LimitOf[r]
  BY DEF Commit, QuotaInv, ChargedOnce, WritersMayCommit
<1>2. /\ Used(r) = Cardinality(Charges(k, bucket[r]))
      /\ \A m \in Minutes : m > bucket[r] => Charges(k, m) = {}
  BY <1>1, UsedIsCharged DEF Commit
<1>3. \A q \in Requests : KeyOf[q] = k => charged[q] <= bucket[r]
  <2> SUFFICES ASSUME NEW q \in Requests, KeyOf[q] = k, charged[q] > bucket[r]
               PROVE  FALSE
    BY <1>1 DEF QuotaInv, TypeOK, Minutes
  <2>1. charged[q] \in Minutes
    BY <1>1 DEF QuotaInv, TypeOK, Minutes
  <2> QED BY <2>1, <1>2 DEF Charges
<1>4. Atomic!Charges(k, bucket[r]) = Charges(k, bucket[r])
  BY DEF Atomic!Charges, Charges
<1> QED BY <1>1, <1>2, <1>3, <1>4, SameCardinality DEF Atomic!Charge, Atomic!Pending, Commit

(* A refusal finds the minute's charges at the request's limit.                   *)
LEMMA RefusalIsJust ==
  ASSUME QuotaInv, NEW r \in Requests, pc[r] = "selected", ~StateError(r),
         Used(r) >= LimitOf[r], Return(r, "refused")
  PROVE  bucket[r] \in Minutes /\ Atomic!Refuse(r, bucket[r])
<1>1. answered[r] = "none" /\ charged[r] = 0 /\ bucket[r] \in Minutes
  BY DEF QuotaInv, ChargedOnce
<1>2. Used(r) = Cardinality(Charges(KeyOf[r], bucket[r]))
  BY UsedIsCharged
<1>3. Atomic!Charges(KeyOf[r], bucket[r]) = Charges(KeyOf[r], bucket[r])
  BY DEF Atomic!Charges, Charges
<1> QED BY <1>1, <1>2, <1>3, SameCardinality
        DEF Atomic!Refuse, Atomic!Pending, Atomic!Give, Return

(* Every step of a transaction is a step of AtomicQuota or leaves it alone.       *)
LEMMA StepsAreAtomic ==
  ASSUME QuotaInv, [Next]_vars
  PROVE  [Atomic!Next]_(Atomic!quotaVars)
<1>0. CASE UNCHANGED <<charged, answered>>
  BY <1>0 DEF Atomic!quotaVars
<1>1. ASSUME NEW r \in Requests, Commit(r) PROVE Atomic!Next
  <2>1. bucket[r] \in Minutes
    BY <1>1 DEF Commit, QuotaInv, ChargedOnce
  <2> QED BY <1>1, <2>1, CommitCharges DEF Atomic!Next
<1>2. ASSUME NEW r \in Requests, Grant(r) PROVE Atomic!Grant(r)
  <2>1. answered[r] = "none" /\ charged[r] # 0
    BY <1>2 DEF Grant, QuotaInv, ChargedOnce, Minutes
  <2> QED BY <1>2, <2>1 DEF Grant, Return, Atomic!Grant, Atomic!Give
<1>3. ASSUME NEW r \in Requests, Return(r, "fault"),
             pc[r] \in {"called", "begun", "selected", "written"}
      PROVE  Atomic!Fault(r)
  BY <1>3 DEF Return, QuotaInv, ChargedOnce, Atomic!Fault, Atomic!Give, Atomic!Pending
<1>4. ASSUME NEW r \in Requests, Decide(r) PROVE [Atomic!Next]_(Atomic!quotaVars)
  BY <1>0, <1>3, <1>4, RefusalIsJust DEF Decide, Atomic!Next
<1>5. ASSUME NEW r \in Requests, Fail(r) PROVE Atomic!Fault(r)
  BY <1>3, <1>5 DEF Fail
<1> QED BY <1>0, <1>1, <1>2, <1>4, <1>5
        DEF Next, Step, vars, SetClock, Call, Begin, Select, Crash, Atomic!Next

(* The transactions implement indivisible reservations.                           *)
THEOREM ReservationsAreAtomic == Spec => ImplementsAtomicQuota
<1>1. Init => Atomic!Init
  BY DEF Init, Atomic!Init
<1>2. QuotaInv /\ [Next]_vars => [Atomic!Next]_(Atomic!quotaVars)
  BY StepsAreAtomic
<1> QED BY <1>1, <1>2, InitQuotaInv, NextQuotaInv, PTL
        DEF Spec, ImplementsAtomicQuota, Atomic!Spec
=============================================================================
