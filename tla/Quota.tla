------------------------------- MODULE Quota -------------------------------
(***************************************************************************)
(* reserve_quota of app/security.py, called by concurrent pool threads and *)
(* by several processes over one SQLite file, with the clock reading that  *)
(* the handler took before it awaited authentication (api.py).             *)
(*                                                                         *)
(* A transaction is split where another thread may run: reading the clock, *)
(* BEGIN IMMEDIATE, SELECT, INSERT OR REPLACE and the commit at the end of *)
(* the with block.  A row the transaction has written is visible to others *)
(* only once committed; a crash or an exception undoes it.  The file, its  *)
(* write lock and its atomic commit are SQLite's.                          *)
(***************************************************************************)
EXTENDS Naturals, FiniteSets

CONSTANTS Requests,
          KeyOf,       \* the key of each request
          LimitOf,     \* per_minute in the key record its authentication returned
          ProcessOf,   \* the server process each request runs in
          MaxRows,     \* rows the table may reach, 128 in the code
          LastMinute,  \* the clock stays within 1..LastMinute
          NoRow        \* the SELECT found no row

Minutes == 1..LastMinute
Keys == {KeyOf[r] : r \in Requests}
Rows == [bucket : Minutes, used : Nat]

ASSUME QuotaAssumption == /\ IsFiniteSet(Requests)
                          /\ LimitOf \in [Requests -> Nat \ {0}]
                          /\ LastMinute \in Nat \ {0}
                          /\ MaxRows \in Nat
                          /\ NoRow \notin Rows

VARIABLES clock,     \* the minute the system clock shows
          table,     \* the committed rows, a function on the keys that have one
          holders,   \* the request whose connection has the write lock, if any
          bucket,    \* the minute each request computes from its clock reading
          row,       \* the row its SELECT returned
          pc,
          charged,   \* the minute each request's commit charged, 0 for none
          answered   \* what reserve_quota returned to the request

vars == <<clock, table, holders, bucket, row, pc, charged, answered>>

Stages == {"idle", "called", "begun", "selected", "written", "committed",
           "returned", "dead"}

TypeOK == /\ clock \in Minutes
          /\ DOMAIN table \subseteq Keys
          /\ \A k \in DOMAIN table : table[k] \in Rows
          /\ holders \subseteq Requests
          /\ bucket \in [Requests -> 0..LastMinute]
          /\ row \in [Requests -> Rows \cup {NoRow}]
          /\ pc \in [Requests -> Stages]
          /\ charged \in [Requests -> 0..LastMinute]
          /\ answered \in [Requests -> {"none", "granted", "refused", "fault"}]

Init == /\ clock \in Minutes
        /\ table = [k \in {} |-> NoRow]
        /\ holders = {}
        /\ bucket = [r \in Requests |-> 0]
        /\ row = [r \in Requests |-> NoRow]
        /\ pc = [r \in Requests |-> "idle"]
        /\ charged = [r \in Requests |-> 0]
        /\ answered = [r \in Requests |-> "none"]

Goto(r, stage) == pc' = [pc EXCEPT ![r] = stage]

\* The clock may advance, and may be set back.
SetClock == /\ clock' \in Minutes
            /\ UNCHANGED <<table, holders, bucket, row, pc, charged, answered>>

\* now = datetime.now(UTC), before the await of authenticate.
Call(r) == /\ pc[r] = "idle"
           /\ bucket' = [bucket EXCEPT ![r] = clock]
           /\ Goto(r, "called")
           /\ UNCHANGED <<clock, table, holders, row, charged, answered>>

\* Leaving the with block or the try block: any exception becomes SecurityStateError,
\* an uncommitted write is rolled back and the lock is given up.
Return(r, result) == /\ Goto(r, "returned")
                     /\ answered' = [answered EXCEPT ![r] = result]
                     /\ holders' = holders \ {r}
                     /\ UNCHANGED <<clock, table, bucket, row, charged>>

\* Variant: an exception after the commit is reported like one before it.
FailLate(r) == /\ pc[r] \in {"called", "begun", "selected", "written", "committed"}
               /\ Return(r, "fault")

\* The file is missing, not private or too large, or its version is not 1; or the
\* lock is not obtained in 0.1 s; or the row is not one that the code writes, or cannot be
\* written; or the commit fails.
Fail(r) == /\ pc[r] \in {"called", "begun", "selected", "written"}
           /\ Return(r, "fault")

Begin(r) == /\ pc[r] = "called"
            /\ holders = {}
            /\ holders' = {r}
            /\ Goto(r, "begun")
            /\ UNCHANGED <<clock, table, bucket, row, charged, answered>>

Fetched(r) == IF KeyOf[r] \in DOMAIN table THEN table[KeyOf[r]] ELSE NoRow

Select(r) == /\ pc[r] = "begun"
             /\ row' = [row EXCEPT ![r] = Fetched(r)]
             /\ Goto(r, "selected")
             /\ UNCHANGED <<clock, table, holders, bucket, charged, answered>>

\* Variant: an earlier minute is accepted.
StateErrorAnyMinute(r) == row[r] = NoRow /\ Cardinality(DOMAIN table) >= MaxRows

\* Variant: the rows are not counted.
StateErrorAnyRows(r) == row[r] # NoRow /\ bucket[r] < row[r].bucket

\* No row and no room for one, or a row of a later minute.
StateError(r) == \/ row[r] = NoRow /\ Cardinality(DOMAIN table) >= MaxRows
                 \/ row[r] # NoRow /\ bucket[r] < row[r].bucket

\* Variant: a new minute does not start at zero.
UsedNeverReset(r) == IF row[r] # NoRow THEN row[r].used ELSE 0

Used(r) == IF row[r] # NoRow /\ row[r].bucket = bucket[r] THEN row[r].used ELSE 0

\* Variant: one reservation too many.
DecideGenerous(r) ==
  /\ pc[r] = "selected"
  /\ \/ StateError(r) /\ Return(r, "fault")
     \/ ~StateError(r) /\ Used(r) > LimitOf[r] /\ Return(r, "refused")
     \/ /\ ~StateError(r) /\ Used(r) <= LimitOf[r]
        /\ Goto(r, "written")
        /\ UNCHANGED <<clock, table, holders, bucket, row, charged, answered>>

Decide(r) ==
  /\ pc[r] = "selected"
  /\ \/ StateError(r) /\ Return(r, "fault")
     \/ ~StateError(r) /\ Used(r) >= LimitOf[r] /\ Return(r, "refused")
     \/ /\ ~StateError(r) /\ Used(r) < LimitOf[r]
        /\ Goto(r, "written")
        /\ UNCHANGED <<clock, table, holders, bucket, row, charged, answered>>

Inserted(r) == [bucket |-> bucket[r], used |-> Used(r) + 1]

Commit(r) ==
  /\ pc[r] = "written"
  /\ table' = [k \in DOMAIN table \cup {KeyOf[r]} |->
                 IF k = KeyOf[r] THEN Inserted(r) ELSE table[k]]
  /\ charged' = [charged EXCEPT ![r] = bucket[r]]
  /\ holders' = holders \ {r}
  /\ Goto(r, "committed")
  /\ UNCHANGED <<clock, bucket, row, answered>>

Grant(r) == pc[r] = "committed" /\ Return(r, "granted")

\* A process dies with all its threads; another may start on the same file.
Crash(p) ==
  LET dying == {r \in Requests : ProcessOf[r] = p /\ pc[r] \notin {"idle", "returned"}}
  IN /\ dying # {}
     /\ pc' = [r \in Requests |-> IF r \in dying THEN "dead" ELSE pc[r]]
     /\ holders' = holders \ dying
     /\ UNCHANGED <<clock, table, bucket, row, charged, answered>>

Step(r) == \/ Fail(r) \/ Begin(r) \/ Select(r) \/ Decide(r) \/ Commit(r) \/ Grant(r)

Next == \/ SetClock
        \/ \E r \in Requests : Call(r) \/ Step(r)
        \/ \E p \in {ProcessOf[r] : r \in Requests} : Crash(p)

Spec == Init /\ [][Next]_vars
-----------------------------------------------------------------------------
Charges(k, m) == {r \in Requests : KeyOf[r] = k /\ charged[r] = m}

(* One write transaction at a time: a request between BEGIN IMMEDIATE and the end *)
(* of its transaction is the only one, so what it read is still in the table.     *)
InTransaction(r) == pc[r] \in {"begun", "selected", "written"}
ReadsStayValid ==
  \A r \in Requests :
    /\ InTransaction(r) <=> r \in holders
    /\ pc[r] \in {"selected", "written"} => row[r] = Fetched(r)

(* The counter of a committed row is the number of reservations really charged to *)
(* its key and minute, across crashes, failed commits and stale clock readings,   *)
(* and nothing is charged to a minute after the row's.                            *)
TableCountsCharges ==
  \A k \in Keys :
    /\ k \notin DOMAIN table => \A m \in Minutes : Charges(k, m) = {}
    /\ k \in DOMAIN table =>
         /\ table[k].used = Cardinality(Charges(k, table[k].bucket))
         /\ \A m \in Minutes : m > table[k].bucket => Charges(k, m) = {}

(* No minute of a key is ever charged beyond the largest limit among the requests *)
(* charged to it, whatever the clock does.                                        *)
NeverOverspent ==
  \A k \in Keys : \A m \in Minutes :
    Charges(k, m) # {} =>
      \E r \in Charges(k, m) : Cardinality(Charges(k, m)) <= LimitOf[r]

(* A request that was granted has been charged; one that was refused or failed    *)
(* has not, and never will be by the transaction it left behind.                  *)
AnswersMatchCharges ==
  \A r \in Requests : /\ answered[r] = "granted" => charged[r] = bucket[r] /\ charged[r] # 0
                      /\ answered[r] \in {"refused", "fault"} => charged[r] = 0

(* The table never grows beyond MaxRows.                                          *)
RowsBounded == Cardinality(DOMAIN table) <= MaxRows

(* A committed row never goes back to an earlier minute, nor its counter down     *)
(* within a minute: a clock set back, or read before another request's, fails.    *)
RowAdvances(k) ==
  k \in DOMAIN table =>
    /\ k \in DOMAIN table'
    /\ \/ table'[k].bucket > table[k].bucket
       \/ table'[k].bucket = table[k].bucket /\ table'[k].used >= table[k].used
RowsAdvance == [][\A k \in Keys : RowAdvances(k)]_vars

(* The transactions implement indivisible reservations.                           *)
Atomic == INSTANCE AtomicQuota
ImplementsAtomicQuota == Atomic!Spec
=============================================================================
