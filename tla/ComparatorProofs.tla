-------------------------- MODULE ComparatorProofs --------------------------
(***************************************************************************)
(* What the conformance comparison accepts and rejects, for any pair of    *)
(* unaltered records and any alterations of any leaves.                    *)
(***************************************************************************)
EXTENDS Comparator, TLAPS

\* A target is a leaf of the person's request or response.
LEMMA Targets ==
  ASSUME NEW person
  PROVE  /\ Target(Q("place_schema"), person) = requests[person].place_schema
         /\ Target(Q("query"), person) = requests[person].query
         /\ Target(Q("time"), person) = requests[person].time
         /\ Target(R("decimal"), person) = responses[person].decimal
         /\ Target(R("hex"), person) = responses[person].hex
         /\ Target(R("manifest_sha256"), person) = responses[person].manifest_sha256
         /\ Target(R("outcome"), person) = responses[person].outcome
         /\ Target(R("place_schema"), person) = responses[person].place_schema
         /\ Target(R("query"), person) = responses[person].query
         /\ Target(R("repository"), person) = responses[person].repository
         /\ Target(R("revision"), person) = responses[person].revision
         /\ Target(R("time"), person) = responses[person].time
         /\ Target(R("tzif"), person) = responses[person].tzif
         /\ Target(R("utc"), person) = responses[person].utc
BY DEF Target, Q, R

\* What the accepted map asks of a record, a request and a response, in one formula.
Agreed(record, person) ==
  /\ requests[person].query = record.raw_query
  /\ responses[person].query = record.raw_query
  /\ requests[person].query = record.search_query
  /\ responses[person].query = record.search_query
  /\ record.place_schema = "selected-place.v1"
  /\ requests[person].place_schema = "SelectedPlaceInput.v1"
  /\ responses[person].place_schema = "SelectedPlaceInput.v1"
  /\ requests[person].time = Microseconds(record.raw_time)
  /\ responses[person].time = Microseconds(record.raw_time)
  /\ record.raw_time[2] # "offset"
  /\ requests[person].time = Microseconds(record.local_time)
  /\ responses[person].time = Microseconds(record.local_time)
  /\ record.local_time[2] # "offset"
  /\ record.status = "resolved"
  /\ responses[person].outcome = "unique"
  /\ record.civil_status = "resolved"
  /\ record.reason = "none"
  /\ record.candidate_ids = "empty"
  /\ record.manifest_sha256 = "oldmanifest"
  /\ responses[person].manifest_sha256 = "newmanifest"
  /\ responses[person].tzif = record.tzif
  /\ record.civil_utc[2] # "+01:00"
  /\ responses[person].utc = Zulu(record.civil_utc)
  /\ record.astronomy_utc[2] # "+01:00"
  /\ responses[person].utc = Zulu(record.astronomy_utc)
  /\ responses[person].hex = record.hex
  /\ record.longitude[1] = Decimal(record.hex)
  /\ responses[person].decimal = record.longitude[1]
  /\ record.repository = "ace"
  /\ responses[person].repository = "apt"
  /\ record.revision = "old"
  /\ responses[person].revision = NewRevision
  /\ responses[0].tzif = record.m_tzif_0
  /\ responses[1].tzif = record.m_tzif_1
  /\ record.m_revision = "old"

\* The leaves of the old record agree one by one if and only if the whole does.
LEMMA LeavesMean ==
  ASSUME NEW record, NEW person \in People
  PROVE  (\A leaf \in DOMAIN Rows : LeafAgrees(leaf, record, person)) <=> Agreed(record, person)
<1> USE DEF LeafAgrees, Admitted, Wanted, Replaced, Rows, Row, PersonOf, Times, Instants
<1>1. LeafAgrees("raw_query", record, person)
        <=> /\ requests[person].query = record.raw_query
            /\ responses[person].query = record.raw_query
  BY Targets
<1>2. LeafAgrees("search_query", record, person)
        <=> /\ requests[person].query = record.search_query
            /\ responses[person].query = record.search_query
  BY Targets
<1>3. LeafAgrees("place_schema", record, person)
        <=> /\ record.place_schema = "selected-place.v1"
            /\ requests[person].place_schema = "SelectedPlaceInput.v1"
            /\ responses[person].place_schema = "SelectedPlaceInput.v1"
  BY Targets
<1>4. LeafAgrees("raw_time", record, person)
        <=> /\ record.raw_time[2] # "offset"
            /\ requests[person].time = Microseconds(record.raw_time)
            /\ responses[person].time = Microseconds(record.raw_time)
  BY Targets
<1>5. LeafAgrees("local_time", record, person)
        <=> /\ record.local_time[2] # "offset"
            /\ requests[person].time = Microseconds(record.local_time)
            /\ responses[person].time = Microseconds(record.local_time)
  BY Targets
<1>6. LeafAgrees("status", record, person)
        <=> /\ record.status = "resolved"
            /\ responses[person].outcome = "unique"
  BY Targets
<1>7. LeafAgrees("civil_status", record, person)
        <=> /\ record.civil_status = "resolved"
            /\ responses[person].outcome = "unique"
  BY Targets
<1>8. LeafAgrees("reason", record, person)
        <=> /\ record.reason = "none"
  OBVIOUS
<1>9. LeafAgrees("candidate_ids", record, person)
        <=> /\ record.candidate_ids = "empty"
  OBVIOUS
<1>10. LeafAgrees("manifest_sha256", record, person)
        <=> /\ record.manifest_sha256 = "oldmanifest"
            /\ responses[person].manifest_sha256 = "newmanifest"
  BY Targets
<1>11. LeafAgrees("tzif", record, person)
        <=> /\ responses[person].tzif = record.tzif
  BY Targets
<1>12. LeafAgrees("civil_utc", record, person)
        <=> /\ record.civil_utc[2] # "+01:00"
            /\ responses[person].utc = Zulu(record.civil_utc)
  BY Targets
<1>13. LeafAgrees("astronomy_utc", record, person)
        <=> /\ record.astronomy_utc[2] # "+01:00"
            /\ responses[person].utc = Zulu(record.astronomy_utc)
  BY Targets
<1>14. LeafAgrees("hex", record, person)
        <=> /\ responses[person].hex = record.hex
  BY Targets
<1>15. LeafAgrees("longitude", record, person)
        <=> /\ record.longitude[1] = Decimal(record.hex)
            /\ responses[person].decimal = record.longitude[1]
  BY Targets
<1>16. LeafAgrees("repository", record, person)
        <=> /\ record.repository = "ace"
            /\ responses[person].repository = "apt"
  BY Targets
<1>17. LeafAgrees("revision", record, person)
        <=> /\ record.revision = "old"
            /\ responses[person].revision = NewRevision
  BY Targets
<1>18. LeafAgrees("m_schema", record, person)
  OBVIOUS
<1>19. LeafAgrees("m_tzif_0", record, person)
        <=> /\ responses[0].tzif = record.m_tzif_0
  BY Targets
<1>20. LeafAgrees("m_tzif_1", record, person)
        <=> /\ responses[1].tzif = record.m_tzif_1
  BY Targets
<1>21. LeafAgrees("m_revision", record, person)
        <=> /\ record.m_revision = "old"
            /\ responses[person].revision = NewRevision
  BY Targets
<1>22. /\ LeafAgrees("m_input_sha256", record, person)
       /\ LeafAgrees("m_methodology", record, person)
       /\ LeafAgrees("natal_projection", record, person)
  OBVIOUS
<1> HIDE DEF LeafAgrees, Admitted, Wanted, Replaced, Rows, Row, PersonOf, Times, Instants
<1>23. DOMAIN Rows = {"raw_query", "search_query", "place_schema", "raw_time", "local_time",
                     "status", "civil_status", "reason", "candidate_ids", "manifest_sha256",
                     "tzif", "civil_utc", "astronomy_utc", "hex", "longitude", "repository",
                     "revision", "m_schema", "m_tzif_0", "m_tzif_1", "m_revision",
                     "m_input_sha256", "m_methodology", "natal_projection"}
  BY DEF Rows
<1> QED BY <1>1, <1>2, <1>3, <1>4, <1>5, <1>6, <1>7, <1>8, <1>9, <1>10, <1>11, <1>12, <1>13,
           <1>14, <1>15, <1>16, <1>17, <1>18, <1>19, <1>20, <1>21, <1>22, <1>23 DEF Agreed
-----------------------------------------------------------------------------
(* The comparison. *)

\* Responses have leaves, whichever they are and whatever stands in them.
Shaped == /\ responses = [p \in People |-> responses[p]]
          /\ \A p \in People :
               responses[p] = [leaf \in DOMAIN responses[p] |-> responses[p][leaf]]

\* What belongs together, as AgreementIsExact has it.
AsGiven == /\ Consistent(old)
           /\ \A p \in People : /\ requests[p] = LegacyRequest(old[p])
                                /\ responses[p] = Project(old[p])
                                /\ ManifestDigest(old[p]) = retained

\* What holds of a verdict on a failure.
Judged(f) ==
  LET shared == Reported(f.cause).category \in {"unresolved_geography", "unavailable"}
  IN  f.accepted <=> /\ f.code = ErrorCode(f.cause.category)
                     /\ f.status = Status(f.code) \/ (f.code = "invalid_request" /\ f.status = 400)
                     /\ shared => f.evidence = f.cause

\* Each record that has been compared agrees, what does not agree is not as it was given,
\* and without alterations nothing has changed.
ComparatorInv ==
  /\ Shaped /\ alterations \in Nat
  /\ alterations = 0 => AsGiven
  /\ stage \in {"old0", "old1", "agree"} =>
       \A p \in People : ValidRequest(requests[p]) /\ ValidResponse(responses[p])
  /\ stage = "old1" => RecordAgrees(old[0], 0)
  /\ stage = "agree" => RecordAgrees(old[0], 0) /\ RecordAgrees(old[1], 1)
  /\ stage = "mismatch" => ~ AsGiven
  /\ stage = "error" => Judged(failure)

LEMMA ProjectionIsShaped ==
  ASSUME NEW record
  PROVE  Project(record) = [leaf \in ResponseLeaves |-> Project(record)[leaf]]
BY DEF Project, ResponseLeaves

\* Consistent records pass both sides of the comparison.
LEMMA GivenAgrees ==
  ASSUME AsGiven, NEW p \in People
  PROVE  ValidRequest(requests[p]) /\ ValidResponse(responses[p]) /\ RecordAgrees(old[p], p)
<1> DEFINE record == old[p]
<1>1. /\ requests[p] = LegacyRequest(record) /\ responses[p] = Project(record)
      /\ ManifestDigest(record) = retained
      /\ responses[0] = Project(old[0]) /\ responses[1] = Project(old[1])
  BY DEF AsGiven, People
<1>2. /\ DOMAIN record = DOMAIN Rows
      /\ record.raw_query = record.search_query
      /\ record.place_schema = "selected-place.v1" /\ record.repository = "ace"
      /\ record.revision = "old" /\ record.m_revision = "old"
      /\ record.manifest_sha256 = "oldmanifest"
      /\ record.status = "resolved" /\ record.civil_status = "resolved"
      /\ record.reason = "none" /\ record.candidate_ids = "empty"
      /\ record.local_time[1] = record.raw_time[1]
      /\ record.raw_time[2] # "offset" /\ record.local_time[2] # "offset"
      /\ record.civil_utc[1] = record.raw_time[1] /\ record.civil_utc[2] # "+01:00"
      /\ record.astronomy_utc[1] = record.raw_time[1] /\ record.astronomy_utc[2] # "+01:00"
      /\ record.longitude[1] = Decimal(record.hex)
      /\ record.m_tzif_0 = old[0].tzif /\ record.m_tzif_1 = old[1].tzif
  BY DEF AsGiven, Consistent, Replaced, Instants, Times
<1> HIDE DEF record
<1>3. ValidRequest(requests[p])
  BY <1>1, <1>2 DEF ValidRequest, LegacyRequest, Replaced, Microseconds, RequestLeaves
<1>4. ValidResponse(responses[p])
  BY <1>1, <1>2 DEF ValidResponse, Project, Replaced, Microseconds, Zulu, ResponseLeaves
<1>5. responses[0].tzif = old[0].tzif /\ responses[1].tzif = old[1].tzif
  BY <1>1 DEF Project
<1>6. /\ Microseconds(record.local_time) = Microseconds(record.raw_time)
      /\ Zulu(record.astronomy_utc) = Zulu(record.civil_utc)
  BY <1>2 DEF Microseconds, Zulu
<1>7. Agreed(record, p)
  BY <1>1, <1>2, <1>5, <1>6 DEF Agreed, Project, LegacyRequest, Replaced
<1>8. \A leaf \in DOMAIN Rows : LeafAgrees(leaf, record, p)
  BY <1>7, LeavesMean
<1>9. RecordAgrees(record, p)
  BY <1>1, <1>2, <1>8 DEF RecordAgrees
<1> QED BY <1>3, <1>4, <1>9 DEF record

\* What CompareError records about a reply to a request that failed.
Verdict(st, category, code, status, evidence) ==
  LET cause == Cause(st, category)
      row == Dispatched(Reported(cause), evidence, code)
  IN  [cause |-> cause, evidence |-> evidence, code |-> code, status |-> status,
       accepted |-> /\ row # None
                    /\ code = NewCode(row) /\ status \in WireStatus(code)]

\* The row that decides is the one of the cause, or there is none.
LEMMA VerdictsAreJudged ==
  ASSUME NEW st \in DOMAIN Categories, NEW category \in Categories[st], NEW code, NEW status,
         NEW evidence \in {None, Cause(st, category), Cause("calculation", "invalid_input")}
  PROVE  Judged(Verdict(st, category, code, status, evidence))
<1> DEFINE cause == Cause(st, category)
           row == Dispatched(Reported(cause), evidence, code)
           shared == Reported(cause).category \in {"unresolved_geography", "unavailable"}
<1>1. st \in Stages \cup {"outcome"} /\ "outcome" \notin Stages /\ "calculation" \notin Stages
  BY DEF Categories, Stages
<1>2. /\ cause # None /\ Cause("calculation", category) # None
      /\ Cause("calculation", "invalid_input") # None
  <2>1. "boundary" \in DOMAIN Categories /\ "invalid_input" \in Categories["boundary"]
    BY DEF Categories
  <2> QED BY <2>1, ComparatorAssumption
<1>3. cause.stage = st /\ cause.category = category
  BY DEF Cause
<1>4. category \notin {"unresolved_geography", "unavailable"}
  BY DEF Categories
<1>5. status \in WireStatus(code)
        <=> (status = Status(code) \/ (code = "invalid_request" /\ status = 400))
  BY DEF WireStatus, Status
<1>6. evidence.stage = "calculation" \/ evidence = None \/ evidence = cause
  BY DEF Cause
<1>7. row = IF ~ shared THEN Cause("calculation", category)
            ELSE IF evidence = cause THEN cause ELSE None
  <2>1. CASE st = "outcome"
    <3>1. Reported(cause) = Cause("calculation", "unresolved_geography")
      BY <1>3, <2>1 DEF Reported
    <3>2. Reported(cause).category = "unresolved_geography"
      BY <3>1 DEF Cause
    <3>3. row = IF evidence # None /\ evidence.stage = "outcome" THEN evidence ELSE None
      BY <3>2 DEF Dispatched
    <3> QED BY <1>2, <1>3, <1>6, <2>1, <3>2, <3>3
  <2>2. CASE st # "outcome" /\ Reported(cause) = Cause("calculation", category)
    <3>1. Reported(cause).category = category
      BY <2>2 DEF Cause
    <3> QED BY <1>4, <2>2, <3>1 DEF Dispatched
  <2>3. CASE st # "outcome" /\ Reported(cause) = Cause("calculation", "unavailable")
    <3>1. Reported(cause).category = "unavailable"
      BY <2>3 DEF Cause
    <3>2. row = IF evidence # None /\ evidence.stage \in Stages THEN evidence ELSE None
      BY <3>1 DEF Dispatched
    <3> QED BY <1>1, <1>2, <1>3, <1>6, <2>3, <3>1, <3>2
  <2>4. st # "outcome" => Reported(cause) \in {Cause("calculation", category),
                                               Cause("calculation", "unavailable")}
    BY <1>3 DEF Reported
  <2> QED BY <2>1, <2>2, <2>3, <2>4
<1>8. row # None => NewCode(row) = ErrorCode(category)
  <2>1. row # None => row.category = category
    BY <1>3, <1>7 DEF Cause
  <2>2. Accepted[category] = ErrorCode(category)
    BY DEF Accepted, ErrorCode, Categories
  <2> QED BY <2>1, <2>2 DEF NewCode
<1>9. row # None <=> (shared => evidence = cause)
  BY <1>2, <1>7
<1> HIDE DEF cause, row, shared
<1>10. (row # None /\ code = NewCode(row) /\ status \in WireStatus(code))
         <=> /\ code = ErrorCode(category)
             /\ status = Status(code) \/ (code = "invalid_request" /\ status = 400)
             /\ shared => evidence = cause
  BY <1>5, <1>8, <1>9
<1> QED BY <1>3, <1>10 DEF Judged, Verdict, cause, row, shared

LEMMA InitComparatorInv == Init => ComparatorInv
<1> SUFFICES ASSUME Init PROVE ComparatorInv
  OBVIOUS
<1>1. /\ requests = [p \in People |-> LegacyRequest(old[p])]
      /\ responses = [p \in People |-> Project(old[p])]
      /\ Consistent(old) /\ retained = ManifestDigest(old[0])
      /\ alterations = 0 /\ stage = "given"
  BY ComparatorAssumption DEF Init
<1>2. \A p \in People : requests[p] = LegacyRequest(old[p]) /\ responses[p] = Project(old[p])
  BY <1>1
<1>3. responses = [p \in People |-> responses[p]]
  BY <1>1
<1>4. \A p \in People : responses[p] = [leaf \in DOMAIN responses[p] |-> responses[p][leaf]]
  BY <1>2, ProjectionIsShaped
<1>5. \A p \in People : ManifestDigest(old[p]) = retained
  BY <1>1 DEF Consistent
<1> QED BY <1>1, <1>2, <1>3, <1>4, <1>5 DEF ComparatorInv, AsGiven, Shaped

\* A record stays one, whatever is altered in it.
LEMMA AlteredIsShaped ==
  ASSUME NEW record, NEW other \in Altered(record),
         record = [leaf \in DOMAIN record |-> record[leaf]]
  PROVE  other = [leaf \in DOMAIN other |-> other[leaf]]
<1>1. other \in Changed(record) \/ other \in Reduced(record) \/ other = Extended(record)
  BY DEF Altered
<1>2. CASE other \in Changed(record)
  <2>1. PICK leaf \in DOMAIN record : other \in {[record EXCEPT ![leaf] = value] : value \in Values(leaf)}
    BY <1>2 DEF Changed
  <2>2. PICK value : other = [record EXCEPT ![leaf] = value]
    BY <2>1
  <2>3. other = [l \in DOMAIN record |-> IF l = leaf THEN value ELSE record[l]]
    BY <2>2
  <2> QED BY <2>3
<1>3. CASE other \in Reduced(record)
  <2>1. PICK leaf : other = [l \in DOMAIN record \ {leaf} |-> record[l]]
    BY <1>3 DEF Reduced
  <2> QED BY <2>1
<1>4. CASE other = Extended(record)
  BY <1>4 DEF Extended
<1> QED BY <1>1, <1>2, <1>3, <1>4

LEMMA AlterComparatorInv == ASSUME ComparatorInv, Alter PROVE ComparatorInv'
<1>1. /\ stage' = "given" /\ alterations \in Nat /\ alterations' = alterations + 1
      /\ \/ UNCHANGED responses
         \/ \E person \in People : \E response \in Altered(responses[person]) :
              responses' = [responses EXCEPT ![person] = response]
  BY DEF Alter, ComparatorInv
<1>2. Shaped'
  <2>1. CASE UNCHANGED responses
    BY <2>1 DEF ComparatorInv, Shaped
  <2>2. ASSUME NEW person \in People, NEW response \in Altered(responses[person]),
               responses' = [responses EXCEPT ![person] = response]
        PROVE  Shaped'
    <3>1. /\ responses = [p \in People |-> responses[p]]
          /\ \A p \in People :
               responses[p] = [leaf \in DOMAIN responses[p] |-> responses[p][leaf]]
      BY DEF ComparatorInv, Shaped
    <3>2. response = [leaf \in DOMAIN response |-> response[leaf]]
      BY <3>1, AlteredIsShaped
    <3>3. responses' = [p \in People |-> IF p = person THEN response ELSE responses[p]]
      BY <2>2, <3>1
    <3>4. \A p \in People : responses'[p] = IF p = person THEN response ELSE responses[p]
      BY <3>3
    <3>5. \A p \in People : responses'[p] = [leaf \in DOMAIN responses'[p] |-> responses'[p][leaf]]
      BY <3>1, <3>2, <3>4
    <3>6. responses' = [p \in People |-> responses'[p]]
      BY <3>3
    <3> QED BY <3>5, <3>6 DEF Shaped
  <2> QED BY <1>1, <2>1, <2>2
<1> QED BY <1>1, <1>2 DEF ComparatorInv

\* While a comparison goes on nothing that it compares changes.
LEMMA CompareComparatorInv ==
  ASSUME ComparatorInv, UNCHANGED <<old, requests, responses, retained, alterations, failure>>,
         \/ stage = "given" /\ stage' = IF \A p \in People : ValidRequest(requests[p])
                                                              /\ ValidResponse(responses[p])
                                        THEN "old0" ELSE "mismatch"
         \/ stage = "old0" /\ stage' = IF RecordAgrees(old[0], 0) THEN "old1" ELSE "mismatch"
         \/ stage = "old1" /\ stage' = IF RecordAgrees(old[1], 1) THEN "agree" ELSE "mismatch"
  PROVE  ComparatorInv'
<1>1. \A p \in People : RecordAgrees(old[p], p)' = RecordAgrees(old[p], p)
  BY DEF RecordAgrees, LeafAgrees, Target
<1>2. 0 \in People /\ 1 \in People
  BY DEF People
<1>3. RecordAgrees(old[0], 0)' = RecordAgrees(old[0], 0)
      /\ RecordAgrees(old[1], 1)' = RecordAgrees(old[1], 1)
  BY DEF RecordAgrees, LeafAgrees, Target
<1>4. stage' = "mismatch" => ~ AsGiven
  BY <1>2, GivenAgrees DEF ComparatorInv
<1>5. Shaped' /\ AsGiven' = AsGiven /\ (alterations = 0 => AsGiven)
  BY DEF ComparatorInv, Shaped, AsGiven
<1>6. stage' = "old1" => RecordAgrees(old[0], 0)
  OBVIOUS
<1>7. stage' = "agree" => RecordAgrees(old[0], 0) /\ RecordAgrees(old[1], 1)
  BY DEF ComparatorInv
<1>8. stage' # "error"
  OBVIOUS
<1>9. stage' \in {"old0", "old1", "agree"} =>
        \A p \in People : ValidRequest(requests[p]) /\ ValidResponse(responses[p])
  BY DEF ComparatorInv
<1> QED BY <1>3, <1>4, <1>5, <1>6, <1>7, <1>8, <1>9 DEF ComparatorInv

LEMMA CompareErrorComparatorInv == ASSUME ComparatorInv, CompareError PROVE ComparatorInv'
<1>1. PICK st \in DOMAIN Categories : \E category \in Categories[st] :
       \E code \in {ErrorCode(c.category) : c \in Causes}, status \in {400, 408, 422, 500, 503} :
       \E evidence \in {None, Cause(st, category), Cause("calculation", "invalid_input")} :
         failure' = Verdict(st, category, code, status, evidence)
  BY DEF CompareError, Verdict
<1>2. PICK category \in Categories[st] :
       \E code \in {ErrorCode(c.category) : c \in Causes}, status \in {400, 408, 422, 500, 503} :
       \E evidence \in {None, Cause(st, category), Cause("calculation", "invalid_input")} :
         failure' = Verdict(st, category, code, status, evidence)
  BY <1>1
<1>3. PICK code \in {ErrorCode(c.category) : c \in Causes}, status \in {400, 408, 422, 500, 503},
           evidence \in {None, Cause(st, category), Cause("calculation", "invalid_input")} :
         failure' = Verdict(st, category, code, status, evidence)
  BY <1>2
<1>4. Judged(Verdict(st, category, code, status, evidence))
  BY VerdictsAreJudged
<1>5. stage' = "error" /\ UNCHANGED <<old, requests, responses, retained, alterations>>
  BY DEF CompareError
<1>6. Judged(failure)'
  BY <1>3, <1>4 DEF Judged
<1> QED BY <1>5, <1>6 DEF ComparatorInv, Shaped, AsGiven

LEMMA ComparatorInvariant == Spec => []ComparatorInv
<1>1. ComparatorInv /\ [Next]_vars => ComparatorInv'
  <2> SUFFICES ASSUME ComparatorInv, [Next]_vars PROVE ComparatorInv'
    OBVIOUS
  <2>1. CASE CompareNew
    BY <2>1, CompareComparatorInv DEF CompareNew
  <2>2. CASE CompareOld
    BY <2>2, CompareComparatorInv DEF CompareOld
  <2>3. CASE UNCHANGED vars
    <3>1. RecordAgrees(old[0], 0)' = RecordAgrees(old[0], 0)
          /\ RecordAgrees(old[1], 1)' = RecordAgrees(old[1], 1)
      BY <2>3 DEF vars, RecordAgrees, LeafAgrees, Target
    <3> QED BY <2>3, <3>1 DEF vars, ComparatorInv, Shaped, AsGiven, Judged
  <2> QED BY <2>1, <2>2, <2>3, AlterComparatorInv, CompareErrorComparatorInv DEF Next
<1> QED BY InitComparatorInv, <1>1, PTL DEF Spec
-----------------------------------------------------------------------------
\* For any consistent pair of records: comparator.py rejects only what was altered.
THEOREM UnalteredRecordsAgree == Spec => []ProjectionAgrees
<1>1. ComparatorInv => ProjectionAgrees
  BY DEF ComparatorInv, ProjectionAgrees
<1> QED BY <1>1, ComparatorInvariant, PTL

\* A response that agrees with its record, and is valid, is the projection of it.
LEMMA AgreedIsProjected ==
  ASSUME NEW record, NEW p \in People, Shaped, ValidResponse(responses[p]), Agreed(record, p)
  PROVE  responses[p] = Project(record)
<1>1. responses[p] = [leaf \in ResponseLeaves |-> responses[p][leaf]]
  BY DEF Shaped, ValidResponse
<1>2. \A leaf \in ResponseLeaves : responses[p][leaf] = Project(record)[leaf]
  BY DEF Agreed, Project, ResponseLeaves, Replaced
<1> QED BY <1>1, <1>2, ProjectionIsShaped

\* Two records that agree, with valid responses, are a consistent pair.
LEMMA AgreedIsConsistent ==
  ASSUME \A p \in People : ValidResponse(responses[p]) /\ RecordAgrees(old[p], p)
  PROVE  Consistent(old)
<1>1. 0 \in People /\ 1 \in People
  BY DEF People
<1>2. \A p \in People : Agreed(old[p], p)
  BY LeavesMean DEF RecordAgrees
<1>3. \A p \in People : /\ ManifestDigest(old[p]) = ManifestDigest(old[0])
                        /\ old[p].m_tzif_0 = old[0].tzif /\ old[p].m_tzif_1 = old[1].tzif
  BY <1>1, <1>2 DEF RecordAgrees, Agreed
<1>4. ASSUME NEW p \in People
      PROVE  LET record == old[p]
             IN  /\ record.local_time[1] = record.raw_time[1]
                 /\ record.civil_utc[1] = record.raw_time[1]
                 /\ record.astronomy_utc[1] = record.raw_time[1]
  <2> DEFINE record == old[p]
             response == responses[p]
  <2>1. /\ response.time = Microseconds(record.raw_time)
        /\ response.time = Microseconds(record.local_time)
        /\ response.utc = Zulu(record.civil_utc) /\ response.utc = Zulu(record.astronomy_utc)
        /\ response.time[1] = response.utc[1]
    BY <1>2 DEF Agreed, ValidResponse
  <2> HIDE DEF record, response
  <2>2. /\ response.time[1] = record.raw_time[1] /\ response.time[1] = record.local_time[1]
        /\ response.utc[1] = record.civil_utc[1] /\ response.utc[1] = record.astronomy_utc[1]
    <3>1. \A t : Microseconds(t)[1] = t[1] /\ Zulu(t)[1] = t[1]
      BY DEF Microseconds, Zulu
    <3> QED BY <2>1, <3>1
  <2> QED BY <2>1, <2>2 DEF record
<1>5. ASSUME NEW p \in People
      PROVE  LET record == old[p]
             IN  /\ record.raw_query = record.search_query
                 /\ \A leaf \in DOMAIN Replaced : record[leaf] = Replaced[leaf][1]
                 /\ record.reason = "none" /\ record.candidate_ids = "empty"
                 /\ record.raw_time[2] # "offset" /\ record.local_time[2] # "offset"
                 /\ record.civil_utc[2] # "+01:00" /\ record.astronomy_utc[2] # "+01:00"
                 /\ record.longitude[1] = Decimal(record.hex)
  BY <1>2 DEF Agreed, RecordAgrees, Replaced
<1>6. \A p \in People : DOMAIN old[p] = DOMAIN Rows
  BY DEF RecordAgrees
<1> QED BY <1>3, <1>4, <1>5, <1>6 DEF Consistent, Times, Instants

\* For any number of alterations, of any values, with leaves missing or added: what
\* comparator.py agrees to is a consistent pair with the retained manifest, its requests
\* and its projections, and it agrees to every such pair.
THEOREM AgreementBindsTheRecords == Spec => []AgreementIsExact
<1>1. ASSUME ComparatorInv PROVE AgreementIsExact
  <2>1. stage = "mismatch" => ~ AsGiven
    BY <1>1 DEF ComparatorInv
  <2>2. ASSUME stage = "agree" PROVE AsGiven
    <3>1. \A p \in People : /\ ValidResponse(responses[p])
                            /\ RecordAgrees(old[p], p)
      BY <1>1, <2>2 DEF ComparatorInv, People
    <3>2. \A p \in People : /\ requests[p] = LegacyRequest(old[p])
                            /\ ManifestDigest(old[p]) = retained
                            /\ Agreed(old[p], p)
      BY <3>1, LeavesMean DEF RecordAgrees
    <3>3. \A p \in People : responses[p] = Project(old[p])
      BY <1>1, <3>1, <3>2, AgreedIsProjected DEF ComparatorInv
    <3> QED BY <3>1, <3>2, <3>3, AgreedIsConsistent DEF AsGiven
  <2> QED BY <2>1, <2>2 DEF AgreementIsExact, AsGiven
<1> QED BY <1>1, ComparatorInvariant, PTL

\* For every stage, category, reply and evidence: comparator.py accepts the reply to a
\* failed request exactly if it carries the code and a status of what failed, and what
\* the old service reports under a shared name is retained.
THEOREM AcceptedErrorsHaveEvidence == Spec => []ErrorsNeedEvidence
<1>1. ComparatorInv => ErrorsNeedEvidence
  BY DEF ComparatorInv, ErrorsNeedEvidence, Judged
<1> QED BY <1>1, ComparatorInvariant, PTL
=============================================================================
