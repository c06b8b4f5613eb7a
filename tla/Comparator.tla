----------------------------- MODULE Comparator -----------------------------
(***************************************************************************)
(* conformance/comparator.py: the retained records of the old service for  *)
(* two people, and the requests to and responses of the new one, must      *)
(* agree leaf by leaf under the accepted map, and failures under the       *)
(* accepted error map.                                                     *)
(*                                                                         *)
(* Each rule of the map is represented by the leaves it is about, with the *)
(* targets they have in a request or in a response; a leaf of another path *)
(* under the same rule would behave the same.  A leaf may be missing or be *)
(* one too many.  A clock time is <<instant, spelling>>.                   *)
(***************************************************************************)
EXTENDS Naturals, FiniteSets

CONSTANTS Bases,          \* pairs of unaltered old records
          Values(_),      \* values an altered leaf may take
          MaxAlterations,
          Decimal(_),     \* longitude_decimal of a binary64
          NewRevision,
          None

People == {0, 1}

VARIABLES old, requests, responses, retained, alterations, stage, failure

vars == <<old, requests, responses, retained, alterations, stage, failure>>
-----------------------------------------------------------------------------
(* contracts/accepted/comparator.json *)

Row(class, targets) == [class |-> class, targets |-> targets]
Q(leaf) == <<"request", leaf>>
R(leaf) == <<"response", leaf>>

Rows ==
  [raw_query |-> Row("EXACT_EQUAL", {Q("query"), R("query")}),
   search_query |-> Row("EXACT_EQUAL", {Q("query"), R("query")}),
   place_schema |-> Row("EXPECTED_IDENTITY_SUBSTITUTION", {Q("place_schema"), R("place_schema")}),
   raw_time |-> Row("DERIVED_RECOMPUTE", {Q("time"), R("time")}),
   local_time |-> Row("DERIVED_RECOMPUTE", {Q("time"), R("time")}),
   status |-> Row("ERROR_MAPPING", {R("outcome")}),
   civil_status |-> Row("ERROR_MAPPING", {R("outcome")}),
   reason |-> Row("INTENTIONALLY_ABSENT", {}),
   candidate_ids |-> Row("INTENTIONALLY_ABSENT", {}),
   natal_projection |-> Row("INTENTIONALLY_ABSENT", {}),
   manifest_sha256 |-> Row("DERIVED_RECOMPUTE", {R("manifest_sha256")}),
   tzif |-> Row("EXACT_EQUAL", {R("tzif")}),
   civil_utc |-> Row("DERIVED_RECOMPUTE", {R("utc")}),
   astronomy_utc |-> Row("DERIVED_RECOMPUTE", {R("utc")}),
   hex |-> Row("EXACT_EQUAL", {R("hex")}),
   longitude |-> Row("DERIVED_RECOMPUTE", {R("decimal")}),
   repository |-> Row("EXPECTED_IDENTITY_SUBSTITUTION", {R("repository")}),
   revision |-> Row("EXPECTED_IDENTITY_SUBSTITUTION", {R("revision")}),
   m_schema |-> Row("NOT_COMPARABLE_WITH_REASON", {}),
   m_methodology |-> Row("INTENTIONALLY_ABSENT", {}),
   m_tzif_0 |-> Row("EXACT_EQUAL", {R("tzif")}),
   m_tzif_1 |-> Row("EXACT_EQUAL", {R("tzif")}),
   m_revision |-> Row("EXPECTED_IDENTITY_SUBSTITUTION", {R("revision")}),
   m_input_sha256 |-> Row("DERIVED_RECOMPUTE", {})]

ManifestLeaves == {"m_schema", "m_methodology", "m_tzif_0", "m_tzif_1", "m_revision",
                   "m_input_sha256"}

RequestLeaves == {"query", "place_schema", "time"}
ResponseLeaves == {"query", "place_schema", "time", "outcome", "manifest_sha256", "tzif", "utc",
                   "hex", "decimal", "repository", "revision"}

\* The old identities, which are replaced, and what replaces them.
Replaced == [place_schema    |-> <<"selected-place.v1", "SelectedPlaceInput.v1">>,
             repository      |-> <<"ace", "apt">>,
             revision        |-> <<"old", NewRevision>>,
             m_revision      |-> <<"old", NewRevision>>,
             manifest_sha256 |-> <<"oldmanifest", "newmanifest">>,
             status          |-> <<"resolved", "unique">>,
             civil_status    |-> <<"resolved", "unique">>]

Times == {"raw_time", "local_time"}
Instants == {"civil_utc", "astronomy_utc"}
-----------------------------------------------------------------------------
(* The rules. *)

\* legacy_manifest_digest: the digest of a manifest stands for all of its leaves.
ManifestDigest(record) == [leaf \in ManifestLeaves |-> record[leaf]]

Microseconds(time) == <<time[1], IF time[2] = "offset" THEN "offset" ELSE "microseconds">>
Zulu(instant) == <<instant[1], "Z">>

\* legacy_request, for a record whose query has not been changed in transit.
LegacyRequest(record) == [query        |-> record.search_query,
                          place_schema |-> Replaced["place_schema"][2],
                          time         |-> Microseconds(record.raw_time)]

\* What may stand in the old leaf at all.  Of the leaves that are intentionally absent
\* only two are constrained; the wrapper of the natal facts may hold anything.
Admitted(leaf, record) ==
  LET value == record[leaf]
  IN  /\ leaf \in DOMAIN Replaced => value = Replaced[leaf][1]
      /\ leaf \in Times => value[2] # "offset"
      /\ leaf \in Instants => value[2] # "+01:00"
      /\ leaf = "longitude" => value[1] = Decimal(record.hex)
      /\ leaf = "reason" => value = "none"
      /\ leaf = "candidate_ids" => value = "empty"

\* What must then stand in each of its targets.
Wanted(leaf, value) == CASE leaf \in DOMAIN Replaced -> Replaced[leaf][2]
                         [] leaf \in Times -> Microseconds(value)
                         [] leaf \in Instants -> Zulu(value)
                         [] leaf = "longitude" -> value[1]
                         [] OTHER -> value

\* Variant: the civil entries of a manifest are those of the person at hand.
PersonOfCollapsed(leaf, person) == person
\* A manifest has one civil entry for each person.
PersonOf(leaf, person) == CASE leaf = "m_tzif_0" -> 0 [] leaf = "m_tzif_1" -> 1 [] OTHER -> person

Target(target, person) == IF target[1] = "request" THEN requests[person][target[2]]
                          ELSE responses[person][target[2]]

LeafAgrees(leaf, record, person) ==
  /\ Admitted(leaf, record)
  /\ \A target \in Rows[leaf].targets :
       Target(target, PersonOf(leaf, person)) = Wanted(leaf, record[leaf])

\* Variant: the retained manifest is not looked at.
RecordAgreesLoosely(record, person) ==
  /\ DOMAIN record = DOMAIN Rows
  /\ record.raw_query = record.search_query
  /\ requests[person] = LegacyRequest(record)
  /\ \A leaf \in DOMAIN Rows : LeafAgrees(leaf, record, person)

\* The leaves there are, the manifest, the request, and then what is in every leaf.
RecordAgrees(record, person) ==
  /\ DOMAIN record = DOMAIN Rows
  /\ ManifestDigest(record) = retained
  /\ record.raw_query = record.search_query
  /\ requests[person] = LegacyRequest(record)
  /\ \A leaf \in DOMAIN Rows : LeafAgrees(leaf, record, person)

\* AstroPassportResponseV1 on the leaves represented, and the revision of the caller.
ValidResponse(response) ==
  /\ DOMAIN response = ResponseLeaves
  /\ response.place_schema = Replaced["place_schema"][2]
  /\ response.repository = Replaced["repository"][2]
  /\ response.manifest_sha256 = Replaced["manifest_sha256"][2]
  /\ response.outcome = Replaced["status"][2]
  /\ response.decimal = Decimal(response.hex)
  /\ response.time[2] = "microseconds" /\ response.utc[2] = "Z"
  /\ response.time[1] = response.utc[1]
  /\ response.revision = NewRevision

\* AstroPassportRequestV1, likewise.
ValidRequest(request) ==
  /\ DOMAIN request = RequestLeaves
  /\ request.place_schema = Replaced["place_schema"][2]
  /\ request.time[2] # "offset"

\* project_reference: the response that the old record should be answered with.  It is
\* made from unaltered records, on which its own checks do not fire.
Project(record) == [query           |-> record.raw_query,
                    place_schema    |-> Replaced["place_schema"][2],
                    time            |-> Microseconds(record.raw_time),
                    outcome         |-> Replaced["status"][2],
                    manifest_sha256 |-> Replaced["manifest_sha256"][2],
                    tzif            |-> record.tzif,
                    utc             |-> Zulu(record.civil_utc),
                    hex             |-> record.hex,
                    decimal         |-> record.longitude[1],
                    repository      |-> Replaced["repository"][2],
                    revision        |-> NewRevision]
-----------------------------------------------------------------------------
(* The comparison. *)

\* A record in which one leaf has another value, one is missing, or one is too many.
Changed(record) ==
  UNION {{[record EXCEPT ![leaf] = value] : value \in Values(leaf)} : leaf \in DOMAIN record}
Reduced(record) == {[l \in DOMAIN record \ {leaf} |-> record[l]] : leaf \in DOMAIN record}
Extended(record) == [l \in DOMAIN record \cup {"extra"} |-> IF l = "extra" THEN None ELSE record[l]]

Altered(record) == (Changed(record) \cup Reduced(record) \cup {Extended(record)}) \ {record}

Alter ==
  /\ stage = "given" /\ alterations < MaxAlterations
  /\ \E person \in People :
       \/ /\ \E record \in Altered(old[person]) : old' = [old EXCEPT ![person] = record]
          /\ UNCHANGED <<requests, responses>>
       \/ /\ \E request \in Altered(requests[person]) :
               requests' = [requests EXCEPT ![person] = request]
          /\ UNCHANGED <<old, responses>>
       \/ /\ \E response \in Altered(responses[person]) :
               responses' = [responses EXCEPT ![person] = response]
          /\ UNCHANGED <<old, requests>>
  /\ alterations' = alterations + 1
  /\ UNCHANGED <<retained, stage, failure>>

CompareNew ==
  /\ stage = "given"
  /\ stage' = IF \A p \in People : ValidRequest(requests[p]) /\ ValidResponse(responses[p])
              THEN "old0" ELSE "mismatch"
  /\ UNCHANGED <<old, requests, responses, retained, alterations, failure>>

CompareOld ==
  /\ \/ /\ stage = "old0"
        /\ stage' = IF RecordAgrees(old[0], 0) THEN "old1" ELSE "mismatch"
     \/ /\ stage = "old1"
        /\ stage' = IF RecordAgrees(old[1], 1) THEN "agree" ELSE "mismatch"
  /\ UNCHANGED <<old, requests, responses, retained, alterations, failure>>
-----------------------------------------------------------------------------
(* Failures. *)

Stages == {"boundary", "civil", "ephemeris", "natal"}

\* pipeline.ERROR_CODES, and the boundary outcomes that are no success.
ErrorCode(category) ==
  CASE category = "invalid_input" -> "invalid_request"
    [] category \in {"unresolved_zone", "replay_mismatch"} -> "invalid_result"
    [] category = "ambiguous_local_time" -> "civil_ambiguous"
    [] category = "nonexistent_local_time" -> "civil_nonexistent"
    [] category = "data_unavailable" -> "artifact_unavailable"
    [] category = "data_integrity" -> "artifact_integrity"
    [] category = "async_context" -> "internal_error"
    [] category = "boundary" -> "boundary_boundary"
    [] category = "ambiguous" -> "boundary_ambiguous"
    [] category = "no_match" -> "boundary_no_match"
    [] OTHER -> category

\* science/errors.STATUS
Status(code) ==
  CASE code \in {"artifact_unavailable", "unsupported_runtime", "busy"} -> 503
    [] code = "timeout" -> 408
    [] code \in {"artifact_integrity", "artifact_invalid", "native_failure", "fallback_rejected",
                 "invalid_result", "internal_error"} -> 500
    [] OTHER -> 422

\* The categories that each stage of the old service may fail with.
Categories ==
  [boundary  |-> {"invalid_input", "artifact_unavailable", "artifact_integrity",
                  "artifact_invalid", "unsupported_runtime"},
   civil     |-> {"invalid_input", "unresolved_zone", "invalid_fold", "ambiguous_local_time",
                  "nonexistent_local_time", "artifact_unavailable", "artifact_integrity",
                  "artifact_invalid", "unsupported_runtime"},
   ephemeris |-> {"invalid_input", "data_unavailable", "data_integrity", "unsupported_runtime",
                  "busy", "timeout", "native_failure", "fallback_rejected", "invalid_result"},
   natal     |-> {"invalid_input", "invalid_result", "replay_mismatch", "async_context"},
   outcome   |-> {"boundary", "ambiguous", "no_match"}]

Cause(st, category) == [stage |-> st, category |-> category]
Causes == {Cause(st, c) : st \in Stages \cup {"outcome"}, c \in UNION {Categories[s] : s \in DOMAIN Categories}}

\* contracts/accepted/errors.json: the code of a row, and the statuses of a code.
Accepted ==
  [invalid_input |-> "invalid_request", artifact_unavailable |-> "artifact_unavailable",
   artifact_integrity |-> "artifact_integrity", artifact_invalid |-> "artifact_invalid",
   unsupported_runtime |-> "unsupported_runtime", unresolved_zone |-> "invalid_result",
   invalid_fold |-> "invalid_fold", ambiguous_local_time |-> "civil_ambiguous",
   nonexistent_local_time |-> "civil_nonexistent", data_unavailable |-> "artifact_unavailable",
   data_integrity |-> "artifact_integrity", busy |-> "busy", timeout |-> "timeout",
   native_failure |-> "native_failure", fallback_rejected |-> "fallback_rejected",
   invalid_result |-> "invalid_result", replay_mismatch |-> "invalid_result",
   async_context |-> "internal_error", boundary |-> "boundary_boundary",
   ambiguous |-> "boundary_ambiguous", no_match |-> "boundary_no_match"]

NewCode(cause) == Accepted[cause.category]
WireStatus(code) == IF code = "invalid_request" THEN {400, 422} ELSE {Status(code)}

\* The composed old service reports some categories itself and collapses the others.
Reported(cause) ==
  CASE cause.stage = "outcome" -> Cause("calculation", "unresolved_geography")
    [] cause.category \in {"ambiguous_local_time", "nonexistent_local_time", "invalid_fold",
                           "invalid_input", "busy", "timeout", "invalid_result",
                           "replay_mismatch", "async_context"}
         /\ cause.stage # "outcome" -> Cause("calculation", cause.category)
    [] OTHER -> Cause("calculation", "unavailable")

\* Variant: with no evidence for it, the failure in the response is taken as the cause.
DispatchedInferred(reported, evidence, code) ==
  CASE reported.category = "unresolved_geography" ->
         IF evidence # None /\ evidence.stage = "outcome" THEN evidence ELSE None
    [] reported.category = "unavailable" ->
         IF evidence # None /\ evidence.stage \in Stages THEN evidence
         ELSE CHOOSE inferred \in Causes : NewCode(inferred) = code
    [] OTHER -> reported

\* The row that decides: the reported one, or that of the retained evidence of its stage.
Dispatched(reported, evidence, code) ==
  CASE reported.category = "unresolved_geography" ->
         IF evidence # None /\ evidence.stage = "outcome" THEN evidence ELSE None
    [] reported.category = "unavailable" ->
         IF evidence # None /\ evidence.stage \in Stages THEN evidence ELSE None
    [] OTHER -> reported

\* A failure of the old service with its retained evidence, if any, and a reply.
CompareError ==
  /\ stage = "given" /\ alterations = 0
  /\ \E st \in DOMAIN Categories : \E category \in Categories[st] :
     \E code \in {ErrorCode(c.category) : c \in Causes}, status \in {400, 408, 422, 500, 503} :
     \E evidence \in {None, Cause(st, category), Cause("calculation", "invalid_input")} :
       LET cause == Cause(st, category)
           row == Dispatched(Reported(cause), evidence, code)
       IN  failure' = [cause |-> cause, evidence |-> evidence, code |-> code, status |-> status,
                       accepted |-> /\ row # None
                                    /\ code = NewCode(row) /\ status \in WireStatus(code)]
  /\ stage' = "error"
  /\ UNCHANGED <<old, requests, responses, retained, alterations>>
-----------------------------------------------------------------------------
\* What binds the old records: the leaves of the map and no others, identities and
\* outcomes of the old service, facts that are held twice equal, one manifest for both
\* people with the zone of each, and coherent times.  Nothing binds natal_projection.
Consistent(pair) ==
  /\ \A p \in People : DOMAIN pair[p] = DOMAIN Rows
  /\ \A p \in People :
       LET record == pair[p]
       IN  /\ record.raw_query = record.search_query
           /\ \A leaf \in DOMAIN Replaced : record[leaf] = Replaced[leaf][1]
           /\ record.reason = "none" /\ record.candidate_ids = "empty"
           /\ \A leaf \in Times : /\ record[leaf][1] = record.raw_time[1]
                                  /\ record[leaf][2] # "offset"
           /\ \A leaf \in Instants : /\ record[leaf][1] = record.raw_time[1]
                                     /\ record[leaf][2] # "+01:00"
           /\ record.longitude[1] = Decimal(record.hex)
           /\ ManifestDigest(record) = ManifestDigest(pair[0])
           /\ record.m_tzif_0 = pair[0].tzif /\ record.m_tzif_1 = pair[1].tzif

ASSUME ComparatorAssumption ==
  /\ \A pair \in Bases : Consistent(pair)
  /\ \A st, other \in DOMAIN Categories : \A category \in Categories[other] :
       None \notin {Cause(st, category), Cause("calculation", category)}

Init == /\ old \in Bases
        /\ requests = [p \in People |-> LegacyRequest(old[p])]
        /\ responses = [p \in People |-> Project(old[p])]
        /\ retained = ManifestDigest(old[0])
        /\ alterations = 0 /\ stage = "given" /\ failure = None

Next == Alter \/ CompareNew \/ CompareOld \/ CompareError

Spec == Init /\ [][Next]_vars
-----------------------------------------------------------------------------
\* Records that nobody has altered agree with their own projection, also when the two
\* people have different zones, so that an entry of one person's manifest is about the
\* other one.
ProjectionAgrees == stage = "mismatch" => alterations > 0

\* The comparison agrees exactly on what belongs together, whatever has been altered:
\* old records that are consistent and have the retained manifest, with the requests made
\* from them and the responses they project to.  So an altered fact never passes because
\* a copy of it was left alone, and what the map leaves to the old service, the wrapper of
\* the natal facts, never makes a difference.
AgreementIsExact ==
  stage \in {"agree", "mismatch"} =>
    ((stage = "agree") <=>
       /\ Consistent(old)
       /\ \A p \in People : /\ requests[p] = LegacyRequest(old[p])
                            /\ responses[p] = Project(old[p])
                            /\ ManifestDigest(old[p]) = retained)

\* A reply to a failed request is accepted exactly if it has the code of what failed in
\* the old service, with a status of that code, and that is retained wherever the old
\* service reports it under a name it shares with other failures.
ErrorsNeedEvidence ==
  stage = "error" =>
    LET f == failure
        shared == Reported(f.cause).category \in {"unresolved_geography", "unavailable"}
    IN  f.accepted <=> /\ f.code = ErrorCode(f.cause.category)
                       /\ f.status = Status(f.code) \/ (f.code = "invalid_request" /\ f.status = 400)
                       /\ shared => f.evidence = f.cause
=============================================================================
