---------------------------- MODULE MCComparator ----------------------------
(* Two people with the same or different facts, clock times in every spelling,   *)
(* and wrong values for every leaf, or none, in up to two places at once.        *)
EXTENDS Comparator

MCDecimal(hex) == CASE hex = "0x0" -> 0 [] hex = "0x1" -> 1 [] OTHER -> 2

Record(time, hex, tzif, tzifs) ==
  [raw_query |-> "q", search_query |-> "q", place_schema |-> "selected-place.v1",
   raw_time |-> <<time, "seconds">>, local_time |-> <<time, "microseconds">>,
   status |-> "resolved", civil_status |-> "resolved", reason |-> "none",
   candidate_ids |-> "empty", natal_projection |-> "s", manifest_sha256 |-> "oldmanifest", tzif |-> tzif,
   civil_utc |-> <<time, "+00:00">>, astronomy_utc |-> <<time, "Z">>,
   hex |-> hex, longitude |-> <<MCDecimal(hex), "plain">>, repository |-> "ace", revision |-> "old",
   m_schema |-> "s", m_methodology |-> "s", m_tzif_0 |-> tzifs[1], m_tzif_1 |-> tzifs[2],
   m_revision |-> "old", m_input_sha256 |-> "d"]

Pair(t0, h0, z0, t1, h1, z1) ==
  [p \in People |-> IF p = 0 THEN Record(t0, h0, z0, <<z0, z1>>) ELSE Record(t1, h1, z1, <<z0, z1>>)]
MCBases == {Pair(1, "0x1", "z", 1, "0x1", "z"), Pair(1, "0x1", "z", 2, "0x0", "y")}

MCValues(leaf) ==
  CASE leaf \in {"raw_query", "search_query", "query"} -> {"q", "other"}
    [] leaf = "place_schema" -> {"selected-place.v1", "SelectedPlaceInput.v1"}
    [] leaf \in {"raw_time", "local_time", "time"} -> {1, 2} \X {"seconds", "microseconds", "offset"}
    [] leaf \in {"civil_utc", "astronomy_utc", "utc"} -> {1, 2} \X {"+00:00", "Z", "+01:00"}
    [] leaf \in {"status", "civil_status"} -> {"resolved", "boundary"}
    [] leaf = "outcome" -> {"unique", "resolved"}
    [] leaf = "reason" -> {"none", "polygon_boundary"}
    [] leaf = "candidate_ids" -> {"empty", "zones"}
    [] leaf = "manifest_sha256" -> {"oldmanifest", "newmanifest"}
    [] leaf \in {"tzif", "m_tzif_0", "m_tzif_1"} -> {"z", "y"}
    [] leaf = "hex" -> {"0x0", "0x1"}
    [] leaf = "longitude" -> {0, 1} \X {"plain", "padded"}
    [] leaf = "decimal" -> {0, 1}
    [] leaf = "repository" -> {"ace", "apt"}
    [] leaf \in {"revision", "m_revision"} -> {"old", "new", "newer"}
    [] OTHER -> {"s", "d", "changed"}
=============================================================================
