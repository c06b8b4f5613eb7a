------------------------------ MODULE Boundary ------------------------------
(***************************************************************************)
(* app/science/boundaries: the zone polygons are decoded one feature at a  *)
(* time from a text that is too large for a second copy, and a coordinate  *)
(* is then looked up in them.                                              *)
(*                                                                         *)
(* The text after its fixed prefix is a sequence of tokens: blanks, the    *)
(* marks of JSON, and features with a zone and its polygons.  A polygon is *)
(* a sequence of rings, its shell and then its holes; a ring is a sequence *)
(* of points, and goes around a box unless it is refused.  Longitudes and  *)
(* latitudes are integers, of which Seam stands for 180 degrees and Pole   *)
(* for 90.                                                                 *)
(***************************************************************************)
EXTENDS Integers, Sequences, FiniteSets

CONSTANTS Texts,     \* texts the geometry file may hold
          Catalog,   \* zones of the catalog file
          Points,    \* coordinates <<longitude, latitude>> that may be asked for
          Seam, Pole,
          Faults,    \* sets of checks that may fail before the text is decoded
          None

VARIABLES text, faults, at, features, status, scan, result

vars == <<text, faults, at, features, status, scan, result>>

Abs(i) == IF i < 0 THEN -i ELSE i
-----------------------------------------------------------------------------
(* GEOS: boxes, and whether rings make valid polygons. *)

Side(ring, axis, c) == LET values == {ring[i][axis] : i \in DOMAIN ring}
                       IN  /\ \E v \in values : v <= c
                           /\ \E v \in values : v >= c
Strictly(ring, axis, c) == LET values == {ring[i][axis] : i \in DOMAIN ring}
                           IN  /\ \E v \in values : v < c
                               /\ \E v \in values : v > c
InBox(ring, p) == Side(ring, 1, p[1]) /\ Side(ring, 2, p[2])
InOpenBox(ring, p) == Strictly(ring, 1, p[1]) /\ Strictly(ring, 2, p[2])

\* Where p is: 0 on the line through a and b, positive on one side, negative on the other.
Turn(a, b, p) == (b[1] - a[1]) * (p[2] - a[2]) - (b[2] - a[2]) * (p[1] - a[1])

\* The edges of a ring, each named by the place of its first point.
Edges(ring) == {i \in 1..(Len(ring) - 1) : ring[i] # ring[i + 1]}

\* The ring comes back to no point of its own and crosses no edge of its own.
Simple(ring) ==
  /\ Cardinality(Edges(ring)) >= 3
  /\ \A i, j \in Edges(ring) : i # j =>
       LET a == ring[i]
           b == ring[i + 1]
           c == ring[j]
           d == ring[j + 1]
       IN  /\ a # c
           /\ Turn(a, b, c) = 0 /\ InBox(<<a, b>>, c) => c = b
           /\ ~ (Turn(a, b, c) * Turn(a, b, d) < 0 /\ Turn(c, d, a) * Turn(c, d, b) < 0)

\* Every edge lies on a side of the box.
Boxed(ring) == \A i \in Edges(ring) : \E axis \in {1, 2} :
                 ring[i][axis] = ring[i + 1][axis] /\ ~ Strictly(ring, axis, ring[i][axis])

\* What the boxes of two rings share along an axis: nothing, one number, or a stretch.
Shared(r, s, axis) == {c \in {r[i][axis] : i \in DOMAIN r} \cup {s[i][axis] : i \in DOMAIN s} :
                         Side(r, axis, c) /\ Side(s, axis, c)}
Touch(r, s) == \A axis \in {1, 2} : Cardinality(Shared(r, s, axis)) = 1
Apart(r, s) == Touch(r, s) \/ \E axis \in {1, 2} : Shared(r, s, axis) = {}
Within(r, s) == \A i \in DOMAIN r : InOpenBox(s, r[i])

\* Holes lie within the shell, meet at corners only, and together do not cut the
\* interior: among any of them one meets at most one of the others.
ValidPolygon(rings) ==
  LET holes == 2..Len(rings)
  IN  /\ \A j \in DOMAIN rings : Simple(rings[j])
      /\ \A j \in holes : /\ Within(rings[j], rings[1])
                          /\ \A k \in holes \ {j} : Apart(rings[j], rings[k])
      /\ \A some \in SUBSET holes : some # {} =>
           \E j \in some : Cardinality({k \in some \ {j} : Touch(rings[j], rings[k])}) <= 1

\* geometry.is_valid: a part lies beside each other one or within a hole of it.
IsValid(polygons) ==
  /\ \A i \in DOMAIN polygons : ValidPolygon(polygons[i])
  /\ \A i, k \in DOMAIN polygons : i # k =>
       \/ Apart(polygons[i][1], polygons[k][1])
       \/ \E j \in 2..Len(polygons[i]) : Within(polygons[k][1], polygons[i][j])
       \/ \E j \in 2..Len(polygons[k]) : Within(polygons[i][1], polygons[k][j])
-----------------------------------------------------------------------------
(* Loading. *)

\* The checks of the constructor in their order, and the failure each one raises.
Checks == << <<"runtime", "unsupported_runtime">>,
             <<"archive_readable", "artifact_unavailable">>, <<"archive_digest", "artifact_integrity">>,
             <<"catalog_readable", "artifact_unavailable">>, <<"catalog_digest", "artifact_integrity">>,
             <<"member", "artifact_invalid">>, <<"geometry_digest", "artifact_integrity">>,
             <<"catalog_shape", "artifact_invalid">>, <<"utf8", "artifact_invalid">>,
             <<"prefix", "artifact_invalid">> >>

Load == /\ status = "new"
        /\ LET failed == {i \in DOMAIN Checks : Checks[i][1] \in faults}
           IN  \/ failed = {} /\ status' = "feature"
               \/ \E i \in failed : /\ \A j \in failed : i <= j
                                   /\ status' = Checks[i][2]
        /\ UNCHANGED <<text, faults, at, features, scan, result>>

ValidRing(ring) ==
  /\ Len(ring) >= 4
  /\ \A i \in DOMAIN ring : Abs(ring[i][1]) <= Seam /\ Abs(ring[i][2]) <= Pole
  /\ ring[1] = ring[Len(ring)]
  /\ \A i \in 1..(Len(ring) - 1) :
       LET a == ring[i]
           b == ring[i + 1]
       IN  Abs(b[1] - a[1]) > Seam => a[2] = b[2] /\ Abs(a[2]) = Pole

\* No ring of four points is empty.
Sound(polygons) == /\ polygons # <<>>
                   /\ \A i \in DOMAIN polygons :
                        /\ polygons[i] # <<>>
                        /\ \A j \in DOMAIN polygons[i] : ValidRing(polygons[i][j])
                   /\ IsValid(polygons)

\* The first place from i on that is no blank, or one past the end of the text.
Skip(i) == CHOOSE j \in i..(Len(text) + 1) :
             /\ j <= Len(text) => text[j].is # "blank"
             /\ \A k \in i..(j - 1) : text[k].is = "blank"

Is(i, token) == i <= Len(text) /\ text[i].is = token

Names == {features[i].zone : i \in DOMAIN features}

\* Only blanks follow a ']' that a '}' follows at once.
Ends(i) == /\ Is(i, "bracket") /\ Is(i + 1, "brace")
           /\ Skip(i + 2) > Len(text)

\* The text is at a ']': the list is over.
Close == /\ status = "feature" /\ Is(Skip(at), "bracket")
         /\ status' = IF Ends(Skip(at)) /\ Names = Catalog THEN "ready" ELSE "artifact_invalid"
         /\ UNCHANGED <<text, faults, at, features, scan, result>>

\* The text is anywhere else: what is there must be a new and sound feature.
Feature ==
  /\ status = "feature" /\ ~ Is(Skip(at), "bracket")
  /\ LET i == Skip(at)
     IN  IF /\ Is(i, "feature")
            /\ text[i].zone \in Catalog \ Names
            /\ Len(features) < Cardinality(Catalog)
            /\ Sound(text[i].polygons)
         THEN /\ features' = Append(features, text[i])
              /\ at' = i + 1
              /\ status' = "separator"
         ELSE /\ status' = "artifact_invalid"
              /\ UNCHANGED <<features, at>>
  /\ UNCHANGED <<text, faults, scan, result>>

\* Variant: nothing is looked for after the comma.
SeparatorBlind ==
  /\ status = "separator"
  /\ LET i == Skip(at)
     IN  \/ /\ Is(i, "comma")
            /\ at' = i + 1 /\ status' = "feature"
         \/ /\ Is(i, "bracket")
            /\ at' = i /\ status' = "feature"
         \/ /\ ~ Is(i, "comma") /\ ~ Is(i, "bracket")
            /\ status' = "artifact_invalid" /\ at' = at
  /\ UNCHANGED <<text, faults, features, scan, result>>

\* A comma that no ']' follows, or the ']' itself.
Separator ==
  /\ status = "separator"
  /\ LET i == Skip(at)
     IN  \/ /\ Is(i, "comma") /\ ~ Is(Skip(i + 1), "bracket")
            /\ at' = i + 1 /\ status' = "feature"
         \/ /\ Is(i, "bracket")
            /\ at' = i /\ status' = "feature"
         \/ /\ ~ Is(i, "bracket") /\ (Is(i, "comma") => Is(Skip(i + 1), "bracket"))
            /\ status' = "artifact_invalid" /\ at' = at
  /\ UNCHANGED <<text, faults, features, scan, result>>

\* A MemoryError ends the construction.
BuildFails == /\ status \in {"new", "feature", "separator"}
              /\ status' = "artifact_unavailable"
              /\ UNCHANGED <<text, faults, at, features, scan, result>>
-----------------------------------------------------------------------------
(* Looking up. *)

\* shapely, the point is in the closed region, and in its interior.
Covers(polygons, p) ==
  \E i \in DOMAIN polygons : /\ InBox(polygons[i][1], p)
                             /\ \A j \in 2..Len(polygons[i]) : ~ InOpenBox(polygons[i][j], p)
Contains(polygons, p) ==
  \E i \in DOMAIN polygons : /\ InOpenBox(polygons[i][1], p)
                             /\ \A j \in 2..Len(polygons[i]) : ~ InBox(polygons[i][j], p)

\* STRtree.query: the features whose envelope holds the point.
Hits(p) == {i \in DOMAIN features :
              \E j \in DOMAIN features[i].polygons : InBox(features[i].polygons[j][1], p)}

Outcome(s, reason, ids) == [status |-> s, reason |-> reason, ids |-> ids]

\* TimezoneBoundaryResult.coherent_outcome, the zone of "resolved" being its only id.
Coherent(r) ==
  CASE r.status = "resolved"  -> r.reason = None /\ Cardinality(r.ids) = 1
    [] r.status = "ambiguous" -> r.reason = "multiple_zone_interiors" /\ Cardinality(r.ids) >= 2
    [] r.status = "no_match"  -> r.reason = "outside_dataset" /\ r.ids = {}
    [] r.status = "boundary"  -> \/ r.reason = "polygon_boundary" /\ r.ids # {}
                                 \/ r.reason = "coordinate_seam_or_pole" /\ r.ids = {}

\* Coordinates out of range are refused, those of a seam or a pole are known at once.
Ask == /\ status = "ready" /\ scan = None
       /\ \E p \in Points :
            IF Abs(p[1]) > Seam \/ Abs(p[2]) > Pole
            THEN /\ result' = [point |-> p, outcome |-> Outcome("invalid_input", None, {})]
                 /\ scan' = None
            ELSE IF Abs(p[1]) = Seam \/ Abs(p[2]) = Pole
            THEN /\ result' = [point |-> p,
                               outcome |-> Outcome("boundary", "coordinate_seam_or_pole", {})]
                 /\ scan' = None
            ELSE /\ scan' = [point |-> p, left |-> Hits(p), ids |-> {}, boundary |-> FALSE]
                 /\ result' = None
       /\ UNCHANGED <<text, faults, at, features, status>>

\* Variant: the last feature decides whether the point is on a boundary.
ExamineLast ==
  /\ scan # None
  /\ \E i \in scan.left :
       LET covers == Covers(features[i].polygons, scan.point)
       IN  scan' = [scan EXCEPT
             !.left = @ \ {i},
             !.ids = IF covers THEN @ \cup {features[i].zone} ELSE @,
             !.boundary = IF covers THEN ~ Contains(features[i].polygons, scan.point) ELSE @]
  /\ UNCHANGED <<text, faults, at, features, status, result>>

\* One feature of the tree's answer, which comes in no particular order.
Examine ==
  /\ scan # None
  /\ \E i \in scan.left :
       LET covers == Covers(features[i].polygons, scan.point)
       IN  scan' = [scan EXCEPT
             !.left = @ \ {i},
             !.ids = IF covers THEN @ \cup {features[i].zone} ELSE @,
             !.boundary = @ \/ (covers /\ ~ Contains(features[i].polygons, scan.point))]
  /\ UNCHANGED <<text, faults, at, features, status, result>>

\* The result model refuses an outcome that is not coherent.
Decide ==
  /\ scan # None /\ scan.left = {}
  /\ LET outcome == CASE scan.boundary -> Outcome("boundary", "polygon_boundary", scan.ids)
                      [] ~ scan.boundary /\ Cardinality(scan.ids) > 1 ->
                           Outcome("ambiguous", "multiple_zone_interiors", scan.ids)
                      [] ~ scan.boundary /\ Cardinality(scan.ids) = 1 ->
                           Outcome("resolved", None, scan.ids)
                      [] OTHER -> Outcome("no_match", "outside_dataset", {})
     IN  result' = [point |-> scan.point,
                    outcome |-> IF Coherent(outcome) THEN outcome
                                ELSE Outcome("validation_error", None, {})]
  /\ scan' = None
  /\ UNCHANGED <<text, faults, at, features, status>>

\* The library gives up on a point.
LookupFails ==
  /\ scan # None
  /\ \E failure \in {"artifact_unavailable", "artifact_invalid"} :
       result' = [point |-> scan.point, outcome |-> Outcome(failure, None, {})]
  /\ scan' = None
  /\ UNCHANGED <<text, faults, at, features, status>>
-----------------------------------------------------------------------------
\* The places of a text that hold features, and those up to i that are no blanks.
Listed(t) == {i \in DOMAIN t : t[i].is = "feature"}
Written(t, i) == {j \in DOMAIN t : j <= i /\ t[j].is # "blank"}

\* Which one the token at i is, blanks not counted.
Number(t, i) == Cardinality(Written(t, i))

\* The texts that ought to load: a list of the catalog's zones, once each and all of
\* them sound, with commas between them and with nothing but blanks around the marks.
Whole(t) ==
  LET n == Cardinality(Catalog)
  IN  /\ Number(t, Len(t)) = 2 * n + 1
      /\ \A i \in Written(t, Len(t)) :
           \/ /\ \E m \in 1..n : Number(t, i) = 2 * m - 1
              /\ t[i].is = "feature" /\ Sound(t[i].polygons)
           \/ /\ \E m \in 1..(n - 1) : Number(t, i) = 2 * m
              /\ t[i].is = "comma"
           \/ /\ Number(t, i) = 2 * n
              /\ t[i].is = "bracket" /\ i < Len(t) /\ t[i + 1].is = "brace"
           \/ Number(t, i) = 2 * n + 1 /\ t[i].is = "brace"
      /\ {t[i].zone : i \in Listed(t)} = Catalog

\* The points around p, and p itself.
Near(p) == {<<p[1] + dx, p[2] + dy>> : dx \in -1..1, dy \in -1..1}

\* The grid of the points is finer than the regions: a point lies inside a region
\* exactly if the region covers all points around it.
FinelyDrawn(polygons) ==
  \A p \in Points : Abs(p[1]) < Seam /\ Abs(p[2]) < Pole =>
     (Contains(polygons, p) <=> \A q \in Near(p) : Covers(polygons, q))

ASSUME BoundaryAssumption ==
  /\ Catalog # {} /\ IsFiniteSet(Catalog)
  /\ Seam \in Nat /\ Pole \in Nat /\ Points \subseteq Int \X Int
  /\ \A t \in Texts : t \in Seq({t[i] : i \in DOMAIN t})
  /\ \A f \in UNION {{t[i] : i \in Listed(t)} : t \in Texts} :
       Sound(f.polygons) =>
         /\ FinelyDrawn(f.polygons)
         /\ \A i \in DOMAIN f.polygons : \A j \in DOMAIN f.polygons[i] : Boxed(f.polygons[i][j])
  /\ Faults \subseteq SUBSET {Checks[i][1] : i \in DOMAIN Checks}

Init == /\ text \in Texts /\ faults \in Faults
        /\ at = 1 /\ features = <<>> /\ status = "new"
        /\ scan = None /\ result = None

Next == \/ Load \/ Close \/ Feature \/ Separator \/ BuildFails
        \/ Ask \/ Examine \/ Decide \/ LookupFails

Spec == Init /\ [][Next]_vars
-----------------------------------------------------------------------------
\* The resolver becomes ready on a whole text only, keeping every feature of it in its
\* order, and finds a text that no check before has failed invalid only if it is not
\* whole.  The parser looks ahead for a trailing comma and compares what remains after
\* the list with "]}", so each case is decided by a branch of its own.
ParsedIsWhole ==
  /\ status = "ready" =>
       /\ faults = {} /\ Whole(text)
       /\ Len(features) = Cardinality(Catalog)
       /\ \A i \in Listed(text) : features[(Number(text, i) + 1) \div 2] = text[i]
  /\ status = "artifact_invalid" => faults # {} \/ ~ Whole(text)

\* What an answer claims holds in the text's own polygons: a zone is named alone only
\* where it also covers every point around and no other zone reaches the point; several
\* are named as ambiguous only where each covers every point around; an edge of any of
\* them makes a boundary that names all that reach it, whatever the order of the tree.
OutcomeIsExact ==
  result # None =>
    LET p == result.point
        all == {text[i] : i \in Listed(text)}
        reaching == {f \in all : Covers(f.polygons, p)}
        around == {f \in reaching : \A q \in Near(p) : Covers(f.polygons, q)}
        names == {f.zone : f \in reaching}
    IN  result.outcome.status \notin {"artifact_unavailable", "artifact_invalid"} =>
          IF Abs(p[1]) > Seam \/ Abs(p[2]) > Pole THEN result.outcome.status = "invalid_input"
          ELSE IF Seam = Abs(p[1]) \/ Pole = Abs(p[2])
          THEN result.outcome = Outcome("boundary", "coordinate_seam_or_pole", {})
          ELSE /\ result.outcome.ids = names
               /\ (result.outcome.status = "boundary") <=> (around # reaching)
               /\ (result.outcome.status = "resolved") <=> (around = reaching /\ Cardinality(names) = 1)
               /\ (result.outcome.status = "ambiguous") <=> (around = reaching /\ Cardinality(names) > 1)
               /\ (result.outcome.status = "no_match") <=> (reaching = {})
=============================================================================
