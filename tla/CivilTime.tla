----------------------------- MODULE CivilTime -----------------------------
(***************************************************************************)
(* app/science/civil/tzdb.py: a local clock time of a place, and the fold  *)
(* the caller may choose, become one instant or one failure; the result is *)
(* then replayed from the retained rules before astronomy uses it.         *)
(*                                                                         *)
(* A zone is what zoneinfo reads from a TZif file: `changes` instants `at` *)
(* which the offset `off` takes a new value; off[0] is in force before the *)
(* first.  Instants, local times and offsets are integers of one unit.     *)
(***************************************************************************)
EXTENDS Integers, FiniteSets

CONSTANTS Zones,       \* zones, as described
          Locals,      \* local times that may be asked for
          Supported,   \* those of the years 1900 to 2100
          Instants,    \* instants that a claim may name
          NoFold       \* fold_choice is None

Larger(a, b) == IF a >= b THEN a ELSE b
Smaller(a, b) == IF a >= b THEN b ELSE a

\* The local times that a change skips or repeats: from Opens up to Closes.
Opens(z, i) == z.at[i] + Smaller(z.off[i - 1], z.off[i])
Closes(z, i) == z.at[i] + Larger(z.off[i - 1], z.off[i])

\* Changes are far enough apart for the local times they disturb not to overlap.
Spaced(z) == \A i, j \in 1..z.changes :
               i < j => z.at[i] < z.at[j] /\ Closes(z, i) <= Opens(z, j)

Choices == {NoFold, 0, 1, 2}

IsZone(z) == /\ z.changes \in Nat
             /\ z.at \in [1..z.changes -> Int]
             /\ z.off \in [0..z.changes -> Int]

\* No instant that can show a supported local time is left out of Instants.
ASSUME CivilAssumption ==
  /\ \A z \in Zones : IsZone(z) /\ Spaced(z)
  /\ Supported \subseteq Locals
  /\ Locals \subseteq Int /\ Instants \subseteq Int
  /\ \A z \in Zones, clock \in Supported : \A i \in 0..z.changes : clock - z.off[i] \in Instants
  /\ NoFold \notin Int

\* zoneinfo, instant to local time: the offset of the last change that has happened.
OffsetAt(z, utc) == z.off[Cardinality({i \in 1..z.changes : z.at[i] <= utc})]
ToLocal(z, utc) == utc + OffsetAt(z, utc)

\* zoneinfo, local time to offset: fold=0 keeps to the old offset as long as it can.
OffsetOf(z, local, fold) ==
  z.off[Cardinality({i \in 1..z.changes :
                       (IF fold = 0 THEN Closes(z, i) ELSE Opens(z, i)) <= local})]

\* Variant: the same instant is a candidate of both folds.
CandidatesTwice(z, local) ==
  {f \in {0, 1} : ToLocal(z, local - OffsetOf(z, local, f)) = local}

\* The folds whose instant shows the local time again; fold 1 only if it differs.
CandidateFolds(z, local) ==
  {f \in {0, 1} : /\ ToLocal(z, local - OffsetOf(z, local, f)) = local
                  /\ f = 1 => \/ OffsetOf(z, local, 1) # OffsetOf(z, local, 0)
                              \/ ToLocal(z, local - OffsetOf(z, local, 0)) # local}

Failed(category) == [status |-> category]
Resolved(local, utc, choice) == [status |-> "resolved", utc |-> utc,
                                 offset |-> local - utc, fold |-> choice]

Choose(z, local, choice) ==
  LET folds == CandidateFolds(z, local)
      ResolvedAs(f) == Resolved(local, local - OffsetOf(z, local, f), choice)
  IN CASE folds = {} -> Failed("nonexistent_local_time")
       [] folds = {0, 1} /\ choice = NoFold -> Failed("ambiguous_local_time")
       [] folds = {0, 1} /\ choice # NoFold -> ResolvedAs(choice)
       [] folds \in {{0}, {1}} /\ choice # NoFold -> Failed("invalid_fold")
       [] folds \in {{0}, {1}} /\ choice = NoFold -> ResolvedAs(CHOOSE f \in folds : TRUE)

Resolve(z, placed, clock, fold) ==
  IF fold \notin {NoFold, 0, 1} THEN Failed("invalid_fold")
  ELSE IF clock \notin Supported THEN Failed("invalid_input")
  ELSE IF ~placed THEN Failed("unresolved_zone")
  ELSE Choose(z, clock, fold)
-----------------------------------------------------------------------------
VARIABLES zone, located, local, choice,   \* what is asked
          result,                         \* what resolve returned
          claim,                          \* what verify_result is given
          replayed                        \* what it returned

vars == <<zone, located, local, choice, result, claim, replayed>>

Nothing == [status |-> "none"]

Init == /\ zone \in Zones /\ located \in BOOLEAN
        /\ local \in Locals /\ choice \in Choices
        /\ result = Nothing /\ claim = Nothing /\ replayed = Nothing

Answer == /\ result = Nothing
          /\ result' = Resolve(zone, located, local, choice)
          /\ UNCHANGED <<zone, located, local, choice, claim, replayed>>

\* _calculate replays the result itself; verify_result accepts any coherent claim
\* about the same local time, and ResolvedCivilTime lets no other be built.
Claim == /\ result # Nothing /\ claim = Nothing
         /\ local \in Supported /\ located
         /\ \/ result.status = "resolved" /\ claim' = result
            \/ \E utc \in Instants, f \in {NoFold, 0, 1} : claim' = Resolved(local, utc, f)
         /\ UNCHANGED <<zone, located, local, choice, result, replayed>>

\* Variant: the claim is checked for coherence only.
ReplayShape == /\ claim # Nothing /\ replayed = Nothing
               /\ replayed' = claim
               /\ UNCHANGED <<zone, located, local, choice, result, claim>>

\* verify_result: resolve again, and compare; every failure is an invalid input.
Replay == /\ claim # Nothing /\ replayed = Nothing
          /\ LET again == Resolve(zone, located, local, claim.fold)
             IN replayed' = IF again = claim THEN again ELSE Failed("invalid_input")
          /\ UNCHANGED <<zone, located, local, choice, result, claim>>

Next == Answer \/ Claim \/ Replay

Spec == Init /\ [][Next]_vars
-----------------------------------------------------------------------------
\* The instants at which a clock of the zone shows the local time.
Showing == {utc \in Instants : ToLocal(zone, utc) = local}
Earliest(S) == CHOOSE u \in S : \A v \in S : u <= v
Latest(S) == CHOOSE u \in S : \A v \in S : v <= u

Asked == local \in Supported /\ located /\ choice # 2 /\ result # Nothing

(* The round trip through zoneinfo finds exactly the instants that show the local *)
(* time: none is a nonexistent time, one is resolved unless a fold was chosen,    *)
(* two are ambiguous unless one was chosen, fold 0 being the first of the two and *)
(* fold 1 the second.  There are never more.                                      *)
ResolvedIsExact ==
  Asked =>
    CASE Cardinality(Showing) = 0 -> result.status = "nonexistent_local_time"
      [] Cardinality(Showing) = 1 /\ choice = NoFold ->
           result.status = "resolved" /\ result.utc \in Showing
      [] Cardinality(Showing) = 1 /\ choice # NoFold -> result.status = "invalid_fold"
      [] Cardinality(Showing) = 2 /\ choice = NoFold ->
           result.status = "ambiguous_local_time"
      [] Cardinality(Showing) = 2 /\ choice # NoFold ->
           /\ result.status = "resolved"
           /\ result.utc = IF choice = 0 THEN Earliest(Showing) ELSE Latest(Showing)
      [] OTHER -> FALSE

(* verify_result accepts a claim exactly when the retained rules give it: what    *)
(* resolve returned is accepted as it is, and an instant that shows another time, *)
(* or the wrong one of two, or that hides an ambiguity, is refused.               *)
ReplayIsFaithful ==
  replayed # Nothing =>
    (replayed = claim <=>
       /\ claim.utc \in Showing
       /\ \/ claim.fold = NoFold /\ Cardinality(Showing) = 1
          \/ claim.fold = 0 /\ Cardinality(Showing) = 2 /\ claim.utc = Earliest(Showing)
          \/ claim.fold = 1 /\ Cardinality(Showing) = 2 /\ claim.utc = Latest(Showing))
=============================================================================
