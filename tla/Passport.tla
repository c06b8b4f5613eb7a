------------------------------ MODULE Passport ------------------------------
(***************************************************************************)
(* What one calculation makes of a clock time and of the angles that the   *)
(* native library prints: app/science/ephemeris (worker, contracts,        *)
(* adapter), app/science/natal, the response of app/contracts, the content *)
(* of app/canonical and the sidereal facts of app/lahiri.                  *)
(*                                                                         *)
(* The world's clock ticks once a second; a day has Ticks seconds, and a   *)
(* leap day one more, which no datetime can name.  Years are days of a     *)
(* shortened calendar.  An angle of the library is a number of fine units, *)
(* of which Fine make one unit of the nine decimals kept, and Circle units *)
(* make the circle.                                                        *)
(***************************************************************************)
EXTENDS Integers, Sequences, FiniteSets

CONSTANTS Ticks,
          LocalFirst, LocalLast,    \* the days 1900-01-01 and 2100-12-31
          Y1970, Y1972, Y2017,      \* the first days of these years
          Release,                  \* 2026-07-08
          LeapDays,                 \* LEAP_DATES: days that end with a leap second
          Epoch, DeltaT,            \* TT - UTC when 1972 begins; TT - UT1
          Offsets,                  \* offsets of local time, in seconds
          Fine, Circle,
          Longitudes,               \* of places, in fine units
          Moons, Ayanamshas,        \* what the library may print, in fine units
          None

UtcFirst == LocalFirst - 1          \* 1899-12-31
UtcEnd == LocalLast + 2             \* 2101-01-02

\* A place is within half a circle of Greenwich, what a healthy library prints is on the
\* circle, and None stands for no failure and for no sidereal result.
ASSUME PassportAssumption ==
  /\ {LocalFirst, LocalLast, Y1970, Y1972, Y2017, Release, Epoch, DeltaT} \subseteq Int
  /\ Ticks \in Nat \ {0} /\ Fine \in Nat \ {0} /\ Circle \in Nat \ {0}
  /\ LocalFirst < Y1970 /\ Y1970 < Y1972 /\ Y1972 < Y2017 /\ Y2017 < Release /\ Release < LocalLast
  /\ LeapDays \subseteq Y1972..(Y2017 - 1)
  /\ Offsets \subseteq (1 - Ticks)..(Ticks - 1)
  /\ Circle % 2 = 0
  /\ Longitudes \subseteq Int /\ \A l \in Longitudes : 2 * l \in -(Fine * Circle)..(Fine * Circle)
  /\ Moons \cup Ayanamshas \subseteq 0..(Fine * Circle - 1)
  /\ None \notin {"native_failure", "fallback_rejected", "unsupported_runtime", "timeout",
                  "invalid_result"}
  /\ None \notin [ayanamsha : Ayanamshas, moon : 0..(Fine * Circle - 1)]

VARIABLES world,      \* the clock: its day and second, and the seconds elapsed
          birth,      \* what is asked for
          stage,      \* idle, civil, tropical, done, or the code of a failure
          printed,    \* what the native processes printed, one after the other
          tropical,   \* the response of the tropical profile
          answer      \* the content of the answer

vars == <<world, birth, stage, printed, tropical, answer>>

Day(instant) == instant \div Ticks
Mod(angle) == angle % (Fine * Circle)
-----------------------------------------------------------------------------
(* The clock. *)

Length(day) == IF day \in LeapDays THEN Ticks + 1 ELSE Ticks

Tick == /\ stage = "idle" /\ world.day < UtcEnd
        /\ world' = [day     |-> IF world.tick + 1 = Length(world.day) THEN world.day + 1
                                 ELSE world.day,
                     tick    |-> (world.tick + 1) % Length(world.day),
                     elapsed |-> world.elapsed + 1]
        /\ UNCHANGED <<birth, stage, printed, tropical, answer>>

CivilLimits(date) ==
  {"modern-geography"} \cup (IF date < Y1970 THEN {"pre1970-records"} ELSE {})
                       \cup (IF date > Release THEN {"post-release-rules"} ELSE {})

\* A clock of the supported years shows the present second, with an offset from UTC.
Ask == /\ stage = "idle" /\ world.tick < Ticks
       /\ \E offset \in Offsets, longitude \in Longitudes, lahiri \in BOOLEAN :
            LET utc == world.day * Ticks + world.tick
            IN  /\ Day(utc + offset) \in LocalFirst..LocalLast
                /\ birth' = [utc |-> utc, offset |-> offset, local |-> utc + offset,
                             elapsed |-> world.elapsed, lahiri |-> lahiri,
                             longitude |-> longitude]
       /\ stage' = "civil"
       /\ UNCHANGED <<world, printed, tropical, answer>>
-----------------------------------------------------------------------------
(* The native process. *)

\* Variant: a leap second counts from the first second of its own day.
LeapCountEarly(utc) == Cardinality({day \in LeapDays : Day(utc) >= day})
LeapCount(utc) == Cardinality({day \in LeapDays : Day(utc) > day})

TT(utc) == IF Day(utc) < Y1972 THEN utc + DeltaT ELSE utc + Epoch + LeapCount(utc)
UT1(utc) == IF Day(utc) < Y1972 THEN utc ELSE TT(utc) - DeltaT

WorkerLimits(utc) ==
  {"modelled-ut1"} \cup (IF Day(utc) < Y1972 THEN {"pre1972"} ELSE {})
                   \cup (IF utc >= Y2017 * Ticks THEN {"leap-table-frozen"} ELSE {})

\* What swe.calc and get_ayanamsa_ex have found is printed if the three angles agree.
Run(utc, moon, ayanamsha, sidereal, lahiri) ==
  IF lahiri /\ Mod(moon - ayanamsha) # sidereal THEN [error |-> "invalid_result"]
  ELSE [error |-> None, moon |-> moon, tt |-> TT(utc), ut1 |-> UT1(utc),
        limits |-> WorkerLimits(utc),
        lahiri |-> IF lahiri THEN [ayanamsha |-> ayanamsha, moon |-> sidereal] ELSE None]

\* A healthy process, and those that fail or print something else.
Healthy(utc, lahiri) ==
  {Run(utc, moon, ayanamsha, Mod(moon - ayanamsha), lahiri) : moon \in Moons, ayanamsha \in Ayanamshas}
Faulty(utc, lahiri) ==
  {[error |-> e] : e \in {"native_failure", "fallback_rejected", "unsupported_runtime", "timeout"}}
  \cup {Run(utc, 0, 1, 0, lahiri), Run(utc, Fine * Circle, 0, 0, lahiri)}
  \cup {[Run(utc, 0, 0, 0, lahiri) EXCEPT !.limits = {"modelled-ut1"}],
        [Run(utc, 0, 0, 0, lahiri) EXCEPT !.tt = @ + 1],
        [Run(utc, 0, 0, 0, lahiri) EXCEPT !.lahiri = None]}
-----------------------------------------------------------------------------
(* The adapter and the contracts. *)

InRange(utc) == UtcFirst * Ticks <= utc /\ utc < UtcEnd * Ticks

HalfEven(fine) == LET units == fine \div Fine
                      rest == 2 * (fine % Fine)
                  IN  IF rest > Fine \/ (rest = Fine /\ units % 2 = 1) THEN units + 1 ELSE units

\* Variant: what rounds up to the whole circle stays there.
LongitudeDecimalFull(raw) == HalfEven(raw)
LongitudeDecimal(raw) == HalfEven(raw) % Circle

Angle(raw) == 0 <= raw /\ raw < Fine * Circle
\* BodyLongitude, Longitude and Ayanamsha: a decimal below 360 that is the raw value's.
Representable(raw) == Angle(raw) /\ LongitudeDecimal(raw) < Circle

AstronomyLimits(utc) ==
  {"modelled-ut1"} \cup (IF Day(utc) < Y1972 THEN {"pre1972"}
                         ELSE IF Day(utc) >= Y2017 THEN {"leap-table-frozen"} ELSE {})

\* SwissEphemeris._result and EphemerisResult.coherent; the failure, or None.
Refusal(utc, value) ==
  CASE ~ InRange(utc) -> "internal_error"
    [] InRange(utc) /\ value.error # None -> value.error
    [] InRange(utc) /\ value.error = None ->
         IF Representable(value.moon) /\ value.limits = AstronomyLimits(utc)
         THEN None ELSE "invalid_result"

\* AstroPassportResponseV1.coherent
Coherent(response) == /\ response.utc + response.offset = response.local
                      /\ response.civilLimits = CivilLimits(Day(response.local))
                      /\ response.limits = AstronomyLimits(response.utc)

Response(b, value) ==
  [utc |-> b.utc, offset |-> b.offset, local |-> b.local, longitude |-> b.longitude,
   moon |-> value.moon, decimal |-> LongitudeDecimal(value.moon),
   tt |-> value.tt, ut1 |-> value.ut1,
   limits |-> value.limits, civilLimits |-> CivilLimits(Day(b.local))]

\* Variant: no longitude is moved from one side of the seam to the other.
CoordinateUnmoved(longitude) == HalfEven(longitude)
\* An eastern longitude of 180 degrees is written as the western one.
Coordinate(longitude) == LET units == HalfEven(longitude)
                         IN  IF 2 * units = Circle THEN -units ELSE units

LahiriContent(sidereal) == [ayanamsha |-> LongitudeDecimal(sidereal.ayanamsha) % Circle,
                            moon      |-> LongitudeDecimal(sidereal.moon) % Circle]

Content(response, sidereal) ==
  [utc |-> response.utc, longitude |-> Coordinate(response.longitude),
   moon |-> response.decimal % Circle,
   sidereal |-> IF sidereal = None THEN None ELSE LahiriContent(sidereal)]

\* LahiriResponse.coherent, which compares around the circle.
LahiriCoherent(response, sidereal) ==
  Mod(Mod(response.moon - sidereal.ayanamsha) - sidereal.moon + (Fine * Circle) \div 2)
    = (Fine * Circle) \div 2

Fail(code) == stage' = code /\ UNCHANGED <<tropical, answer>>

\* The first process, its result and the tropical response.
Calculate ==
  /\ stage = "civil"
  /\ \E value \in Healthy(birth.utc, FALSE) \cup Faulty(birth.utc, FALSE) :
       LET response == Response(birth, value)
           refusal == Refusal(birth.utc, value)
       IN  /\ printed' = <<value>>
           /\ \/ refusal # None /\ Fail(refusal)
              \/ refusal = None /\ ~ Coherent(response) /\ Fail("internal_error")
              \/ /\ refusal = None /\ Coherent(response)
                 /\ tropical' = response
                 /\ IF birth.lahiri THEN stage' = "tropical" /\ UNCHANGED answer
                    ELSE stage' = "done" /\ answer' = Content(response, None)
  /\ UNCHANGED <<world, birth>>

\* The second process of a Lahiri request must repeat the tropical facts.
CalculateLahiri ==
  /\ stage = "tropical"
  /\ \E value \in Healthy(birth.utc, TRUE) \cup Faulty(birth.utc, TRUE) :
       LET refusal == Refusal(birth.utc, value)
       IN  /\ printed' = <<printed[1], value>>
           /\ \/ refusal # None /\ Fail(refusal)
              \/ /\ refusal = None
                 /\ \/ value.lahiri = None
                    \/ value.moon # tropical.moon
                    \/ value.tt # tropical.tt
                 /\ Fail("invalid_result")
              \/ /\ refusal = None /\ value.lahiri # None
                 /\ value.moon = tropical.moon /\ value.tt = tropical.tt
                 /\ IF /\ Representable(value.lahiri.ayanamsha)
                       /\ Representable(value.lahiri.moon)
                       /\ LahiriCoherent(tropical, value.lahiri)
                    THEN /\ stage' = "done"
                         /\ answer' = Content(tropical, value.lahiri)
                         /\ UNCHANGED tropical
                    ELSE Fail("internal_error")
  /\ UNCHANGED <<world, birth>>
-----------------------------------------------------------------------------
Init == /\ world = [day |-> UtcFirst, tick |-> 0, elapsed |-> UtcFirst * Ticks]
        /\ birth = None /\ stage = "idle" /\ printed = <<>> /\ tropical = None /\ answer = None

Next == Tick \/ Ask \/ Calculate \/ CalculateLahiri

Spec == Init /\ [][Next]_vars
-----------------------------------------------------------------------------
\* Between any two births from 1972 on, the terrestrial times of the answers differ by
\* the seconds that the world's clock has ticked, leap seconds included, although the
\* clock times in between cannot name them.
TimeFlows ==
  (answer # None /\ Day(birth.utc) >= Y1972 /\ printed[1] \in Healthy(birth.utc, FALSE)) =>
    tropical.tt = birth.elapsed + Epoch

\* With healthy processes that repeat themselves, every second of every supported local
\* day is answered, from the edges of the supported years to each date on which the
\* limitations change: the worker, the result, the response and the content each compute
\* the limits and the roundings anew, and a difference would fail the call.
EveryInstantIsAnswered ==
  \/ stage \in {"idle", "civil", "tropical", "done"}
  \/ printed[1] \notin Healthy(birth.utc, FALSE)
  \/ /\ Len(printed) = 2
     /\ printed[2] \in Healthy(birth.utc, TRUE) => printed[2].moon # printed[1].moon

\* The distance of two angles in fine units around the circle is at most `most`.
Within(a, b, most) == Mod(a - b) <= most \/ Mod(b - a) <= most

\* The content names every angle within the circle, off by half a unit at most around
\* it; the ayanamsha and the sidereal Moon add up to the tropical Moon but for one unit;
\* and a place has one longitude, in the half-open range from -180 to 180 degrees.
AnglesAgree ==
  answer # None =>
    /\ answer.moon \in 0..(Circle - 1)
    /\ Within(answer.moon * Fine, tropical.moon, Fine \div 2)
    /\ -Circle <= 2 * answer.longitude /\ 2 * answer.longitude < Circle
    /\ Within(answer.longitude * Fine, birth.longitude, Fine \div 2)
    /\ answer.sidereal # None =>
         /\ {answer.sidereal.moon, answer.sidereal.ayanamsha} \subseteq 0..(Circle - 1)
         /\ Within((answer.sidereal.moon + answer.sidereal.ayanamsha) * Fine,
                   answer.moon * Fine, Fine)
=============================================================================
