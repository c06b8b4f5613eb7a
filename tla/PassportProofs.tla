--------------------------- MODULE PassportProofs ---------------------------
(***************************************************************************)
(* The terrestrial time and the angles of every answer, and that there is  *)
(* an answer, for every calendar, every table of leap days, every length   *)
(* of the day and every circle.                                            *)
(*                                                                         *)
(* TimeInv follows the clock through the layers.  AnswerInv follows what   *)
(* each layer keeps of the birth and of the two native processes.          *)
(***************************************************************************)
EXTENDS Passport, FiniteSetTheorems, TLAPS

Past(day) == {leap \in LeapDays : day > leap}

\* The clock has ticked once a second and once more for each leap day behind it.
WorldSound ==
  /\ world.day \in Int /\ world.tick \in 0..(Length(world.day) - 1)
  /\ world.elapsed = world.day * Ticks + world.tick + Cardinality(Past(world.day))
  /\ world = [day |-> world.day, tick |-> world.tick, elapsed |-> world.elapsed]

\* What is calculated belongs to the birth, and what is answered to what was printed first.
CalculationSound ==
  /\ stage # "idle" => birth.utc \in Int /\ birth.elapsed = birth.utc + LeapCount(birth.utc)
  /\ stage \in {"idle", "civil", "tropical"} => answer = None
  /\ stage = "tropical" => tropical.tt = printed[1].tt
  /\ answer # None => stage # "idle" /\ tropical.tt = printed[1].tt

TimeInv == WorldSound /\ CalculationSound

LEMMA Constants ==
  /\ Ticks \in Int /\ Ticks >= 1
  /\ {LocalFirst, Y1970, Y1972, Y2017, Epoch} \subseteq Int
  /\ LocalFirst < Y1972 /\ LeapDays \subseteq Y1972..(Y2017 - 1)
  /\ Offsets \subseteq Int
  BY PassportAssumption

LEMMA LeapDaysFinite ==
  /\ IsFiniteSet(LeapDays) /\ LeapDays \subseteq Int
  /\ \A day \in Int : IsFiniteSet(Past(day)) /\ Cardinality(Past(day)) \in Nat
<1>1. IsFiniteSet(Y1972..(Y2017 - 1))
  <2>1. Y1972 \in Int /\ Y2017 - 1 \in Int
    BY Constants
  <2> QED BY <2>1, FS_Interval
<1>2. LeapDays \subseteq Y1972..(Y2017 - 1) /\ LeapDays \subseteq Int
  BY Constants
<1>3. IsFiniteSet(LeapDays)
  BY <1>1, <1>2, FS_Subset
<1>4. ASSUME NEW day \in Int
      PROVE  IsFiniteSet(Past(day)) /\ Cardinality(Past(day)) \in Nat
  <2>1. Past(day) \subseteq LeapDays
    BY DEF Past
  <2>2. IsFiniteSet(Past(day))
    BY <1>3, <2>1, FS_Subset
  <2> QED BY <2>2, FS_CardinalityType
<1> QED BY <1>2, <1>3, <1>4

\* Past a leap day there is one more of them, past any other as many as before.
LEMMA OneMoreDay ==
  ASSUME NEW day \in Int
  PROVE  Cardinality(Past(day + 1)) = Cardinality(Past(day)) + Length(day) - Ticks
<1>1. IsFiniteSet(Past(day)) /\ Cardinality(Past(day)) \in Nat
  BY LeapDaysFinite
<1>2. \A leap \in LeapDays : day + 1 > leap <=> day > leap \/ leap = day
  BY LeapDaysFinite
<1>3. CASE day \in LeapDays
  <2>1. Past(day + 1) = Past(day) \cup {day}
    BY <1>2, <1>3 DEF Past
  <2>2. day \notin Past(day)
    BY DEF Past
  <2>3. Cardinality(Past(day) \cup {day}) = Cardinality(Past(day)) + 1
    BY <1>1, <2>2, FS_AddElement
  <2>4. Cardinality(Past(day + 1)) = Cardinality(Past(day)) + 1
    BY <2>1, <2>3
  <2>5. Length(day) = Ticks + 1
    BY <1>3 DEF Length
  <2> QED BY <1>1, <2>4, <2>5, Constants
<1>4. CASE day \notin LeapDays
  <2>1. Past(day + 1) = Past(day)
    BY <1>2, <1>4 DEF Past
  <2>2. Cardinality(Past(day + 1)) = Cardinality(Past(day))
    BY <2>1
  <2>3. Length(day) = Ticks
    BY <1>4 DEF Length
  <2> QED BY <1>1, <2>2, <2>3, Constants
<1> QED BY <1>3, <1>4

LEMMA DayOfClock ==
  ASSUME NEW day \in Int, NEW tick \in 0..(Ticks - 1)
  PROVE  Day(day * Ticks + tick) = day
<1> DEFINE q == (day * Ticks + tick) \div Ticks
<1>1. q \in Int /\ q * Ticks <= day * Ticks + tick /\ day * Ticks + tick < q * Ticks + Ticks
  BY Constants
<1>2. ASSUME q >= day + 1 PROVE q * Ticks >= day * Ticks + Ticks
  BY <1>1, <1>2, Constants
<1>3. ASSUME q <= day - 1 PROVE q * Ticks + Ticks <= day * Ticks
  BY <1>1, <1>3, Constants
<1> HIDE DEF q
<1>4. ~ (q >= day + 1) /\ ~ (q <= day - 1)
  BY <1>1, <1>2, <1>3, Constants
<1> QED BY <1>1, <1>4 DEF Day, q

\* Stages that a failure is not.
Stages == {"idle", "civil", "tropical", "done"}

\* A process prints the terrestrial time of its instant, or an error of its own.
LEMMA ErrorsAreNoStages ==
  ASSUME NEW utc, NEW lahiri \in BOOLEAN,
         NEW value \in Healthy(utc, lahiri) \cup Faulty(utc, lahiri)
  PROVE  Refusal(utc, value) = None \/ Refusal(utc, value) \notin Stages
<1>1. \A moon, ayanamsha, sidereal :
        Run(utc, moon, ayanamsha, sidereal, lahiri).error \in {None, "invalid_result"}
  BY DEF Run
<1>2. value.error = None \/ value.error \notin Stages
  <2>1. CASE value \in Healthy(utc, lahiri)
    BY <1>1, <2>1 DEF Healthy, Stages
  <2>2. CASE value \in {[error |-> e] : e \in {"native_failure", "fallback_rejected",
                                               "unsupported_runtime", "timeout"}}
    BY <2>2 DEF Stages
  <2>3. CASE value \in {Run(utc, 0, 1, 0, lahiri), Run(utc, Fine * Circle, 0, 0, lahiri)}
    BY <1>1, <2>3 DEF Stages
  <2>4. CASE value \in {[Run(utc, 0, 0, 0, lahiri) EXCEPT !.limits = {"modelled-ut1"}],
                        [Run(utc, 0, 0, 0, lahiri) EXCEPT !.tt = @ + 1],
                        [Run(utc, 0, 0, 0, lahiri) EXCEPT !.lahiri = None]}
    BY <2>4 DEF Run, Stages
  <2> QED BY <2>1, <2>2, <2>3, <2>4 DEF Faulty
<1> QED BY <1>2 DEF Refusal, Stages

LEMMA InitTimeInv == Init => TimeInv
<1> SUFFICES ASSUME Init PROVE TimeInv
  OBVIOUS
<1>1. Past(UtcFirst) = {}
  <2>1. \A leap \in LeapDays : ~ (UtcFirst > leap)
    BY Constants DEF UtcFirst
  <2> QED BY <2>1 DEF Past
<1>2. Cardinality(Past(UtcFirst)) = 0
  BY <1>1, FS_EmptySet
<1>3. /\ UtcFirst \in Int /\ UtcFirst * Ticks \in Int /\ Length(UtcFirst) - 1 \in Nat
  BY Constants DEF UtcFirst, Length
<1>4. /\ world.day = UtcFirst /\ world.tick = 0 /\ world.elapsed = UtcFirst * Ticks
      /\ world = [day |-> world.day, tick |-> world.tick, elapsed |-> world.elapsed]
  BY DEF Init
<1>5. WorldSound
  BY <1>2, <1>3, <1>4 DEF WorldSound
<1>6. CalculationSound
  BY DEF Init, CalculationSound
<1> QED BY <1>5, <1>6 DEF TimeInv

LEMMA TickTimeInv == ASSUME TimeInv, Tick PROVE TimeInv'
<1> DEFINE day == world.day
           tick == world.tick
           last == tick + 1 = Length(day)
<1>1. /\ day \in Int /\ tick \in Int /\ 0 <= tick /\ tick < Length(day) /\ Length(day) \in Int
      /\ world.elapsed = day * Ticks + tick + Cardinality(Past(day))
  BY Constants DEF TimeInv, WorldSound, Length
<1>2. /\ world'.day = IF last THEN day + 1 ELSE day
      /\ world'.tick = (tick + 1) % Length(day)
      /\ world'.elapsed = world.elapsed + 1
      /\ world' = [day |-> world'.day, tick |-> world'.tick, elapsed |-> world'.elapsed]
  BY DEF Tick
<1>3. WorldSound'
  <2>1. CASE last
    <3>1. world'.day = day + 1 /\ world'.tick = 0
      BY <1>1, <1>2, <2>1
    <3>2. (day + 1) * Ticks = day * Ticks + Ticks
      BY <1>1, Constants
    <3>3. Cardinality(Past(day + 1)) = Cardinality(Past(day)) + Length(day) - Ticks
      BY <1>1, OneMoreDay
    <3>4. Cardinality(Past(day)) \in Int /\ day * Ticks \in Int
      BY <1>1, LeapDaysFinite, Constants
    <3>5. world'.elapsed = (day + 1) * Ticks + 0 + Cardinality(Past(day + 1))
      BY <1>1, <1>2, <2>1, <3>2, <3>3, <3>4, Constants
    <3>6. 0 \in 0..(Length(day + 1) - 1)
      BY Constants DEF Length
    <3> QED BY <1>1, <1>2, <3>1, <3>5, <3>6 DEF WorldSound
  <2>2. CASE ~ last
    <3>1. world'.day = day /\ world'.tick = tick + 1 /\ tick + 1 \in 0..(Length(day) - 1)
      BY <1>1, <1>2, <2>2
    <3>2. Cardinality(Past(day)) \in Int /\ day * Ticks \in Int
      BY <1>1, LeapDaysFinite, Constants
    <3>3. world'.elapsed = day * Ticks + (tick + 1) + Cardinality(Past(day))
      BY <1>1, <1>2, <3>2
    <3> QED BY <1>1, <1>2, <3>1, <3>3 DEF WorldSound
  <2> QED BY <2>1, <2>2
<1>4. CalculationSound'
  BY DEF Tick, TimeInv, CalculationSound
<1> QED BY <1>3, <1>4 DEF TimeInv

\* The clock shows the second, and what has elapsed is ahead of it by the leap days.
LEMMA AskTimeInv == ASSUME TimeInv, Ask PROVE TimeInv'
<1>1. PICK offset \in Offsets, longitude \in Longitudes, lahiri \in BOOLEAN :
        birth' = [utc |-> world.day * Ticks + world.tick, offset |-> offset,
                  local |-> world.day * Ticks + world.tick + offset,
                  elapsed |-> world.elapsed, lahiri |-> lahiri, longitude |-> longitude]
  BY DEF Ask
<1>2. world.day \in Int /\ world.tick \in 0..(Ticks - 1)
  BY Constants DEF Ask, TimeInv, WorldSound, Length
<1>3. Day(birth'.utc) = world.day
  BY <1>1, <1>2, DayOfClock
<1>4. LeapCount(birth'.utc) = Cardinality(Past(world.day))
  BY <1>3 DEF LeapCount, Past
<1>5. birth'.utc \in Int /\ birth'.elapsed = birth'.utc + LeapCount(birth'.utc)
  BY <1>1, <1>2, <1>4, Constants DEF TimeInv, WorldSound
<1>6. CalculationSound'
  BY <1>5 DEF Ask, TimeInv, CalculationSound, LeapCount, Day
<1>7. WorldSound'
  BY DEF Ask, TimeInv, WorldSound
<1> QED BY <1>6, <1>7 DEF TimeInv

LEMMA CalculateTimeInv == ASSUME TimeInv, Calculate PROVE TimeInv'
<1>1. PICK value \in Healthy(birth.utc, FALSE) \cup Faulty(birth.utc, FALSE) :
        /\ printed' = <<value>>
        /\ \/ Refusal(birth.utc, value) # None /\ Fail(Refusal(birth.utc, value))
           \/ Fail("internal_error")
           \/ /\ tropical' = Response(birth, value)
              /\ \/ stage' = "tropical" /\ UNCHANGED answer
                 \/ stage' = "done" /\ answer' = Content(Response(birth, value), None)
  BY DEF Calculate
<1>2. Refusal(birth.utc, value) = None \/ Refusal(birth.utc, value) \notin Stages
  BY ErrorsAreNoStages
<1>3. stage = "civil" /\ answer = None /\ UNCHANGED <<world, birth>>
  BY DEF Calculate, TimeInv, CalculationSound
<1>4. Response(birth, value).tt = value.tt /\ printed'[1] = value
  BY <1>1 DEF Response
<1>5. CalculationSound'
  <2>1. CASE Refusal(birth.utc, value) # None /\ Fail(Refusal(birth.utc, value))
    BY <1>2, <1>3, <2>1 DEF Fail, Stages, TimeInv, CalculationSound, LeapCount, Day
  <2>2. CASE Fail("internal_error")
    BY <1>3, <2>2 DEF Fail, TimeInv, CalculationSound, LeapCount, Day
  <2>3. CASE /\ tropical' = Response(birth, value)
             /\ \/ stage' = "tropical" /\ UNCHANGED answer
                \/ stage' = "done" /\ answer' = Content(Response(birth, value), None)
    BY <1>3, <1>4, <2>3 DEF TimeInv, CalculationSound, LeapCount, Day
  <2> QED BY <1>1, <2>1, <2>2, <2>3
<1>6. WorldSound'
  BY <1>3 DEF TimeInv, WorldSound
<1> QED BY <1>5, <1>6 DEF TimeInv

LEMMA CalculateLahiriTimeInv == ASSUME TimeInv, CalculateLahiri PROVE TimeInv'
<1>1. PICK value \in Healthy(birth.utc, TRUE) \cup Faulty(birth.utc, TRUE) :
        /\ printed' = <<printed[1], value>>
        /\ \/ Refusal(birth.utc, value) # None /\ Fail(Refusal(birth.utc, value))
           \/ Fail("invalid_result")
           \/ Fail("internal_error")
           \/ stage' = "done" /\ UNCHANGED tropical
  BY DEF CalculateLahiri
<1>2. Refusal(birth.utc, value) = None \/ Refusal(birth.utc, value) \notin Stages
  BY ErrorsAreNoStages
<1>3. stage = "tropical" /\ answer = None /\ UNCHANGED <<world, birth>> /\ printed'[1] = printed[1]
  BY <1>1 DEF CalculateLahiri, TimeInv, CalculationSound
<1>4. CalculationSound'
  <2>1. CASE Refusal(birth.utc, value) # None /\ Fail(Refusal(birth.utc, value))
    BY <1>2, <1>3, <2>1 DEF Fail, Stages, TimeInv, CalculationSound, LeapCount, Day
  <2>2. CASE Fail("invalid_result") \/ Fail("internal_error")
    BY <1>3, <2>2 DEF Fail, TimeInv, CalculationSound, LeapCount, Day
  <2>3. CASE stage' = "done" /\ UNCHANGED tropical
    BY <1>3, <2>3 DEF TimeInv, CalculationSound, LeapCount, Day
  <2> QED BY <1>1, <2>1, <2>2, <2>3
<1>5. WorldSound'
  BY <1>3 DEF TimeInv, WorldSound
<1> QED BY <1>4, <1>5 DEF TimeInv

LEMMA TimeInvariant == Spec => []TimeInv
<1>1. TimeInv /\ [Next]_vars => TimeInv'
  <2> SUFFICES ASSUME TimeInv, [Next]_vars PROVE TimeInv'
    OBVIOUS
  <2>1. CASE UNCHANGED vars
    BY <2>1 DEF vars, TimeInv, WorldSound, CalculationSound, LeapCount, Day
  <2> QED BY <2>1, TickTimeInv, AskTimeInv, CalculateTimeInv, CalculateLahiriTimeInv DEF Next
<1> QED BY InitTimeInv, <1>1, PTL DEF Spec
-----------------------------------------------------------------------------
\* For every table of leap days, every calendar and every day length: the terrestrial
\* time of an answer from 1972 on counts the seconds that have really elapsed, across
\* the leap seconds that no clock time names (ephemeris/worker.py run).
THEOREM TerrestrialTimeFlows == Spec => []TimeFlows
<1>1. ASSUME TimeInv PROVE TimeFlows
  <2> SUFFICES ASSUME answer # None, Day(birth.utc) >= Y1972,
                      printed[1] \in Healthy(birth.utc, FALSE)
               PROVE  tropical.tt = birth.elapsed + Epoch
    BY DEF TimeFlows
  <2>1. /\ birth.utc \in Int /\ birth.elapsed = birth.utc + LeapCount(birth.utc)
        /\ tropical.tt = printed[1].tt
    BY <1>1 DEF TimeInv, CalculationSound
  <2>2. printed[1].tt = TT(birth.utc)
    BY DEF Healthy, Run
  <2>3. Day(birth.utc) \in Int /\ LeapCount(birth.utc) = Cardinality(Past(Day(birth.utc)))
    BY <2>1, Constants DEF Day, LeapCount, Past
  <2>4. LeapCount(birth.utc) \in Int
    BY <2>3, LeapDaysFinite
  <2>5. TT(birth.utc) = birth.utc + Epoch + LeapCount(birth.utc)
    BY <2>3, Constants DEF TT
  <2> QED BY <2>1, <2>2, <2>4, <2>5, Constants
<1> QED BY <1>1, TimeInvariant, PTL
-----------------------------------------------------------------------------
(* Angles. *)

Whole == Fine * Circle

LEMMA AngleConstants ==
  /\ Fine \in Int /\ Fine >= 1 /\ Circle \in Int /\ Circle >= 2 /\ Circle % 2 = 0
  /\ Whole \in Int /\ Whole >= 2 /\ Whole >= 2 * Fine
  /\ Whole \div 2 \in 0..(Whole - 1)
<1>1. Fine \in Int /\ Fine >= 1 /\ Circle \in Int /\ Circle >= 1 /\ Circle % 2 = 0
  BY PassportAssumption
<1>2. Circle >= 2
  BY <1>1
<1>3. Fine * Circle \in Int /\ Fine * Circle >= 2 * Fine
  BY <1>1, <1>2
<1> QED BY <1>1, <1>2, <1>3 DEF Whole

\* What is left after whole turns is the remainder.
LEMMA Remainder ==
  ASSUME NEW m \in Int, m >= 1, NEW k \in Int, NEW r \in 0..(m - 1)
  PROVE  (k * m + r) % m = r
<1> DEFINE x == k * m + r
           q == x \div m
<1>1. x \in Int /\ q \in Int /\ x = q * m + (x % m) /\ x % m \in 0..(m - 1)
  OBVIOUS
<1>2. q * m \in Int /\ k * m \in Int /\ x = k * m + r
  BY <1>1
<1>3. ASSUME q >= k + 1 PROVE q * m >= k * m + m
  BY <1>1, <1>3
<1>4. ASSUME q <= k - 1 PROVE q * m + m <= k * m
  BY <1>1, <1>4
<1> HIDE DEF x, q
<1>5. ~ (q >= k + 1) /\ ~ (q <= k - 1)
  BY <1>1, <1>2, <1>3, <1>4
<1>6. q = k
  BY <1>1, <1>5
<1>7. x % m = r
  BY <1>1, <1>2, <1>6
<1> QED BY <1>7 DEF x

\* Angles that differ by whole turns and a little more are that little apart.
LEMMA LittleApart ==
  ASSUME NEW a \in Int, NEW b \in Int, NEW k \in Int, NEW d \in Int, NEW most \in Int,
         a - b = k * Whole + d, -most <= d, d <= most, most < Whole
  PROVE  Within(a, b, most)
<1>1. Whole \in Int /\ Whole >= 1
  BY AngleConstants
<1>2. CASE d >= 0
  <2>1. d \in 0..(Whole - 1)
    BY <1>1, <1>2
  <2>2. (a - b) % Whole = d
    BY <1>1, <2>1, Remainder
  <2> QED BY <2>2 DEF Within, Mod, Whole
<1>3. CASE d < 0
  <2>1. -d \in 0..(Whole - 1)
    BY <1>1, <1>3
  <2>2. b - a = (-k) * Whole + (-d) /\ -k \in Int
    <3>1. k * Whole \in Int /\ (-k) * Whole = -(k * Whole)
      BY <1>1
    <3> QED BY <3>1
  <2>3. (b - a) % Whole = -d
    BY <1>1, <2>1, <2>2, Remainder
  <2> QED BY <2>3 DEF Within, Mod, Whole
<1> QED BY <1>2, <1>3

\* Rounding to units is off by half a unit at most.
LEMMA HalfEvenIsNear ==
  ASSUME NEW fine \in Int
  PROVE  /\ HalfEven(fine) \in Int
         /\ -Fine <= 2 * (HalfEven(fine) * Fine - fine)
         /\ 2 * (HalfEven(fine) * Fine - fine) <= Fine
<1> DEFINE units == fine \div Fine
           rest == fine % Fine
           near == HalfEven(fine)
<1>1. Fine \in Int /\ Fine >= 1
  BY AngleConstants
<1>2. units \in Int /\ rest \in 0..(Fine - 1) /\ fine = units * Fine + rest
  BY <1>1
<1>3. \/ near = units + 1 /\ 2 * rest >= Fine
      \/ near = units /\ 2 * rest <= Fine
  BY <1>1, <1>2 DEF HalfEven
<1> HIDE DEF near, units, rest
<1>4. CASE near = units + 1 /\ 2 * rest >= Fine
  <2>1. near * Fine = units * Fine + Fine /\ units * Fine \in Int
    BY <1>1, <1>2, <1>4
  <2> QED BY <1>1, <1>2, <1>4, <2>1 DEF near
<1>5. CASE near = units /\ 2 * rest <= Fine
  <2>1. near * Fine = units * Fine /\ units * Fine \in Int
    BY <1>1, <1>2, <1>5
  <2> QED BY <1>1, <1>2, <1>5, <2>1 DEF near
<1> QED BY <1>3, <1>4, <1>5

\* The decimal written for an angle is its rounding up to whole turns.
LEMMA DecimalIsRounded ==
  ASSUME NEW raw \in Int
  PROVE  /\ LongitudeDecimal(raw) % Circle = LongitudeDecimal(raw)
         /\ LongitudeDecimal(raw) \in 0..(Circle - 1)
         /\ \E k \in Int : LongitudeDecimal(raw) * Fine = HalfEven(raw) * Fine + k * Whole
<1> DEFINE near == HalfEven(raw)
           decimal == near % Circle
           turns == near \div Circle
<1>1. near \in Int /\ Circle \in Int /\ Circle >= 1 /\ Fine \in Int /\ Whole \in Int
  BY HalfEvenIsNear, AngleConstants
<1>2. turns \in Int /\ decimal \in 0..(Circle - 1) /\ near = turns * Circle + decimal
  BY <1>1
<1>3. LongitudeDecimal(raw) = decimal
  BY DEF LongitudeDecimal
<1> HIDE DEF near, decimal, turns
<1>4. decimal % Circle = decimal
  <2>1. (0 * Circle + decimal) % Circle = decimal
    BY <1>1, <1>2, Remainder
  <2>2. 0 * Circle + decimal = decimal
    BY <1>1, <1>2
  <2> QED BY <2>1, <2>2
<1>5. decimal * Fine = near * Fine + (-turns) * Whole
  <2>1. decimal = near - turns * Circle
    BY <1>1, <1>2
  <2>2. decimal * Fine = near * Fine - (turns * Circle) * Fine
    BY <1>1, <1>2, <2>1
  <2>3. (turns * Circle) * Fine = turns * Whole
    BY <1>1, <1>2 DEF Whole
  <2>4. (-turns) * Whole = -(turns * Whole) /\ turns * Whole \in Int
    BY <1>1, <1>2
  <2> QED BY <1>1, <2>2, <2>3, <2>4
<1>6. -turns \in Int
  BY <1>2
<1> QED BY <1>2, <1>3, <1>4, <1>5, <1>6 DEF near

LEMMA DecimalIsNear ==
  ASSUME NEW raw \in Int
  PROVE  Within(LongitudeDecimal(raw) * Fine, raw, Fine \div 2)
<1> DEFINE d == HalfEven(raw) * Fine - raw
<1>1. Fine \in Int /\ Fine >= 1 /\ Whole \in Int /\ Whole >= 2 * Fine
  BY AngleConstants
<1>2. HalfEven(raw) \in Int /\ HalfEven(raw) * Fine \in Int /\ d \in Int
      /\ -Fine <= 2 * d /\ 2 * d <= Fine
  BY <1>1, HalfEvenIsNear
<1>3. Fine \div 2 \in Int /\ -(Fine \div 2) <= d /\ d <= Fine \div 2 /\ Fine \div 2 < Whole
  BY <1>1, <1>2
<1>4. LongitudeDecimal(raw) \in 0..(Circle - 1)
      /\ \E k \in Int : LongitudeDecimal(raw) * Fine = HalfEven(raw) * Fine + k * Whole
  BY DecimalIsRounded
<1>5. PICK k \in Int : LongitudeDecimal(raw) * Fine = HalfEven(raw) * Fine + k * Whole
  BY <1>4
<1>6. LongitudeDecimal(raw) \in Int
  BY <1>4, AngleConstants
<1>7. LongitudeDecimal(raw) * Fine \in Int
  BY <1>1, <1>6
<1>8. k * Whole \in Int
  BY <1>1, <1>5
<1>9. LongitudeDecimal(raw) * Fine - raw = k * Whole + d
  BY <1>2, <1>5, <1>8
<1> HIDE DEF d
<1> QED BY <1>2, <1>3, <1>5, <1>7, <1>9, LittleApart

\* A rounded longitude stays within half a circle, one end of which is moved to the other.
LEMMA CoordinateIsNear ==
  ASSUME NEW longitude \in Longitudes
  PROVE  LET place == Coordinate(longitude)
         IN  /\ -Circle <= 2 * place /\ 2 * place < Circle
             /\ Within(place * Fine, longitude, Fine \div 2)
<1> DEFINE u == HalfEven(longitude)
           half == Circle \div 2
           d == u * Fine - longitude
<1>1. /\ Fine \in Int /\ Fine >= 1 /\ Circle \in Int /\ Circle >= 2 /\ Circle % 2 = 0
      /\ Whole \in Int /\ Whole >= 2 * Fine
  BY AngleConstants
<1>2. longitude \in Int /\ -Whole <= 2 * longitude /\ 2 * longitude <= Whole
  <2>1. longitude \in Int /\ 2 * longitude \in -Whole..Whole
    BY PassportAssumption DEF Whole
  <2> QED BY <1>1, <2>1
<1>3. u \in Int /\ u * Fine \in Int /\ d \in Int /\ -Fine <= 2 * d /\ 2 * d <= Fine
  BY <1>1, <1>2, HalfEvenIsNear
<1>4. half \in Int /\ Circle = 2 * half
  BY <1>1
<1>5. Whole = 2 * (half * Fine) /\ half * Fine \in Int
  BY <1>1, <1>4 DEF Whole
<1> HIDE DEF u, half
<1>6. ASSUME u >= half + 1 PROVE u * Fine >= half * Fine + Fine
  BY <1>1, <1>3, <1>4, <1>6
<1>7. ASSUME u <= -half - 1 PROVE u * Fine <= -(half * Fine) - Fine
  BY <1>1, <1>3, <1>4, <1>7
<1>8. -half <= u /\ u <= half
  <2>1. 2 * (u * Fine) <= Whole + Fine /\ -Whole - Fine <= 2 * (u * Fine)
    BY <1>1, <1>2, <1>3
  <2> QED BY <1>1, <1>3, <1>4, <1>5, <1>6, <1>7, <2>1
<1>9. Fine \div 2 \in Int /\ -(Fine \div 2) <= d /\ d <= Fine \div 2 /\ Fine \div 2 < Whole
  BY <1>1, <1>3
<1>10. Coordinate(longitude) = IF 2 * u = Circle THEN -u ELSE u
  BY DEF Coordinate, u
<1>11. CASE 2 * u = Circle
  <2>1. u = half /\ Coordinate(longitude) = -u
    BY <1>3, <1>4, <1>10, <1>11
  <2>2. (-u) * Fine = -(u * Fine) /\ u * Fine = half * Fine /\ (-1) * Whole = -Whole
    BY <1>1, <1>3, <2>1
  <2>3. (-u) * Fine \in Int /\ (-u) * Fine - longitude = (-1) * Whole + d
    BY <1>1, <1>2, <1>3, <1>5, <2>2
  <2>4. Within((-u) * Fine, longitude, Fine \div 2)
    <3> HIDE DEF d
    <3> QED BY <1>2, <1>3, <1>9, <2>3, LittleApart
  <2> QED BY <1>1, <1>3, <1>4, <2>1, <2>4
<1>12. CASE 2 * u # Circle
  <2>1. Coordinate(longitude) = u
    BY <1>10, <1>12
  <2>2. u * Fine - longitude = 0 * Whole + d
    BY <1>1, <1>2, <1>3
  <2>3. Within(u * Fine, longitude, Fine \div 2)
    <3> HIDE DEF d
    <3> QED BY <1>2, <1>3, <1>9, <2>2, LittleApart
  <2> QED BY <1>1, <1>3, <1>4, <1>8, <1>12, <2>1, <2>3
<1> QED BY <1>11, <1>12

\* Angles that add up around the circle add up after rounding but for one unit.
LEMMA SumIsNear ==
  ASSUME NEW moon \in Int, NEW ayanamsha \in Int, NEW sidereal \in Int,
         Mod(Mod(moon - ayanamsha) - sidereal + (Fine * Circle) \div 2)
           = (Fine * Circle) \div 2
  PROVE  Within((LongitudeDecimal(sidereal) + LongitudeDecimal(ayanamsha)) * Fine,
                LongitudeDecimal(moon) * Fine, Fine)
<1> DEFINE half == Whole \div 2
           turn == (moon - ayanamsha) \div Whole
           x == Mod(moon - ayanamsha) - sidereal + half
           back == x \div Whole
           t == turn + back
<1>1. /\ Fine \in Int /\ Fine >= 1 /\ Circle \in Int /\ Whole \in Int /\ Whole >= 1
      /\ Whole >= 2 * Fine /\ half \in 0..(Whole - 1)
  BY AngleConstants
<1>2. turn \in Int /\ Mod(moon - ayanamsha) \in Int
      /\ moon - ayanamsha = turn * Whole + Mod(moon - ayanamsha)
  BY <1>1 DEF Mod, Whole
<1>3. x \in Int /\ x % Whole = half
  BY <1>1, <1>2 DEF Mod, Whole
<1>4. back \in Int /\ x = back * Whole + half
  BY <1>1, <1>3
<1> HIDE DEF turn, back
<1>5. /\ turn * Whole \in Int /\ back * Whole \in Int /\ t \in Int /\ t * Whole \in Int
      /\ t * Whole = turn * Whole + back * Whole
  BY <1>1, <1>2, <1>4
<1>6. moon - ayanamsha - sidereal = t * Whole
  BY <1>1, <1>2, <1>4, <1>5
<1> DEFINE hs == HalfEven(sidereal)
           ha == HalfEven(ayanamsha)
           hm == HalfEven(moon)
           e == (hs * Fine - sidereal) + (ha * Fine - ayanamsha) - (hm * Fine - moon)
<1>7. /\ hs \in Int /\ ha \in Int /\ hm \in Int
      /\ hs * Fine \in Int /\ ha * Fine \in Int /\ hm * Fine \in Int
      /\ -Fine <= 2 * (hs * Fine - sidereal) /\ 2 * (hs * Fine - sidereal) <= Fine
      /\ -Fine <= 2 * (ha * Fine - ayanamsha) /\ 2 * (ha * Fine - ayanamsha) <= Fine
      /\ -Fine <= 2 * (hm * Fine - moon) /\ 2 * (hm * Fine - moon) <= Fine
  BY <1>1, HalfEvenIsNear
<1> HIDE DEF hs, ha, hm, t
<1>8. e \in Int /\ -(3 * Fine) <= 2 * e /\ 2 * e <= 3 * Fine
  BY <1>1, <1>7
<1>9. e = hs * Fine + ha * Fine - hm * Fine + t * Whole
  BY <1>5, <1>6, <1>7
<1> DEFINE j == hs + ha - hm + t * Circle
<1>10. j \in Int /\ e = j * Fine
  <2>1. t * Circle \in Int /\ (t * Circle) * Fine = t * Whole
    BY <1>1, <1>5 DEF Whole
  <2>2. j * Fine = hs * Fine + ha * Fine - hm * Fine + (t * Circle) * Fine
    BY <1>1, <1>7, <2>1
  <2> QED BY <1>1, <1>7, <1>9, <2>1, <2>2
<1> HIDE DEF e, j
<1>11. -Fine <= e /\ e <= Fine
  <2>1. ASSUME j >= 2 PROVE j * Fine >= 2 * Fine
    BY <1>1, <1>10, <2>1
  <2>2. ASSUME j <= -2 PROVE j * Fine <= -(2 * Fine)
    BY <1>1, <1>10, <2>2
  <2>3. j = -1 \/ j = 0 \/ j = 1
    BY <1>1, <1>8, <1>10, <2>1, <2>2
  <2> QED BY <1>1, <1>10, <2>3
<1>12. PICK ks \in Int : LongitudeDecimal(sidereal) * Fine = hs * Fine + ks * Whole
  BY DecimalIsRounded DEF hs
<1>13. PICK ka \in Int : LongitudeDecimal(ayanamsha) * Fine = ha * Fine + ka * Whole
  BY DecimalIsRounded DEF ha
<1>14. PICK km \in Int : LongitudeDecimal(moon) * Fine = hm * Fine + km * Whole
  BY DecimalIsRounded DEF hm
<1>15. /\ LongitudeDecimal(sidereal) \in Int /\ LongitudeDecimal(ayanamsha) \in Int
       /\ LongitudeDecimal(moon) \in Int
  BY <1>1, DecimalIsRounded
<1> DEFINE sum == (LongitudeDecimal(sidereal) + LongitudeDecimal(ayanamsha)) * Fine
           k == ks + ka - km - t
<1>16. /\ sum \in Int /\ LongitudeDecimal(moon) * Fine \in Int
       /\ sum = LongitudeDecimal(sidereal) * Fine + LongitudeDecimal(ayanamsha) * Fine
  BY <1>1, <1>15
<1>17. /\ k \in Int /\ ks * Whole \in Int /\ ka * Whole \in Int /\ km * Whole \in Int
       /\ k * Whole = ks * Whole + ka * Whole - km * Whole - t * Whole
  BY <1>1, <1>5, <1>12, <1>13, <1>14
<1>18. sum - LongitudeDecimal(moon) * Fine = k * Whole + e
  BY <1>5, <1>7, <1>8, <1>9, <1>12, <1>13, <1>14, <1>16, <1>17
<1>19. Fine < Whole
  BY <1>1
<1> HIDE DEF k, sum
<1>20. Within(sum, LongitudeDecimal(moon) * Fine, Fine)
  BY <1>1, <1>8, <1>11, <1>16, <1>17, <1>18, <1>19, LittleApart
<1> QED BY <1>20 DEF sum
-----------------------------------------------------------------------------
(* What a process prints. *)

LEMMA DayReached ==
  ASSUME NEW utc \in Int, NEW day \in Int
  PROVE  Day(utc) \in Int /\ (utc >= day * Ticks <=> Day(utc) >= day)
<1> DEFINE q == utc \div Ticks
<1>1. q \in Int /\ q * Ticks \in Int /\ q * Ticks <= utc /\ utc < q * Ticks + Ticks
      /\ day * Ticks \in Int
  BY Constants
<1>2. ASSUME q >= day PROVE q * Ticks >= day * Ticks
  BY <1>1, <1>2, Constants
<1>3. ASSUME q <= day - 1 PROVE q * Ticks + Ticks <= day * Ticks
  BY <1>1, <1>3, Constants
<1> HIDE DEF q
<1>4. utc >= day * Ticks <=> q >= day
  BY <1>1, <1>2, <1>3, Constants
<1> QED BY <1>1, <1>4 DEF Day, q

\* A birth of the supported years is an instant that the worker takes.
LEMMA BirthsAreInRange ==
  ASSUME NEW utc \in Int, NEW offset \in Offsets, Day(utc + offset) \in LocalFirst..LocalLast
  PROVE  InRange(utc)
<1>1. /\ Ticks \in Int /\ Ticks >= 1 /\ LocalFirst \in Int /\ LocalLast \in Int
      /\ offset \in Int /\ -Ticks < offset /\ offset < Ticks
  BY PassportAssumption
<1> DEFINE local == utc + offset
<1>2. local >= LocalFirst * Ticks /\ ~ (local >= (LocalLast + 1) * Ticks)
  <2>1. local \in Int /\ LocalLast + 1 \in Int
    BY <1>1
  <2>2. Day(local) \in Int /\ Day(local) >= LocalFirst /\ ~ (Day(local) >= LocalLast + 1)
    <3>1. Day(local) \in LocalFirst..LocalLast
      OBVIOUS
    <3> HIDE DEF local
    <3> QED BY <1>1, <2>1, <3>1, DayReached
  <2> HIDE DEF local
  <2> QED BY <1>1, <2>1, <2>2, DayReached
<1>3. /\ LocalFirst * Ticks \in Int /\ (LocalLast + 1) * Ticks \in Int
      /\ (LocalFirst - 1) * Ticks = LocalFirst * Ticks - Ticks
      /\ (LocalLast + 2) * Ticks = (LocalLast + 1) * Ticks + Ticks
  BY <1>1
<1> QED BY <1>1, <1>2, <1>3 DEF InRange, UtcFirst, UtcEnd

\* The worker compares instants where the contracts compare days.
LEMMA LimitsAreTheSame ==
  ASSUME NEW utc \in Int
  PROVE  WorkerLimits(utc) = AstronomyLimits(utc)
<1>1. Day(utc) \in Int /\ Y2017 \in Int /\ Y1972 \in Int /\ Y1972 < Y2017
      /\ (utc >= Y2017 * Ticks <=> Day(utc) >= Y2017)
  BY DayReached, PassportAssumption
<1> QED BY <1>1 DEF WorkerLimits, AstronomyLimits

LEMMA ModIsAngle ==
  ASSUME NEW angle \in Int
  PROVE  Mod(angle) \in Int /\ Mod(angle) \in 0..(Fine * Circle - 1)
  BY AngleConstants DEF Mod, Whole

LEMMA AnglesAreRepresentable ==
  ASSUME NEW raw \in 0..(Fine * Circle - 1)
  PROVE  raw \in Int /\ Representable(raw)
<1>1. raw \in Int /\ Angle(raw)
  BY AngleConstants DEF Angle, Whole
<1>2. LongitudeDecimal(raw) < Circle
  BY <1>1, DecimalIsRounded, AngleConstants
<1> QED BY <1>1, <1>2 DEF Representable

\* A healthy process is believed, and its sidereal angles fit.
LEMMA HealthyIsAccepted ==
  ASSUME NEW utc \in Int, InRange(utc), NEW lahiri \in BOOLEAN, NEW value \in Healthy(utc, lahiri)
  PROVE  /\ Refusal(utc, value) = None
         /\ value.tt = TT(utc) /\ value.limits = AstronomyLimits(utc)
         /\ lahiri => /\ value.lahiri # None
                      /\ Representable(value.lahiri.ayanamsha)
                      /\ Representable(value.lahiri.moon)
                      /\ \A response : response.moon = value.moon =>
                                         LahiriCoherent(response, value.lahiri)
<1>1. PICK moon \in Moons, ayanamsha \in Ayanamshas :
        value = Run(utc, moon, ayanamsha, Mod(moon - ayanamsha), lahiri)
  BY DEF Healthy
<1>2. moon \in 0..(Fine * Circle - 1) /\ ayanamsha \in 0..(Fine * Circle - 1)
  BY PassportAssumption
<1>3. moon \in Int /\ ayanamsha \in Int /\ Representable(moon) /\ Representable(ayanamsha)
  BY <1>2, AnglesAreRepresentable
<1> DEFINE sidereal == Mod(moon - ayanamsha)
<1>4. sidereal \in 0..(Fine * Circle - 1) /\ sidereal \in Int
  <2>1. moon - ayanamsha \in Int
    BY <1>3
  <2> QED BY <2>1, ModIsAngle
<1>5. Representable(sidereal)
  BY <1>4, AnglesAreRepresentable
<1>6. /\ value.error = None /\ value.moon = moon /\ value.tt = TT(utc)
      /\ value.limits = WorkerLimits(utc)
      /\ lahiri => value.lahiri = [ayanamsha |-> ayanamsha, moon |-> sidereal]
  BY <1>1 DEF Run
<1>7. Refusal(utc, value) = None
  BY <1>3, <1>6, LimitsAreTheSame DEF Refusal
<1>8. [ayanamsha |-> ayanamsha, moon |-> sidereal] # None
  BY <1>4, PassportAssumption
<1>9. ASSUME NEW response, response.moon = moon
      PROVE  LahiriCoherent(response, [ayanamsha |-> ayanamsha, moon |-> sidereal])
  <2> DEFINE half == Whole \div 2
  <2>1. half \in 0..(Whole - 1) /\ Whole \in Int /\ Whole >= 1
    BY AngleConstants
  <2>2. (0 * Whole + half) % Whole = half
    BY <2>1, Remainder
  <2>3. sidereal - sidereal + half = half /\ 0 * Whole + half = half
    BY <1>4, <2>1
  <2>4. Mod(sidereal - sidereal + half) = half
    <3>1. half % Whole = half
      BY <2>2, <2>3
    <3> QED BY <2>3, <3>1 DEF Mod, Whole
  <2> QED BY <1>9, <2>4 DEF LahiriCoherent, Whole
<1> HIDE DEF sidereal
<1> QED BY <1>3, <1>5, <1>6, <1>7, <1>8, <1>9, LimitsAreTheSame

\* Whatever a process prints as a result has integers for angles.
LEMMA PrintedAngles ==
  ASSUME NEW utc, NEW lahiri \in BOOLEAN,
         NEW value \in Healthy(utc, lahiri) \cup Faulty(utc, lahiri), value.error = None
  PROVE  /\ value.moon \in Int
         /\ value.lahiri # None => value.lahiri.ayanamsha \in Int /\ value.lahiri.moon \in Int
<1>1. \A e \in {"native_failure", "fallback_rejected", "unsupported_runtime", "timeout",
                "invalid_result"} : e # None
  BY PassportAssumption
<1>2. ASSUME NEW moon \in Int, NEW ayanamsha \in Int, NEW sidereal \in Int,
             value = Run(utc, moon, ayanamsha, sidereal, lahiri)
      PROVE  /\ value.moon \in Int
             /\ value.lahiri # None => value.lahiri.ayanamsha \in Int /\ value.lahiri.moon \in Int
  BY <1>1, <1>2 DEF Run
<1>3. Fine * Circle \in Int
  BY AngleConstants DEF Whole
<1>4. CASE value \in Healthy(utc, lahiri)
  <2>1. PICK moon \in Moons, ayanamsha \in Ayanamshas :
          value = Run(utc, moon, ayanamsha, Mod(moon - ayanamsha), lahiri)
    BY <1>4 DEF Healthy
  <2>2. moon \in Int /\ ayanamsha \in Int
    BY <1>3, PassportAssumption
  <2>3. Mod(moon - ayanamsha) \in Int
    BY <2>2, ModIsAngle
  <2> QED BY <1>2, <2>1, <2>2, <2>3
<1>5. CASE value \in {[error |-> e] : e \in {"native_failure", "fallback_rejected",
                                             "unsupported_runtime", "timeout"}}
  BY <1>1, <1>5
<1>6. CASE value \in {Run(utc, 0, 1, 0, lahiri), Run(utc, Fine * Circle, 0, 0, lahiri)}
  BY <1>2, <1>3, <1>6
<1>7. CASE value \in {[Run(utc, 0, 0, 0, lahiri) EXCEPT !.limits = {"modelled-ut1"}],
                      [Run(utc, 0, 0, 0, lahiri) EXCEPT !.tt = @ + 1],
                      [Run(utc, 0, 0, 0, lahiri) EXCEPT !.lahiri = None]}
  <2>1. Mod(0 - 0) = 0
    <3>1. Whole \in Int /\ Whole >= 1 /\ 0 \in 0..(Whole - 1)
      BY AngleConstants
    <3>2. (0 * Whole + 0) % Whole = 0
      BY <3>1, Remainder
    <3>3. 0 * Whole + 0 = 0 /\ 0 - 0 = 0
      BY <3>1
    <3>4. 0 % Whole = 0
      BY <3>2, <3>3
    <3> QED BY <3>3, <3>4 DEF Mod, Whole
  <2>2. Run(utc, 0, 0, 0, lahiri) =
          [error |-> None, moon |-> 0, tt |-> TT(utc), ut1 |-> UT1(utc),
           limits |-> WorkerLimits(utc),
           lahiri |-> IF lahiri THEN [ayanamsha |-> 0, moon |-> 0] ELSE None]
    BY <2>1 DEF Run
  <2> QED BY <1>7, <2>2
<1> QED BY <1>4, <1>5, <1>6, <1>7 DEF Faulty

\* The content of an answer, of either profile, keeps to the angles it was made from.
LEMMA ContentIsNear ==
  ASSUME NEW b, b.longitude \in Longitudes, NEW value, value.moon \in Int,
         NEW sidereal,
         sidereal # None => /\ sidereal.ayanamsha \in Int /\ sidereal.moon \in Int
                            /\ LahiriCoherent(Response(b, value), sidereal)
  PROVE  LET content == Content(Response(b, value), sidereal)
         IN  /\ content.moon \in 0..(Circle - 1)
             /\ Within(content.moon * Fine, Response(b, value).moon, Fine \div 2)
             /\ -Circle <= 2 * content.longitude /\ 2 * content.longitude < Circle
             /\ Within(content.longitude * Fine, b.longitude, Fine \div 2)
             /\ content.sidereal # None =>
                  /\ {content.sidereal.moon, content.sidereal.ayanamsha} \subseteq 0..(Circle - 1)
                  /\ Within((content.sidereal.moon + content.sidereal.ayanamsha) * Fine,
                            content.moon * Fine, Fine)
<1> DEFINE content == Content(Response(b, value), sidereal)
<1>1. /\ content.moon = LongitudeDecimal(value.moon) % Circle
      /\ content.longitude = Coordinate(b.longitude)
      /\ Response(b, value).moon = value.moon
      /\ content.sidereal = IF sidereal = None THEN None ELSE LahiriContent(sidereal)
  BY DEF Content, Response
<1>2. content.moon = LongitudeDecimal(value.moon) /\ content.moon \in 0..(Circle - 1)
  BY <1>1, DecimalIsRounded
<1>3. Within(content.moon * Fine, Response(b, value).moon, Fine \div 2)
  BY <1>1, <1>2, DecimalIsNear
<1>4. /\ -Circle <= 2 * content.longitude /\ 2 * content.longitude < Circle
      /\ Within(content.longitude * Fine, b.longitude, Fine \div 2)
  BY <1>1, CoordinateIsNear
<1>5. ASSUME content.sidereal # None
      PROVE  /\ {content.sidereal.moon, content.sidereal.ayanamsha} \subseteq 0..(Circle - 1)
             /\ Within((content.sidereal.moon + content.sidereal.ayanamsha) * Fine,
                       content.moon * Fine, Fine)
  <2>1. sidereal # None /\ content.sidereal = LahiriContent(sidereal)
    BY <1>1, <1>5
  <2>2. /\ sidereal.ayanamsha \in Int /\ sidereal.moon \in Int
        /\ LahiriCoherent(Response(b, value), sidereal)
    BY <2>1
  <2>3. /\ content.sidereal.moon = LongitudeDecimal(sidereal.moon) % Circle
        /\ content.sidereal.ayanamsha = LongitudeDecimal(sidereal.ayanamsha) % Circle
    BY <2>1 DEF LahiriContent
  <2>4. /\ content.sidereal.moon = LongitudeDecimal(sidereal.moon)
        /\ content.sidereal.ayanamsha = LongitudeDecimal(sidereal.ayanamsha)
        /\ {content.sidereal.moon, content.sidereal.ayanamsha} \subseteq 0..(Circle - 1)
    BY <2>2, <2>3, DecimalIsRounded
  <2>5. Mod(Mod(value.moon - sidereal.ayanamsha) - sidereal.moon + (Fine * Circle) \div 2)
          = (Fine * Circle) \div 2
    BY <1>1, <2>2 DEF LahiriCoherent
  <2>6. Within((LongitudeDecimal(sidereal.moon) + LongitudeDecimal(sidereal.ayanamsha)) * Fine,
               LongitudeDecimal(value.moon) * Fine, Fine)
    BY <2>2, <2>5, SumIsNear
  <2> QED BY <1>2, <2>4, <2>6
<1> HIDE DEF content
<1> QED BY <1>2, <1>3, <1>4, <1>5 DEF content
-----------------------------------------------------------------------------
BirthSound == /\ birth.utc \in Int /\ birth.offset \in Offsets
              /\ birth.local = birth.utc + birth.offset
              /\ Day(birth.local) \in LocalFirst..LocalLast
              /\ birth.longitude \in Longitudes

\* A birth that is calculated is a supported one; between the two processes the facts of
\* the first are kept as it printed them; and the two properties hold of what came out.
AnswerInv ==
  /\ stage # "idle" => BirthSound
  /\ stage = "tropical" => /\ printed = <<printed[1]>> /\ printed[1].moon \in Int
                           /\ tropical = Response(birth, printed[1])
  /\ EveryInstantIsAnswered
  /\ AnglesAgree

LEMMA CalculateAnswerInv == ASSUME TimeInv, AnswerInv, Calculate PROVE AnswerInv'
<1>1. PICK value \in Healthy(birth.utc, FALSE) \cup Faulty(birth.utc, FALSE) :
        LET response == Response(birth, value)
            refusal == Refusal(birth.utc, value)
        IN  /\ printed' = <<value>>
            /\ \/ refusal # None /\ Fail(refusal)
               \/ refusal = None /\ ~ Coherent(response) /\ Fail("internal_error")
               \/ /\ refusal = None /\ Coherent(response)
                  /\ tropical' = response
                  /\ IF birth.lahiri THEN stage' = "tropical" /\ UNCHANGED answer
                     ELSE stage' = "done" /\ answer' = Content(response, None)
  BY DEF Calculate
<1> DEFINE response == Response(birth, value)
           refusal == Refusal(birth.utc, value)
<1>2. BirthSound /\ answer = None /\ UNCHANGED <<world, birth>>
  BY DEF Calculate, AnswerInv, TimeInv, CalculationSound
<1>3. InRange(birth.utc)
  BY <1>2, BirthsAreInRange DEF BirthSound
<1>4. refusal = None \/ refusal \notin Stages
  BY ErrorsAreNoStages
<1>5. printed'[1] = value /\ printed' = <<printed'[1]>>
  BY <1>1
<1>6. BirthSound'
  BY <1>2 DEF BirthSound, Day
<1>7. value \in Healthy(birth.utc, FALSE) => refusal = None /\ Coherent(response)
  <2> SUFFICES ASSUME value \in Healthy(birth.utc, FALSE)
               PROVE  refusal = None /\ Coherent(response)
    OBVIOUS
  <2>1. refusal = None /\ value.limits = AstronomyLimits(birth.utc)
    BY <1>2, <1>3, HealthyIsAccepted DEF BirthSound
  <2>2. Coherent(response)
    BY <1>2, <2>1 DEF Coherent, Response, BirthSound
  <2> QED BY <2>1, <2>2
<1>8. birth'.utc = birth.utc /\ Healthy(birth.utc, FALSE)' = Healthy(birth.utc, FALSE)
  BY <1>2 DEF Healthy, Run, Mod, TT, UT1, WorkerLimits, LeapCount, Day
<1> HIDE DEF response, refusal
<1>9. CASE (refusal # None /\ Fail(refusal)) \/ (~ Coherent(response) /\ Fail("internal_error"))
  <2>1. stage' \notin Stages /\ answer' = None
    BY <1>2, <1>4, <1>9 DEF Fail, Stages
  <2>2. EveryInstantIsAnswered'
    BY <1>5, <1>7, <1>8, <1>9 DEF EveryInstantIsAnswered
  <2> QED BY <1>6, <2>1, <2>2 DEF AnswerInv, AnglesAgree, Stages
<1>10. CASE /\ refusal = None /\ tropical' = response
            /\ IF birth.lahiri THEN stage' = "tropical" /\ UNCHANGED answer
               ELSE stage' = "done" /\ answer' = Content(response, None)
  <2>1. value.error = None
    BY <1>3, <1>10 DEF Refusal, refusal
  <2>2. value.moon \in Int
    BY <2>1, PrintedAngles
  <2>3. stage' \in {"tropical", "done"}
    BY <1>10
  <2>4. EveryInstantIsAnswered'
    BY <2>3 DEF EveryInstantIsAnswered
  <2>5. tropical' = Response(birth, value) /\ birth' = birth /\ printed'[1] = value
    BY <1>2, <1>5, <1>10 DEF response
  <2>6. AnglesAgree'
    <3>1. CASE answer' = Content(response, None)
      <4>1. birth.longitude \in Longitudes
        BY <1>2 DEF BirthSound
      <4>2. /\ answer'.moon \in 0..(Circle - 1)
            /\ Within(answer'.moon * Fine, tropical'.moon, Fine \div 2)
            /\ -Circle <= 2 * answer'.longitude /\ 2 * answer'.longitude < Circle
            /\ Within(answer'.longitude * Fine, birth.longitude, Fine \div 2)
            /\ answer'.sidereal = None
        BY <1>10, <2>2, <3>1, <4>1, ContentIsNear DEF response, Content
      <4> QED BY <1>2, <4>2 DEF AnglesAgree, Within, Mod
    <3>2. CASE UNCHANGED answer
      BY <1>2, <3>2 DEF AnglesAgree
    <3> QED BY <1>10, <3>1, <3>2
  <2> QED BY <1>5, <1>6, <2>2, <2>4, <2>5, <2>6 DEF AnswerInv, Response
<1> QED BY <1>1, <1>9, <1>10 DEF response, refusal

LEMMA CalculateLahiriAnswerInv == ASSUME TimeInv, AnswerInv, CalculateLahiri PROVE AnswerInv'
<1>1. PICK value \in Healthy(birth.utc, TRUE) \cup Faulty(birth.utc, TRUE) :
        LET refusal == Refusal(birth.utc, value)
        IN  /\ printed' = <<printed[1], value>>
            /\ \/ refusal # None /\ Fail(refusal)
               \/ /\ refusal = None
                  /\ \/ value.lahiri = None
                     \/ value.moon # tropical.moon
                     \/ value.tt # tropical.tt
                  /\ Fail("invalid_result")
               \/ /\ refusal = None /\ value.lahiri # None
                  /\ value.moon = tropical.moon /\ value.tt = tropical.tt
                  /\ IF /\ Representable(value.lahiri.ayanamsha)
                        /\ Representable(value.lahiri.moon)
                        /\ LahiriCoherent(tropical, value.lahiri)
                     THEN /\ stage' = "done"
                          /\ answer' = Content(tropical, value.lahiri)
                          /\ UNCHANGED tropical
                     ELSE Fail("internal_error")
  BY DEF CalculateLahiri
<1> DEFINE refusal == Refusal(birth.utc, value)
           first == printed[1]
           fits == /\ Representable(value.lahiri.ayanamsha)
                   /\ Representable(value.lahiri.moon)
                   /\ LahiriCoherent(tropical, value.lahiri)
<1>2. /\ BirthSound /\ answer = None /\ UNCHANGED <<world, birth>>
      /\ first.moon \in Int /\ tropical = Response(birth, first)
  BY DEF CalculateLahiri, AnswerInv, TimeInv, CalculationSound
<1>3. InRange(birth.utc) /\ birth.utc \in Int
  BY <1>2, BirthsAreInRange DEF BirthSound
<1>4. refusal = None \/ refusal \notin Stages
  BY ErrorsAreNoStages
<1>5. printed'[1] = first /\ printed'[2] = value /\ Len(printed') = 2
  BY <1>1
<1>6. BirthSound'
  BY <1>2 DEF BirthSound, Day
<1>7. tropical.moon = first.moon /\ tropical.tt = first.tt
  BY <1>2 DEF Response
<1>8. first \in Healthy(birth.utc, FALSE) => first.tt = TT(birth.utc)
  BY <1>3, HealthyIsAccepted
<1>9. value \in Healthy(birth.utc, TRUE) =>
        /\ refusal = None /\ value.tt = TT(birth.utc) /\ value.lahiri # None
        /\ value.moon = tropical.moon => fits
  BY <1>3, HealthyIsAccepted
<1>10. /\ Healthy(birth.utc, FALSE)' = Healthy(birth.utc, FALSE)
       /\ Healthy(birth.utc, TRUE)' = Healthy(birth.utc, TRUE)
  BY <1>2 DEF Healthy, Run, Mod, TT, UT1, WorkerLimits, LeapCount, Day
<1> HIDE DEF refusal, first, fits
<1>11. ASSUME /\ first \in Healthy(birth.utc, FALSE) /\ value \in Healthy(birth.utc, TRUE)
              /\ value.moon = first.moon
       PROVE  stage' = "done"
  <2>1. refusal = None /\ value.lahiri # None /\ fits
        /\ value.moon = tropical.moon /\ value.tt = tropical.tt
    BY <1>7, <1>8, <1>9, <1>11
  <2> QED BY <1>1, <2>1 DEF refusal, fits
<1>12. EveryInstantIsAnswered'
  BY <1>5, <1>10, <1>11 DEF EveryInstantIsAnswered
<1>13. CASE \/ refusal # None /\ Fail(refusal)
            \/ Fail("invalid_result")
            \/ Fail("internal_error")
  <2>1. stage' \notin Stages /\ answer' = None
    BY <1>2, <1>4, <1>13 DEF Fail, Stages
  <2> QED BY <1>6, <1>12, <2>1 DEF AnswerInv, AnglesAgree, Stages
<1>14. CASE /\ refusal = None /\ value.lahiri # None /\ fits
            /\ stage' = "done" /\ answer' = Content(tropical, value.lahiri) /\ UNCHANGED tropical
  <2>1. value.error = None
    BY <1>3, <1>14 DEF Refusal, refusal
  <2>2. value.lahiri.ayanamsha \in Int /\ value.lahiri.moon \in Int
    BY <1>14, <2>1, PrintedAngles
  <2>3. birth.longitude \in Longitudes
    BY <1>2 DEF BirthSound
  <2>4. /\ answer'.moon \in 0..(Circle - 1)
        /\ Within(answer'.moon * Fine, tropical.moon, Fine \div 2)
        /\ -Circle <= 2 * answer'.longitude /\ 2 * answer'.longitude < Circle
        /\ Within(answer'.longitude * Fine, birth.longitude, Fine \div 2)
        /\ answer'.sidereal # None =>
             /\ {answer'.sidereal.moon, answer'.sidereal.ayanamsha} \subseteq 0..(Circle - 1)
             /\ Within((answer'.sidereal.moon + answer'.sidereal.ayanamsha) * Fine,
                       answer'.moon * Fine, Fine)
    BY <1>2, <1>14, <2>2, <2>3, ContentIsNear DEF fits
  <2>5. AnglesAgree'
    BY <1>2, <1>14, <2>4 DEF AnglesAgree, Within, Mod
  <2> QED BY <1>6, <1>12, <1>14, <2>5 DEF AnswerInv
<1> QED BY <1>1, <1>13, <1>14 DEF refusal, fits

LEMMA AnswerInvariant == Spec => []AnswerInv
<1>1. Init => AnswerInv
  BY DEF Init, AnswerInv, EveryInstantIsAnswered, AnglesAgree
<1>2. ASSUME TimeInv, AnswerInv, [Next]_vars PROVE AnswerInv'
  <2>1. CASE Tick
    <3>1. stage = "idle" /\ stage' = "idle" /\ answer' = None
      BY <1>2, <2>1 DEF Tick, TimeInv, CalculationSound
    <3> QED BY <3>1 DEF AnswerInv, EveryInstantIsAnswered, AnglesAgree
  <2>2. CASE Ask
    <3>1. stage' = "civil" /\ answer' = None
      BY <1>2, <2>2 DEF Ask, TimeInv, CalculationSound
    <3>2. world.day * Ticks + world.tick \in Int
      BY <1>2, Constants DEF TimeInv, WorldSound, Length
    <3>3. BirthSound'
      BY <2>2, <3>2 DEF Ask, BirthSound, Day
    <3> QED BY <3>1, <3>3 DEF AnswerInv, EveryInstantIsAnswered, AnglesAgree
  <2>3. CASE UNCHANGED vars
    <3>1. /\ Healthy(birth.utc, FALSE)' = Healthy(birth.utc, FALSE)
          /\ Healthy(birth.utc, TRUE)' = Healthy(birth.utc, TRUE)
      BY <2>3 DEF vars, Healthy, Run, Mod, TT, UT1, WorkerLimits, LeapCount, Day
    <3>2. EveryInstantIsAnswered'
      BY <1>2, <2>3, <3>1 DEF AnswerInv, vars, EveryInstantIsAnswered
    <3>3. AnglesAgree'
      BY <1>2, <2>3 DEF AnswerInv, vars, AnglesAgree, Within, Mod
    <3>4. (stage # "idle" => BirthSound)'
      BY <1>2, <2>3 DEF AnswerInv, vars, BirthSound, Day
    <3>5. Response(birth, printed[1])' = Response(birth, printed[1])
      BY <2>3 DEF vars, Response, LongitudeDecimal, HalfEven, CivilLimits, Day
    <3> QED BY <1>2, <2>3, <3>2, <3>3, <3>4, <3>5 DEF AnswerInv, vars
  <2> QED BY <1>2, <2>1, <2>2, <2>3, CalculateAnswerInv, CalculateLahiriAnswerInv DEF Next
<1> QED BY <1>1, <1>2, TimeInvariant, PTL DEF Spec
-----------------------------------------------------------------------------
\* For every calendar, every table of leap days, every offset of less than a day and any
\* angles of a healthy library: no second of the supported years is refused, because the
\* limits and roundings that ephemeris/worker.py, ephemeris/contracts.py, app/contracts.py
\* and lahiri.py compute one after the other are the same.
THEOREM EverySecondIsAnswered == Spec => []EveryInstantIsAnswered
<1>1. AnswerInv => EveryInstantIsAnswered
  BY DEF AnswerInv
<1> QED BY <1>1, AnswerInvariant, PTL

\* For every fineness of the library's angles and every even circle: what canonical.py
\* writes is within half a unit of what was calculated, around the seam of the circle and
\* the seam of the longitudes, and the sidereal angles add up but for one unit.
THEOREM WrittenAnglesAgree == Spec => []AnglesAgree
<1>1. AnswerInv => AnglesAgree
  BY DEF AnswerInv
<1> QED BY <1>1, AnswerInvariant, PTL
=============================================================================
