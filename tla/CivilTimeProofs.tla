-------------------------- MODULE CivilTimeProofs --------------------------
(***************************************************************************)
(* What the round trip through zoneinfo finds, for every zone whose        *)
(* changes are spaced, every local time and every chosen fold.             *)
(***************************************************************************)
EXTENDS CivilTime, FiniteSetTheorems, TLAPS

\* A set of numbers that holds all smaller ones is an initial segment, and its
\* cardinality is where it ends: a count of changes is the place of the last one.
LEMMA InitialSegment ==
  ASSUME NEW n \in Nat, NEW S \in SUBSET (1..n),
         \A i \in S : \A j \in 1..n : j < i => j \in S
  PROVE  Cardinality(S) \in 0..n /\ \A i \in 1..n : i \in S <=> i <= Cardinality(S)
<1> DEFINE k == Cardinality(S)
<1>1. IsFiniteSet(1..n) /\ Cardinality(1..n) = n
  BY FS_Interval
<1>2. IsFiniteSet(S) /\ k \in Nat /\ k <= n
  BY <1>1, FS_Subset, FS_CardinalityType
<1>3. ASSUME NEW i \in S PROVE i <= k
  <2>1. i \in 1..n /\ 1..i \subseteq S
    OBVIOUS
  <2>2. Cardinality(1..i) = i
    BY <2>1, FS_Interval
  <2>3. Cardinality(1..i) <= k
    BY <1>2, <2>1, FS_Subset
  <2> QED BY <2>2, <2>3
<1>4. S \subseteq 1..k
  BY <1>2, <1>3
<1>5. IsFiniteSet(1..k) /\ Cardinality(1..k) = k
  <2>1. k \in Int
    BY <1>2
  <2>2. Cardinality(1..k) = IF 1 > k THEN 0 ELSE k - 1 + 1
    BY <2>1, FS_Interval
  <2>3. IsFiniteSet(1..k)
    BY <2>1, FS_Interval
  <2> HIDE DEF k
  <2> QED BY <1>2, <2>2, <2>3
<1>6. S = 1..k
  BY <1>4, <1>5, FS_Subset
<1> HIDE DEF k
<1>7. \A i \in 1..n : i \in S <=> i <= k
  BY <1>2, <1>6
<1> QED BY <1>2, <1>7 DEF k

\* Changes come one after the other, and so do the stretches that they disturb.
LEMMA Orderly ==
  ASSUME NEW z, IsZone(z), Spaced(z)
  PROVE  /\ z.changes \in Nat
         /\ \A i \in 0..z.changes : z.off[i] \in Int
         /\ \A i \in 1..z.changes :
              /\ z.at[i] \in Int /\ Opens(z, i) \in Int /\ Closes(z, i) \in Int
              /\ Opens(z, i) <= z.at[i] + z.off[i - 1] /\ z.at[i] + z.off[i - 1] <= Closes(z, i)
              /\ Opens(z, i) <= z.at[i] + z.off[i] /\ z.at[i] + z.off[i] <= Closes(z, i)
              /\ \/ Opens(z, i) = z.at[i] + z.off[i - 1] /\ Closes(z, i) = z.at[i] + z.off[i]
                 \/ Opens(z, i) = z.at[i] + z.off[i] /\ Closes(z, i) = z.at[i] + z.off[i - 1]
         /\ \A i, j \in 1..z.changes : i < j => /\ z.at[i] < z.at[j]
                                                /\ Closes(z, i) <= Opens(z, j)
<1>1. /\ z.changes \in Nat /\ \A i \in 0..z.changes : z.off[i] \in Int
      /\ \A i \in 1..z.changes : z.at[i] \in Int
  BY DEF IsZone
<1>2. ASSUME NEW i \in 1..z.changes
      PROVE  /\ z.off[i] \in Int /\ z.off[i - 1] \in Int /\ z.at[i] \in Int
  <2>1. i \in 0..z.changes /\ i - 1 \in 0..z.changes
    BY <1>1
  <2> QED BY <1>1, <2>1
<1> QED BY <1>1, <1>2 DEF Spaced, Opens, Closes, Larger, Smaller

\* The offset off[k] is in force at the instant with which it shows the local time.
Valid(z, clock, k) == /\ k >= 1 => z.at[k] + z.off[k] <= clock
                      /\ k < z.changes => clock < z.at[k + 1] + z.off[k]

\* An instant shows a local time with the offset of the changes it has behind it.
LEMMA ShownByOffset ==
  ASSUME NEW z, IsZone(z), Spaced(z), NEW utc \in Int, NEW clock \in Int
  PROVE  ToLocal(z, utc) = clock
           <=> \E k \in 0..z.changes : Valid(z, clock, k) /\ utc = clock - z.off[k]
<1> DEFINE n == z.changes
           S == {i \in 1..n : z.at[i] <= utc}
           c == Cardinality(S)
<1>0. /\ n \in Nat /\ \A i \in 0..n : z.off[i] \in Int
      /\ \A i \in 1..n : z.at[i] \in Int
      /\ \A i, j \in 1..n : i < j => z.at[i] < z.at[j]
  BY Orderly
<1>1. c \in 0..n /\ \A i \in 1..n : z.at[i] <= utc <=> i <= c
  <2>1. \A i \in S : \A j \in 1..n : j < i => j \in S
    BY <1>0
  <2>2. c \in 0..n /\ \A i \in 1..n : i \in S <=> i <= c
    BY <1>0, <2>1, InitialSegment
  <2> QED BY <2>2
<1>2. ToLocal(z, utc) = utc + z.off[c]
  BY DEF ToLocal, OffsetAt
<1> HIDE DEF c, S
<1>3. ASSUME ToLocal(z, utc) = clock
      PROVE  Valid(z, clock, c) /\ utc = clock - z.off[c]
  <2>1. z.off[c] \in Int /\ utc = clock - z.off[c]
    BY <1>0, <1>1, <1>2, <1>3
  <2>2. c >= 1 => z.at[c] + z.off[c] <= clock
    <3>1. c >= 1 => c \in 1..n
      BY <1>0, <1>1
    <3> QED BY <1>0, <1>1, <2>1, <3>1
  <2>3. c < n => clock < z.at[c + 1] + z.off[c]
    <3>1. c < n => c + 1 \in 1..n /\ ~ (c + 1 <= c)
      BY <1>0, <1>1
    <3>2. c < n => z.at[c + 1] \in Int /\ ~ (z.at[c + 1] <= utc)
      BY <1>0, <1>1, <3>1
    <3> QED BY <2>1, <3>2
  <2> QED BY <2>1, <2>2, <2>3 DEF Valid
<1>4. ASSUME NEW k \in 0..n, Valid(z, clock, k), utc = clock - z.off[k]
      PROVE  ToLocal(z, utc) = clock
  <2>1. z.off[k] \in Int /\ k \in Int /\ c \in Int
    BY <1>0, <1>1
  <2>2. k <= c
    <3>1. k >= 1 => k \in 1..n /\ z.at[k] <= utc
      BY <1>0, <1>4, <2>1 DEF Valid
    <3> QED BY <1>1, <2>1, <3>1
  <2>3. c <= k
    <3>1. k < n => k + 1 \in 1..n /\ z.at[k + 1] > utc /\ z.at[k + 1] \in Int
      BY <1>0, <1>4, <2>1 DEF Valid
    <3>2. k < n => ~ (k + 1 <= c)
      BY <1>1, <3>1
    <3> QED BY <1>0, <1>1, <2>1, <3>2
  <2>4. c = k
    BY <2>1, <2>2, <2>3
  <2> QED BY <1>2, <1>4, <2>1, <2>4
<1> QED BY <1>1, <1>3, <1>4

\* The last change whose stretch has closed, and the last whose stretch has opened.
LastClosed(z, clock) == Cardinality({i \in 1..z.changes : Closes(z, i) <= clock})
LastOpened(z, clock) == Cardinality({i \in 1..z.changes : Opens(z, i) <= clock})

\* At most one stretch is open at a time.
LEMMA OneOpenStretch ==
  ASSUME NEW z, IsZone(z), Spaced(z), NEW clock \in Int
  PROVE  LET c == LastClosed(z, clock)
             o == LastOpened(z, clock)
         IN  /\ c \in 0..z.changes /\ o \in 0..z.changes /\ (o = c \/ o = c + 1)
             /\ \A i \in 1..z.changes : Closes(z, i) <= clock <=> i <= c
             /\ \A i \in 1..z.changes : Opens(z, i) <= clock <=> i <= o
             /\ OffsetOf(z, clock, 0) = z.off[c] /\ OffsetOf(z, clock, 1) = z.off[o]
<1> DEFINE n == z.changes
           C == {i \in 1..n : Closes(z, i) <= clock}
           O == {i \in 1..n : Opens(z, i) <= clock}
           c == Cardinality(C)
           o == Cardinality(O)
<1>0. /\ n \in Nat
      /\ \A i \in 1..n : /\ Opens(z, i) \in Int /\ Closes(z, i) \in Int
                         /\ Opens(z, i) <= Closes(z, i)
      /\ \A i, j \in 1..n : i < j => Closes(z, i) <= Opens(z, j)
  <2>1. \A i \in 1..n : i \in 0..n /\ i - 1 \in 0..n
    BY Orderly
  <2> QED BY <2>1, Orderly
<1>1. c \in 0..n /\ \A i \in 1..n : i \in C <=> i <= c
  <2>1. \A i \in C : \A j \in 1..n : j < i => j \in C
    BY <1>0
  <2> QED BY <1>0, <2>1, InitialSegment
<1>2. o \in 0..n /\ \A i \in 1..n : i \in O <=> i <= o
  <2>1. \A i \in O : \A j \in 1..n : j < i => j \in O
    BY <1>0
  <2> QED BY <1>0, <2>1, InitialSegment
<1>3. /\ \A i \in 1..n : Closes(z, i) <= clock <=> i <= c
      /\ \A i \in 1..n : Opens(z, i) <= clock <=> i <= o
  BY <1>1, <1>2
<1>4. OffsetOf(z, clock, 0) = z.off[c] /\ OffsetOf(z, clock, 1) = z.off[o]
  BY DEF OffsetOf
<1> HIDE DEF c, o, C, O
<1>5. c <= o
  <2>1. c >= 1 => c \in 1..n /\ Closes(z, c) <= clock
    BY <1>0, <1>1, <1>3
  <2>2. c >= 1 => Opens(z, c) <= clock
    BY <1>0, <2>1
  <2> QED BY <1>0, <1>1, <1>2, <1>3, <2>1, <2>2
<1>6. o <= c + 1
  <2> SUFFICES ASSUME o >= c + 2 PROVE FALSE
    BY <1>0, <1>1, <1>2
  <2>1. c + 1 \in 1..n /\ c + 2 \in 1..n /\ c + 1 < c + 2 /\ ~ (c + 1 <= c)
    BY <1>0, <1>1, <1>2
  <2>2. Closes(z, c + 1) <= Opens(z, c + 2) /\ Opens(z, c + 2) <= clock
    BY <1>0, <1>3, <2>1
  <2>3. ~ (Closes(z, c + 1) <= clock)
    BY <1>3, <2>1
  <2> QED BY <1>0, <2>1, <2>2, <2>3
<1>7. o = c \/ o = c + 1
  BY <1>0, <1>1, <1>2, <1>5, <1>6
<1> QED BY <1>1, <1>2, <1>3, <1>4, <1>7 DEF LastClosed, LastOpened, c, o, C, O

\* Outside the stretches one offset shows a local time; inside one, none does if the
\* clock was moved forward, and the old and the new one do if it was moved back.
LEMMA OffsetsThatShow ==
  ASSUME NEW z, IsZone(z), Spaced(z), NEW clock \in Int
  PROVE  LET c == LastClosed(z, clock)
             o == LastOpened(z, clock)
         IN  /\ o = c => \A k \in 0..z.changes : Valid(z, clock, k) <=> k = c
             /\ o # c => /\ z.off[o] # z.off[c]
                         /\ z.off[o] > z.off[c] => \A k \in 0..z.changes : ~ Valid(z, clock, k)
                         /\ z.off[o] < z.off[c] =>
                              \A k \in 0..z.changes : Valid(z, clock, k) <=> k \in {c, o}
<1> DEFINE n == z.changes
           c == LastClosed(z, clock)
           o == LastOpened(z, clock)
<1>1. /\ c \in 0..n /\ o \in 0..n /\ (o = c \/ o = c + 1)
      /\ \A i \in 1..n : Closes(z, i) <= clock <=> i <= c
      /\ \A i \in 1..n : Opens(z, i) <= clock <=> i <= o
  BY OneOpenStretch
<1> HIDE DEF c, o
<1>2. n \in Nat /\ \A i \in 0..n : z.off[i] \in Int
  BY Orderly
<1>3. ASSUME NEW i \in 1..n
      PROVE  /\ z.at[i] \in Int /\ Opens(z, i) \in Int /\ Closes(z, i) \in Int
             /\ z.off[i] \in Int /\ z.off[i - 1] \in Int
             /\ Opens(z, i) <= z.at[i] + z.off[i - 1] /\ z.at[i] + z.off[i - 1] <= Closes(z, i)
             /\ Opens(z, i) <= z.at[i] + z.off[i] /\ z.at[i] + z.off[i] <= Closes(z, i)
             /\ \/ Opens(z, i) = z.at[i] + z.off[i - 1] /\ Closes(z, i) = z.at[i] + z.off[i]
                \/ Opens(z, i) = z.at[i] + z.off[i] /\ Closes(z, i) = z.at[i] + z.off[i - 1]
  <2>1. i \in 0..n /\ i - 1 \in 0..n
    BY <1>2
  <2> QED BY <1>2, <2>1, Orderly
<1>4. ASSUME NEW k \in 0..n, k < c PROVE ~ Valid(z, clock, k)
  <2>1. k + 1 \in 1..n /\ k + 1 <= c /\ k + 1 - 1 = k /\ k < n
    BY <1>1, <1>2, <1>4
  <2>2. Closes(z, k + 1) <= clock
    BY <1>1, <2>1
  <2>3. z.at[k + 1] + z.off[k] <= Closes(z, k + 1) /\ Closes(z, k + 1) \in Int
        /\ z.at[k + 1] \in Int /\ z.off[k] \in Int
    BY <1>3, <2>1
  <2>4. ~ (clock < z.at[k + 1] + z.off[k])
    BY <2>2, <2>3
  <2> QED BY <2>1, <2>4 DEF Valid
<1>5. ASSUME NEW k \in 0..n, k > o PROVE ~ Valid(z, clock, k)
  <2>1. k \in 1..n /\ ~ (k <= o) /\ k >= 1
    BY <1>1, <1>2, <1>5
  <2>2. ~ (Opens(z, k) <= clock)
    BY <1>1, <2>1
  <2> QED BY <1>3, <2>1, <2>2 DEF Valid
<1>6. ASSUME NEW i \in 1..n, i <= c PROVE z.at[i] + z.off[i] <= clock
  BY <1>1, <1>3, <1>6
<1>7. ASSUME NEW k \in 0..n, k >= o, k < n PROVE clock < z.at[k + 1] + z.off[k]
  <2>1. k + 1 \in 1..n /\ ~ (k + 1 <= o) /\ k + 1 - 1 = k
    BY <1>1, <1>2, <1>7
  <2>2. ~ (Opens(z, k + 1) <= clock)
    BY <1>1, <2>1
  <2>3. /\ z.at[k + 1] \in Int /\ Opens(z, k + 1) \in Int /\ z.off[k] \in Int
        /\ Opens(z, k + 1) <= z.at[k + 1] + z.off[k]
    BY <1>3, <2>1
  <2> QED BY <2>2, <2>3
<1>8. CASE o = c
  <2>1. Valid(z, clock, c)
    <3>1. c >= 1 => c \in 1..n
      BY <1>1, <1>2
    <3>2. c < n => c \in 0..n /\ c >= o
      BY <1>1, <1>8
    <3>3. c <= c
      BY <1>1
    <3> QED BY <1>6, <1>7, <3>1, <3>2, <3>3 DEF Valid
  <2>2. ASSUME NEW k \in 0..n PROVE Valid(z, clock, k) <=> k = c
    <3>1. k < c \/ k = c \/ k > o
      BY <1>1, <1>2, <1>8
    <3> QED BY <1>1, <1>4, <1>5, <1>8, <2>1, <3>1
  <2> QED BY <1>8, <2>2 DEF c, o
<1>9. CASE o # c
  <2>1. o = c + 1 /\ o \in 1..n /\ o - 1 = c /\ o >= 1 /\ c < n
    BY <1>1, <1>2, <1>9
  <2>2. Opens(z, o) <= clock /\ clock < Closes(z, o)
    <3>1. o <= o /\ ~ (o <= c)
      BY <1>1, <2>1
    <3>2. Opens(z, o) <= clock /\ ~ (Closes(z, o) <= clock)
      BY <1>1, <2>1, <3>1
    <3> QED BY <1>3, <2>1, <3>2
  <2>3. z.off[o] \in Int /\ z.off[c] \in Int /\ z.at[o] \in Int
    BY <1>3, <2>1
  <2>4. \/ Opens(z, o) = z.at[o] + z.off[c] /\ Closes(z, o) = z.at[o] + z.off[o]
        \/ Opens(z, o) = z.at[o] + z.off[o] /\ Closes(z, o) = z.at[o] + z.off[c]
    BY <1>3, <2>1
  <2>5. z.off[o] # z.off[c]
    BY <2>2, <2>3, <2>4
  <2>6. ASSUME NEW k \in 0..n PROVE Valid(z, clock, k) => k \in {c, o}
    <3>1. k < c \/ k = c \/ k = o \/ k > o
      BY <1>1, <1>2, <2>1
    <3> QED BY <1>4, <1>5, <3>1
  <2>7. ASSUME z.off[o] > z.off[c], NEW k \in 0..n PROVE ~ Valid(z, clock, k)
    <3>1. z.at[o] + z.off[c] <= clock /\ clock < z.at[o] + z.off[o]
      BY <2>2, <2>3, <2>4, <2>7
    <3>2. ~ Valid(z, clock, c)
      <4>1. ~ (clock < z.at[c + 1] + z.off[c])
        BY <2>1, <2>3, <3>1
      <4> QED BY <2>1, <4>1 DEF Valid
    <3>3. ~ Valid(z, clock, o)
      <4>1. ~ (z.at[o] + z.off[o] <= clock)
        BY <2>3, <3>1
      <4> QED BY <2>1, <4>1 DEF Valid
    <3> QED BY <2>6, <3>2, <3>3
  <2>8. ASSUME z.off[o] < z.off[c] PROVE Valid(z, clock, c) /\ Valid(z, clock, o)
    <3>1. z.at[o] + z.off[o] <= clock /\ clock < z.at[o] + z.off[c]
      BY <2>2, <2>3, <2>4, <2>8
    <3>2. c >= 1 => z.at[c] + z.off[c] <= clock
      <4>1. c >= 1 => c \in 1..n /\ c <= c
        BY <1>1, <1>2
      <4> QED BY <1>6, <4>1
    <3>3. Valid(z, clock, c)
      BY <2>1, <3>1, <3>2 DEF Valid
    <3>4. o < n => clock < z.at[o + 1] + z.off[o]
      <4>1. o \in 0..n /\ o >= o
        BY <1>1
      <4> QED BY <1>7, <4>1
    <3> QED BY <2>1, <3>1, <3>3, <3>4 DEF Valid
  <2>9. z.off[o] < z.off[c] => \A k \in 0..n : Valid(z, clock, k) <=> k \in {c, o}
    BY <2>6, <2>8
  <2> QED BY <1>9, <2>5, <2>7, <2>9 DEF c, o
<1> QED BY <1>8, <1>9

\* The instants at which a clock of the zone shows the local time.
Shows(z, clock) == {utc \in Instants : ToLocal(z, utc) = clock}

\* Earlier and Later are the instants that fold 0 and fold 1 stand for.
At(z, clock, fold) == clock - OffsetOf(z, clock, fold)

\* The folds that survive the round trip are exactly as many as the instants.
LEMMA FoldsAreExact ==
  ASSUME NEW z \in Zones, NEW clock \in Supported
  PROVE  /\ At(z, clock, 0) \in Int /\ At(z, clock, 1) \in Int
         /\ \/ Shows(z, clock) = {} /\ CandidateFolds(z, clock) = {}
            \/ Shows(z, clock) = {At(z, clock, 0)} /\ CandidateFolds(z, clock) = {0}
            \/ /\ Shows(z, clock) = {At(z, clock, 0), At(z, clock, 1)}
               /\ CandidateFolds(z, clock) = {0, 1}
               /\ At(z, clock, 0) < At(z, clock, 1)
<1> DEFINE n == z.changes
           c == LastClosed(z, clock)
           o == LastOpened(z, clock)
<1>1. /\ IsZone(z) /\ Spaced(z) /\ clock \in Int /\ Instants \subseteq Int
      /\ \A i \in 0..n : clock - z.off[i] \in Instants
  BY CivilAssumption
<1>2. /\ c \in 0..n /\ o \in 0..n /\ (o = c \/ o = c + 1)
      /\ OffsetOf(z, clock, 0) = z.off[c] /\ OffsetOf(z, clock, 1) = z.off[o]
  BY <1>1, OneOpenStretch
<1>3. /\ o = c => \A k \in 0..n : Valid(z, clock, k) <=> k = c
      /\ o # c => /\ z.off[o] # z.off[c]
                  /\ z.off[o] > z.off[c] => \A k \in 0..n : ~ Valid(z, clock, k)
                  /\ z.off[o] < z.off[c] => \A k \in 0..n : Valid(z, clock, k) <=> k \in {c, o}
  BY <1>1, OffsetsThatShow
<1> HIDE DEF c, o
<1>4. /\ z.off[c] \in Int /\ z.off[o] \in Int
      /\ At(z, clock, 0) = clock - z.off[c] /\ At(z, clock, 1) = clock - z.off[o]
      /\ At(z, clock, 0) \in Instants /\ At(z, clock, 1) \in Instants
      /\ At(z, clock, 0) \in Int /\ At(z, clock, 1) \in Int
  BY <1>1, <1>2, Orderly DEF At
<1>5. \A utc \in Int : ToLocal(z, utc) = clock
                         <=> \E k \in 0..n : Valid(z, clock, k) /\ utc = clock - z.off[k]
  BY <1>1, ShownByOffset
<1>6. \A f \in {0, 1} : f \in CandidateFolds(z, clock)
        <=> /\ ToLocal(z, At(z, clock, f)) = clock
            /\ f = 1 => \/ z.off[o] # z.off[c]
                        \/ ToLocal(z, At(z, clock, 0)) # clock
  BY <1>2 DEF CandidateFolds, At
<1>7. CASE o = c
  <2>1. ToLocal(z, At(z, clock, 0)) = clock
    BY <1>2, <1>3, <1>4, <1>5, <1>7
  <2>2. 0 \in CandidateFolds(z, clock) /\ 1 \notin CandidateFolds(z, clock)
    BY <1>6, <1>7, <2>1
  <2>3. CandidateFolds(z, clock) = {0}
    BY <2>2 DEF CandidateFolds
  <2>4. \A utc \in Instants : ToLocal(z, utc) = clock <=> utc = At(z, clock, 0)
    BY <1>1, <1>2, <1>3, <1>4, <1>5, <1>7
  <2>5. Shows(z, clock) = {At(z, clock, 0)}
    BY <1>4, <2>4 DEF Shows
  <2> QED BY <1>4, <2>3, <2>5
<1>8. CASE o # c /\ z.off[o] > z.off[c]
  <2>1. \A utc \in Int : ToLocal(z, utc) # clock
    BY <1>3, <1>5, <1>8
  <2>2. 0 \notin CandidateFolds(z, clock) /\ 1 \notin CandidateFolds(z, clock)
    BY <1>4, <1>6, <2>1
  <2>3. CandidateFolds(z, clock) = {}
    BY <2>2 DEF CandidateFolds
  <2>4. Shows(z, clock) = {}
    BY <1>1, <2>1 DEF Shows
  <2> QED BY <1>4, <2>3, <2>4
<1>9. CASE o # c /\ z.off[o] < z.off[c]
  <2>1. \A utc \in Int : ToLocal(z, utc) = clock
                           <=> utc = At(z, clock, 0) \/ utc = At(z, clock, 1)
    BY <1>2, <1>3, <1>4, <1>5, <1>9
  <2>2. 0 \in CandidateFolds(z, clock) /\ 1 \in CandidateFolds(z, clock)
    BY <1>3, <1>4, <1>6, <1>9, <2>1
  <2>3. CandidateFolds(z, clock) = {0, 1}
    BY <2>2 DEF CandidateFolds
  <2>4. Shows(z, clock) = {At(z, clock, 0), At(z, clock, 1)}
    BY <1>1, <1>4, <2>1 DEF Shows
  <2>5. At(z, clock, 0) < At(z, clock, 1)
    BY <1>1, <1>4, <1>9
  <2> QED BY <1>4, <2>3, <2>4, <2>5
<1> QED BY <1>3, <1>4, <1>7, <1>8, <1>9

\* What resolve returns in each of the three cases.
LEMMA ResolveIsExact ==
  ASSUME NEW z \in Zones, NEW clock \in Supported, NEW fold \in {NoFold, 0, 1}
  PROVE  LET answer == Resolve(z, TRUE, clock, fold)
         IN  \/ Shows(z, clock) = {} /\ answer = Failed("nonexistent_local_time")
             \/ /\ Shows(z, clock) = {At(z, clock, 0)}
                /\ fold = NoFold => answer = Resolved(clock, At(z, clock, 0), NoFold)
                /\ fold # NoFold => answer = Failed("invalid_fold")
             \/ /\ Shows(z, clock) = {At(z, clock, 0), At(z, clock, 1)}
                /\ At(z, clock, 0) < At(z, clock, 1)
                /\ fold = NoFold => answer = Failed("ambiguous_local_time")
                /\ fold # NoFold => answer = Resolved(clock, At(z, clock, fold), fold)
<1> DEFINE folds == CandidateFolds(z, clock)
<1>1. Resolve(z, TRUE, clock, fold) = Choose(z, clock, fold)
  BY DEF Resolve
<1>2. {0} # {} /\ {0} # {0, 1} /\ {0, 1} # {} /\ {0, 1} \notin {{0}, {1}} /\ {} \notin {{0}, {1}}
  <2>1. 1 \in {0, 1} /\ 0 \in {0, 1} /\ 1 \notin {0} /\ 0 \notin {1} /\ 0 \in {0} /\ 1 \in {1}
    OBVIOUS
  <2> QED BY <2>1
<1>3. CASE Shows(z, clock) = {} /\ folds = {}
  <2>1. Choose(z, clock, fold) = Failed("nonexistent_local_time")
    BY <1>2, <1>3 DEF Choose
  <2> QED BY <1>1, <1>3, <2>1
<1>4. CASE Shows(z, clock) = {At(z, clock, 0)} /\ folds = {0}
  <2>1. (CHOOSE f \in {0} : TRUE) = 0
    OBVIOUS
  <2>2. fold = NoFold => Choose(z, clock, fold) = Resolved(clock, At(z, clock, 0), NoFold)
    BY <1>2, <1>4, <2>1 DEF Choose, At
  <2>3. fold # NoFold => Choose(z, clock, fold) = Failed("invalid_fold")
    BY <1>2, <1>4 DEF Choose
  <2> QED BY <1>1, <1>4, <2>2, <2>3
<1>5. CASE /\ Shows(z, clock) = {At(z, clock, 0), At(z, clock, 1)} /\ folds = {0, 1}
           /\ At(z, clock, 0) < At(z, clock, 1)
  <2>1. fold = NoFold => Choose(z, clock, fold) = Failed("ambiguous_local_time")
    BY <1>2, <1>5 DEF Choose
  <2>2. fold # NoFold => Choose(z, clock, fold) = Resolved(clock, At(z, clock, fold), fold)
    BY <1>2, <1>5 DEF Choose, At
  <2> QED BY <1>1, <1>5, <2>1, <2>2
<1> QED BY <1>3, <1>4, <1>5, FoldsAreExact

\* One instant or two, and which of two is the first.
LEMMA InstantsOf ==
  ASSUME NEW a \in Int, NEW b \in Int
  PROVE  /\ Cardinality({a}) = 1
         /\ a < b => /\ Cardinality({a, b}) = 2
                     /\ Earliest({a, b}) = a /\ Latest({a, b}) = b
<1>1. IsFiniteSet({a}) /\ Cardinality({a}) = 1
  BY FS_Singleton
<1>2. ASSUME a < b PROVE Cardinality({a, b}) = 2
  <2>1. b \notin {a} /\ {a, b} = {a} \cup {b}
    BY <1>2
  <2>2. Cardinality({a} \cup {b}) = 1 + 1
    BY <1>1, <2>1, FS_AddElement
  <2> QED BY <2>1, <2>2
<1>3. ASSUME a < b PROVE Earliest({a, b}) = a
  <2>1. \A u \in {a, b} : (\A v \in {a, b} : u <= v) <=> u = a
    BY <1>3
  <2>2. \A u : (u \in {a, b} /\ \A v \in {a, b} : u <= v) <=> u = a
    BY <2>1
  <2>3. (CHOOSE u \in {a, b} : \A v \in {a, b} : u <= v) = CHOOSE u : u = a
    BY <2>2
  <2> QED BY <2>3 DEF Earliest
<1>4. ASSUME a < b PROVE Latest({a, b}) = b
  <2>1. \A u \in {a, b} : (\A v \in {a, b} : v <= u) <=> u = b
    BY <1>4
  <2>2. \A u : (u \in {a, b} /\ \A v \in {a, b} : v <= u) <=> u = b
    BY <2>1
  <2>3. (CHOOSE u \in {a, b} : \A v \in {a, b} : v <= u) = CHOOSE u : u = b
    BY <2>2
  <2> QED BY <2>3 DEF Latest
<1> QED BY <1>1, <1>2, <1>3, <1>4
-----------------------------------------------------------------------------
\* A result is what resolve returns for the question, a claim is a coherent one about the
\* same supported local time, and what was replayed came out of resolving once more.
CivilInv ==
  /\ zone \in Zones /\ located \in BOOLEAN /\ local \in Locals /\ choice \in Choices
  /\ result # Nothing => result = Resolve(zone, located, local, choice)
  /\ claim # Nothing =>
       /\ local \in Supported /\ located = TRUE
       /\ \E utc \in Int, fold \in {NoFold, 0, 1} : claim = Resolved(local, utc, fold)
  /\ replayed # Nothing =>
       /\ claim # Nothing
       /\ LET again == Resolve(zone, located, local, claim.fold)
          IN  replayed = IF again = claim THEN again ELSE Failed("invalid_input")

\* A resolved answer has the shape of a claim.
LEMMA ResolvedIsClaim ==
  ASSUME NEW z \in Zones, NEW clock \in Supported, NEW fold \in Choices,
         Resolve(z, TRUE, clock, fold).status = "resolved"
  PROVE  \E utc \in Int, f \in {NoFold, 0, 1} :
           Resolve(z, TRUE, clock, fold) = Resolved(clock, utc, f)
<1>1. \A category : Failed(category).status = category
  BY DEF Failed
<1>2. fold \in {NoFold, 0, 1}
  <2>1. fold \notin {NoFold, 0, 1} => Resolve(z, TRUE, clock, fold) = Failed("invalid_fold")
    BY DEF Resolve
  <2> QED BY <1>1, <2>1
<1>3. At(z, clock, 0) \in Int /\ At(z, clock, 1) \in Int
  BY FoldsAreExact
<1>4. fold # NoFold => At(z, clock, fold) \in Int
  BY <1>2, <1>3
<1> DEFINE answer == Resolve(z, TRUE, clock, fold)
<1>5. \/ answer \in {Failed(category) : category \in {"nonexistent_local_time", "invalid_fold",
                                                      "ambiguous_local_time"}}
      \/ answer = Resolved(clock, At(z, clock, 0), NoFold)
      \/ fold # NoFold /\ answer = Resolved(clock, At(z, clock, fold), fold)
  BY <1>2, ResolveIsExact
<1>6. answer.status = "resolved"
  OBVIOUS
<1> HIDE DEF answer
<1>7. \/ answer = Resolved(clock, At(z, clock, 0), NoFold)
      \/ fold # NoFold /\ answer = Resolved(clock, At(z, clock, fold), fold)
  BY <1>1, <1>5, <1>6
<1>8. \E utc \in Int, f \in {NoFold, 0, 1} : answer = Resolved(clock, utc, f)
  BY <1>2, <1>3, <1>4, <1>7
<1> QED BY <1>8 DEF answer

LEMMA CivilInvariant == Spec => []CivilInv
<1>1. Init => CivilInv
  BY DEF Init, CivilInv
<1>2. ASSUME CivilInv, [Next]_vars PROVE CivilInv'
  <2>1. CASE Answer
    BY <1>2, <2>1 DEF CivilInv, Answer, Nothing
  <2>2. CASE Claim
    <3>1. local \in Supported /\ located = TRUE /\ UNCHANGED <<zone, located, local, choice, result, replayed>>
      BY <1>2, <2>2 DEF Claim, CivilInv
    <3>2. \E utc \in Int, fold \in {NoFold, 0, 1} : claim' = Resolved(local, utc, fold)
      <4>1. CASE result.status = "resolved" /\ claim' = result
        <5>1. result = Resolve(zone, TRUE, local, choice) /\ zone \in Zones /\ choice \in Choices
          BY <1>2, <2>2, <3>1 DEF Claim, CivilInv
        <5> QED BY <3>1, <4>1, <5>1, ResolvedIsClaim
      <4>2. CASE \E utc \in Instants, fold \in {NoFold, 0, 1} : claim' = Resolved(local, utc, fold)
        BY <4>2, CivilAssumption
      <4> QED BY <2>2, <4>1, <4>2 DEF Claim
    <3>3. claim = Nothing /\ replayed' = Nothing
      BY <1>2, <2>2, <3>1 DEF Claim, CivilInv
    <3> QED BY <1>2, <3>1, <3>2, <3>3 DEF CivilInv
  <2>3. CASE Replay
    BY <1>2, <2>3 DEF CivilInv, Replay
  <2>4. CASE UNCHANGED vars
    BY <1>2, <2>4 DEF CivilInv, vars
  <2> QED BY <1>2, <2>1, <2>2, <2>3, <2>4 DEF Next
<1> QED BY <1>1, <1>2, PTL DEF Spec
-----------------------------------------------------------------------------
\* For every zone with spaced changes and every supported local time, folds and gaps of
\* any size at any place included: civil/tzdb.py resolves exactly the instants that show
\* the local time, and tells none, one and two apart.
THEOREM CivilTimesAreExact == Spec => []ResolvedIsExact
<1>1. ASSUME CivilInv PROVE ResolvedIsExact
  <2> SUFFICES ASSUME Asked
               PROVE  ResolvedIsExact
    BY DEF ResolvedIsExact
  <2> DEFINE a == At(zone, local, 0)
             b == At(zone, local, 1)
  <2>1. /\ zone \in Zones /\ local \in Supported /\ choice \in {NoFold, 0, 1}
        /\ result = Resolve(zone, TRUE, local, choice)
        /\ Showing = Shows(zone, local)
    BY <1>1 DEF CivilInv, Asked, Choices, Showing, Shows
  <2>2. a \in Int /\ b \in Int
    BY <2>1, FoldsAreExact
  <2>3. \/ Showing = {} /\ result = Failed("nonexistent_local_time")
        \/ /\ Showing = {a}
           /\ choice = NoFold => result = Resolved(local, a, NoFold)
           /\ choice # NoFold => result = Failed("invalid_fold")
        \/ /\ Showing = {a, b} /\ a < b
           /\ choice = NoFold => result = Failed("ambiguous_local_time")
           /\ choice # NoFold => result = Resolved(local, At(zone, local, choice), choice)
    BY <2>1, ResolveIsExact
  <2>4. Cardinality({}) = 0 /\ Cardinality({a}) = 1
    BY <2>2, FS_EmptySet, InstantsOf
  <2>5. a < b => Cardinality({a, b}) = 2 /\ Earliest({a, b}) = a /\ Latest({a, b}) = b
    BY <2>2, InstantsOf
  <2>6. NoFold # 0 /\ NoFold # 1
    BY CivilAssumption
  <2>7. choice # NoFold => At(zone, local, choice) = IF choice = 0 THEN a ELSE b
    BY <2>1, <2>6
  <2> HIDE DEF a, b
  <2>8. CASE Showing = {} /\ result = Failed("nonexistent_local_time")
    BY <2>4, <2>8 DEF ResolvedIsExact, Failed
  <2>9. CASE /\ Showing = {a}
             /\ choice = NoFold => result = Resolved(local, a, NoFold)
             /\ choice # NoFold => result = Failed("invalid_fold")
    BY <2>4, <2>9 DEF ResolvedIsExact, Failed, Resolved
  <2>10. CASE /\ Showing = {a, b} /\ a < b
              /\ choice = NoFold => result = Failed("ambiguous_local_time")
              /\ choice # NoFold => result = Resolved(local, At(zone, local, choice), choice)
    <3>1. /\ Cardinality(Showing) = 2 /\ Earliest(Showing) = a /\ Latest(Showing) = b
      BY <2>5, <2>10
    <3> QED BY <2>7, <2>10, <3>1 DEF ResolvedIsExact, Failed, Resolved
  <2> QED BY <2>3, <2>8, <2>9, <2>10
<1> QED BY <1>1, CivilInvariant, PTL

\* For every such zone and every claim: verify_result accepts it exactly if the rules
\* give it, so that no other instant, and no wrong choice of two, reaches the astronomy.
THEOREM ReplaysAreFaithful == Spec => []ReplayIsFaithful
<1>1. ASSUME CivilInv PROVE ReplayIsFaithful
  <2> SUFFICES ASSUME replayed # Nothing
               PROVE  ReplayIsFaithful
    BY DEF ReplayIsFaithful
  <2>1. PICK utc \in Int, fold \in {NoFold, 0, 1} : claim = Resolved(local, utc, fold)
    BY <1>1 DEF CivilInv
  <2> DEFINE a == At(zone, local, 0)
             b == At(zone, local, 1)
             again == Resolve(zone, TRUE, local, fold)
  <2>2. /\ zone \in Zones /\ local \in Supported
        /\ Showing = Shows(zone, local)
        /\ claim.utc = utc /\ claim.fold = fold /\ claim.status = "resolved"
        /\ replayed = IF again = claim THEN again ELSE Failed("invalid_input")
    BY <1>1, <2>1 DEF CivilInv, Showing, Shows, Resolved
  <2>3. Failed("invalid_input") # claim
    BY <2>2 DEF Failed
  <2>4. replayed = claim <=> again = claim
    BY <2>2, <2>3
  <2>5. a \in Int /\ b \in Int
    BY <2>2, FoldsAreExact
  <2>6. \/ Showing = {} /\ again = Failed("nonexistent_local_time")
        \/ /\ Showing = {a}
           /\ fold = NoFold => again = Resolved(local, a, NoFold)
           /\ fold # NoFold => again = Failed("invalid_fold")
        \/ /\ Showing = {a, b} /\ a < b
           /\ fold = NoFold => again = Failed("ambiguous_local_time")
           /\ fold # NoFold => again = Resolved(local, At(zone, local, fold), fold)
    BY <2>2, ResolveIsExact
  <2>7. \A category : category # "resolved" => Failed(category) # claim
    BY <2>2 DEF Failed
  <2>8. \A at : Resolved(local, at, fold) = claim <=> at = utc
    BY <2>1 DEF Resolved
  <2>9. Cardinality({a}) = 1
    BY <2>5, InstantsOf
  <2>10. a < b => Cardinality({a, b}) = 2 /\ Earliest({a, b}) = a /\ Latest({a, b}) = b
    BY <2>5, InstantsOf
  <2>11. NoFold # 0 /\ NoFold # 1
    BY CivilAssumption
  <2>12. fold # NoFold => At(zone, local, fold) = IF fold = 0 THEN a ELSE b
    BY <2>11
  <2> HIDE DEF a, b, again
  <2>13. CASE Showing = {} /\ again = Failed("nonexistent_local_time")
    BY <2>2, <2>4, <2>7, <2>13 DEF ReplayIsFaithful
  <2>14. CASE /\ Showing = {a}
              /\ fold = NoFold => again = Resolved(local, a, NoFold)
              /\ fold # NoFold => again = Failed("invalid_fold")
    <3>1. Cardinality(Showing) = 1 /\ (utc \in Showing <=> utc = a)
      BY <2>9, <2>14
    <3>2. again = claim <=> fold = NoFold /\ utc = a
      BY <2>7, <2>8, <2>14
    <3> QED BY <2>2, <2>4, <3>1, <3>2 DEF ReplayIsFaithful
  <2>15. CASE /\ Showing = {a, b} /\ a < b
              /\ fold = NoFold => again = Failed("ambiguous_local_time")
              /\ fold # NoFold => again = Resolved(local, At(zone, local, fold), fold)
    <3>1. /\ Cardinality(Showing) = 2 /\ Earliest(Showing) = a /\ Latest(Showing) = b
          /\ a \in Showing /\ b \in Showing
      BY <2>10, <2>15
    <3>2. again = claim <=> (fold = 0 /\ utc = a) \/ (fold = 1 /\ utc = b)
      BY <2>7, <2>8, <2>11, <2>12, <2>15
    <3> QED BY <2>2, <2>4, <3>1, <3>2 DEF ReplayIsFaithful
  <2> QED BY <2>6, <2>13, <2>14, <2>15
<1> QED BY <1>1, CivilInvariant, PTL
=============================================================================
