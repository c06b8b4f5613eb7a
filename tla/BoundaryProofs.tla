--------------------------- MODULE BoundaryProofs ---------------------------
(***************************************************************************)
(* What the boundary resolver loads and answers, for any texts, any        *)
(* catalog, any points and any order in which the tree returns features.   *)
(*                                                                         *)
(* ParseInv numbers the tokens read so far: the k-th feature is token      *)
(* 2k - 1 and a comma is token 2k, so that a place decides what a whole    *)
(* text would hold there.                                                  *)
(***************************************************************************)
EXTENDS Boundary, FiniteSetTheorems, WellFoundedInduction, TLAPS

LEMMA TextShape ==
  ASSUME NEW t \in Texts
  PROVE  Len(t) \in Nat /\ DOMAIN t = 1..Len(t)
BY BoundaryAssumption

LEMMA WrittenIsFinite ==
  ASSUME NEW t \in Texts, NEW i \in Int
  PROVE  IsFiniteSet(Written(t, i)) /\ Number(t, i) \in Nat
<1>1. Written(t, i) \in SUBSET (1..Len(t)) /\ Len(t) \in Int
  BY TextShape DEF Written
<1>2. IsFiniteSet(1..Len(t))
  BY <1>1, FS_Interval
<1>3. IsFiniteSet(Written(t, i))
  BY <1>1, <1>2, FS_Subset
<1> QED BY <1>3, FS_CardinalityType DEF Number

\* Blanks do not count.
LEMMA BlanksDoNotCount ==
  ASSUME NEW t \in Texts, NEW i \in Int, NEW j \in Int, i <= j,
         \A k \in (i + 1)..j : k \in DOMAIN t => t[k].is = "blank"
  PROVE  Written(t, j) = Written(t, i) /\ Number(t, j) = Number(t, i)
<1>1. DOMAIN t \subseteq Int
  BY TextShape
<1>2. Written(t, j) = Written(t, i)
  BY <1>1 DEF Written
<1> QED BY <1>2 DEF Number

\* The next token has the next number.
LEMMA NextNumber ==
  ASSUME NEW t \in Texts, NEW i \in Int, NEW j \in DOMAIN t, i < j, t[j].is # "blank",
         \A k \in (i + 1)..(j - 1) : k \in DOMAIN t => t[k].is = "blank"
  PROVE  Written(t, j) = Written(t, i) \cup {j} /\ Number(t, j) = Number(t, i) + 1
<1>1. DOMAIN t \subseteq Int
  BY TextShape
<1>2. Written(t, j) = Written(t, i) \cup {j} /\ j \notin Written(t, i)
  BY <1>1 DEF Written
<1>3. IsFiniteSet(Written(t, i))
  BY WrittenIsFinite
<1>4. Cardinality(Written(t, i) \cup {j}) = Cardinality(Written(t, i)) + 1
  BY <1>2, <1>3, FS_AddElement
<1> QED BY <1>2, <1>4 DEF Number

\* The very next place, if it is no blank, has the next number.
LEMMA FollowingNumber ==
  ASSUME NEW t \in Texts, NEW i \in Int, i + 1 \in DOMAIN t, t[i + 1].is # "blank"
  PROVE  Number(t, i + 1) = Number(t, i) + 1
<1> DEFINE j == i + 1
<1>1. /\ j \in DOMAIN t /\ i < j /\ t[j].is # "blank"
      /\ \A k \in (i + 1)..(j - 1) : k \in DOMAIN t => t[k].is = "blank"
  OBVIOUS
<1> HIDE DEF j
<1>2. Number(t, j) = Number(t, i) + 1
  BY <1>1, NextNumber
<1> QED BY <1>2 DEF j

\* Tokens are numbered in their order.
LEMMA NumbersGrow ==
  ASSUME NEW t \in Texts, NEW i \in Int, NEW j \in Int, i <= j
  PROVE  /\ Number(t, i) <= Number(t, j)
         /\ j \in Written(t, j) /\ i < j => Number(t, i) < Number(t, j)
<1>1. DOMAIN t \subseteq Int
  BY TextShape
<1>2. Written(t, i) \in SUBSET Written(t, j) /\ (i < j => j \notin Written(t, i))
  BY <1>1 DEF Written
<1>3. IsFiniteSet(Written(t, j))
  BY WrittenIsFinite
<1>4. Cardinality(Written(t, i)) <= Cardinality(Written(t, j))
      /\ (Cardinality(Written(t, j)) = Cardinality(Written(t, i))
            => Written(t, j) = Written(t, i))
  BY <1>2, <1>3, FS_Subset
<1>5. Number(t, i) \in Nat /\ Number(t, j) \in Nat
  BY WrittenIsFinite
<1> QED BY <1>2, <1>4, <1>5 DEF Number

\* There is a first place from i on that is no blank.
LEMMA SkipIsFirst ==
  ASSUME text \in Texts, NEW i \in 1..(Len(text) + 1)
  PROVE  /\ Skip(i) \in i..(Len(text) + 1)
         /\ Skip(i) <= Len(text) => text[Skip(i)].is # "blank"
         /\ \A k \in i..(Skip(i) - 1) : text[k].is = "blank"
<1> DEFINE T == {j \in i..(Len(text) + 1) : j <= Len(text) => text[j].is # "blank"}
<1>1. Len(text) \in Nat
  BY TextShape
<1>2. T \subseteq Nat /\ T # {}
  <2>1. Len(text) + 1 \in T
    BY <1>1
  <2> QED BY <1>1, <2>1
<1>3. PICK j \in T : \A k \in T : ~ (<<k, j>> \in OpToRel(<, Nat))
  <2>1. IsWellFoundedOn(OpToRel(<, Nat), Nat)
    BY NatLessThanWellFounded
  <2> HIDE DEF T
  <2> QED BY <1>2, <2>1, WFMin
<1>4. \A k \in T : ~ (k < j)
  BY <1>2, <1>3 DEF OpToRel
<1>5. \A k \in i..(j - 1) : text[k].is = "blank"
  BY <1>1, <1>4
<1>6. j \in i..(Len(text) + 1) /\ (j <= Len(text) => text[j].is # "blank")
  OBVIOUS
<1> QED BY <1>5, <1>6 DEF Skip
-----------------------------------------------------------------------------
\* What a whole text holds at each number.
LEMMA WholeTokens ==
  ASSUME NEW t \in Texts, Whole(t), NEW i \in Written(t, Len(t))
  PROVE  LET n == Cardinality(Catalog)
         IN  \/ /\ \E m \in 1..n : Number(t, i) = 2 * m - 1
                /\ t[i].is = "feature" /\ Sound(t[i].polygons)
             \/ /\ \E m \in 1..(n - 1) : Number(t, i) = 2 * m
                /\ t[i].is = "comma"
             \/ /\ Number(t, i) = 2 * n
                /\ t[i].is = "bracket" /\ i < Len(t) /\ t[i + 1].is = "brace"
             \/ Number(t, i) = 2 * n + 1 /\ t[i].is = "brace"
BY DEF Whole

LEMMA CatalogIsCounted == Cardinality(Catalog) \in Nat /\ Cardinality(Catalog) > 0
<1>1. Cardinality(Catalog) \in Nat /\ Cardinality(Catalog) # 0
  BY BoundaryAssumption, FS_CardinalityType, FS_EmptySet
<1> QED BY <1>1

\* No zone is listed twice in a whole text: it lists as many features as there are zones.
LEMMA WholeIsDistinct ==
  ASSUME NEW t \in Texts, Whole(t), NEW i \in Listed(t), NEW j \in Listed(t),
         t[i].zone = t[j].zone
  PROVE  i = j
<1> DEFINE n == Cardinality(Catalog)
           nth == [k \in Listed(t) |-> CHOOSE m \in 1..n : Number(t, k) = 2 * m - 1]
           zone == [k \in Listed(t) |-> t[k].zone]
<1>1. n \in Nat /\ IsFiniteSet(1..n) /\ Cardinality(1..n) = n
  <2>1. n \in Nat /\ n > 0
    BY CatalogIsCounted
  <2>2. IsFiniteSet(1..n) /\ Cardinality(1..n) = IF 1 > n THEN 0 ELSE n - 1 + 1
    BY <2>1, FS_Interval
  <2> HIDE DEF n
  <2> QED BY <2>1, <2>2
<1>2. \A k \in Listed(t) : \E m \in 1..n : Number(t, k) = 2 * m - 1
  <2> SUFFICES ASSUME NEW k \in Listed(t) PROVE \E m \in 1..n : Number(t, k) = 2 * m - 1
    OBVIOUS
  <2>1. k \in Written(t, Len(t)) /\ t[k].is = "feature"
    BY TextShape DEF Listed, Written
  <2> QED BY <2>1, WholeTokens
<1>3. \A k \in Listed(t) : nth[k] \in 1..n /\ Number(t, k) = 2 * nth[k] - 1
  BY <1>2
<1>4. nth \in Injection(Listed(t), 1..n)
  <2>1. nth \in [Listed(t) -> 1..n]
    BY <1>3
  <2>2. ASSUME NEW k \in Listed(t), NEW l \in Listed(t), nth[k] = nth[l] PROVE k = l
    <3>1. Number(t, k) = Number(t, l)
      BY <1>3, <2>2
    <3>2. k \in Int /\ l \in Int /\ k \in Written(t, k) /\ l \in Written(t, l)
      BY TextShape DEF Listed, Written
    <3>3. Number(t, k) \in Nat /\ Number(t, l) \in Nat
      BY <3>2, WrittenIsFinite
    <3>4. /\ k < l => Number(t, k) < Number(t, l)
          /\ l < k => Number(t, l) < Number(t, k)
      BY <3>2, NumbersGrow
    <3> QED BY <3>1, <3>2, <3>3, <3>4
  <2> HIDE DEF nth
  <2> QED BY <2>1, <2>2 DEF Injection, IsInjective
<1>5. IsFiniteSet(Listed(t)) /\ Cardinality(Listed(t)) <= n
  <2> HIDE DEF nth, n
  <2> QED BY <1>1, <1>4, FS_Injection
<1>6. zone \in Surjection(Listed(t), Catalog)
  <2>1. {t[k].zone : k \in Listed(t)} = Catalog
    BY DEF Whole
  <2> QED BY <2>1 DEF Surjection
<1>7. n <= Cardinality(Listed(t))
      /\ (n = Cardinality(Listed(t)) => zone \in Injection(Listed(t), Catalog))
  <2> HIDE DEF zone
  <2> QED BY <1>5, <1>6, FS_Surjection
<1>8. Cardinality(Listed(t)) \in Nat
  BY <1>5, FS_CardinalityType
<1>9. zone \in Injection(Listed(t), Catalog)
  <2> HIDE DEF zone, n
  <2> QED BY <1>1, <1>5, <1>7, <1>8
<1> QED BY <1>9 DEF Injection, IsInjective
-----------------------------------------------------------------------------
Tokens(t) == {t[i] : i \in Listed(t)}
ZonesOf(fs) == {fs[k].zone : k \in DOMAIN fs}

\* The tokens of t before place a are the features fs and commas, each at its number.
Read(t, a, fs) ==
  /\ \A i \in Written(t, a - 1) :
       \/ /\ t[i].is = "feature"
          /\ \E k \in DOMAIN fs : Number(t, i) = 2 * k - 1 /\ fs[k] = t[i]
       \/ /\ t[i].is = "comma"
          /\ \E k \in DOMAIN fs : Number(t, i) = 2 * k
  /\ \A k \in DOMAIN fs :
       /\ \E i \in Listed(t) : i < a /\ fs[k] = t[i]
       /\ fs[k].zone \in Catalog /\ Sound(fs[k].polygons)
  /\ Cardinality(ZonesOf(fs)) = Len(fs)

\* The loader is before a feature, or at the end of the list, or behind a feature.
AtPlace ==
  LET n == Len(features)
      read == Number(text, at - 1)
  IN  /\ status = "new" => n = 0 /\ read = 0
      /\ status = "separator" => read = 2 * n - 1
      /\ status = "feature" =>
           \/ n = 0 /\ read = 0
           \/ n > 0 /\ read = 2 * n - 1 /\ Is(Skip(at), "bracket")
           \/ /\ n > 0 /\ read = 2 * n /\ ~ Is(Skip(at), "bracket")
              /\ \E i \in Written(text, at - 1) : Number(text, i) = 2 * n /\ text[i].is = "comma"

ParseTypes ==
  /\ text \in Texts /\ faults \in Faults
  /\ at \in 1..(Len(text) + 1)
  /\ features \in Seq(Tokens(text))

ParseInv ==
  /\ ParseTypes
  /\ status \in {"feature", "separator"} => faults = {}
  /\ Read(text, at, features)
  /\ AtPlace
  /\ status = "ready" => \A i \in Listed(text) : i < at
  /\ ParsedIsWhole

\* A comma that follows a feature is read.
LEMMA ReadComma ==
  ASSUME NEW t \in Texts, NEW a \in 1..(Len(t) + 1), NEW fs \in Seq(Tokens(t)), Read(t, a, fs),
         NEW i \in a..Len(t), t[i].is = "comma", \A k \in a..(i - 1) : t[k].is = "blank",
         Number(t, a - 1) = 2 * Len(fs) - 1
  PROVE  /\ Read(t, i + 1, fs)
         /\ Number(t, i) = 2 * Len(fs) /\ i \in Written(t, i) /\ Len(fs) > 0
<1>1. Len(t) \in Nat /\ DOMAIN t = 1..Len(t)
  BY TextShape
<1>2. Written(t, i) = Written(t, a - 1) \cup {i} /\ Number(t, i) = Number(t, a - 1) + 1
  <2>1. /\ a - 1 \in Int /\ i \in DOMAIN t /\ a - 1 < i /\ t[i].is # "blank"
        /\ \A k \in (a - 1 + 1)..(i - 1) : t[k].is = "blank"
    BY <1>1
  <2> QED BY <2>1, NextNumber
<1>3. Number(t, a - 1) \in Nat
  BY WrittenIsFinite
<1>4. Len(fs) \in Nat /\ DOMAIN fs = 1..Len(fs)
  OBVIOUS
<1>5. Number(t, i) = 2 * Len(fs) /\ Len(fs) > 0
  BY <1>2, <1>3, <1>4
<1>6. Len(fs) \in DOMAIN fs
  BY <1>4, <1>5
<1>7. \A k \in DOMAIN fs : /\ \E j \in Listed(t) : j < i + 1 /\ fs[k] = t[j]
                          /\ fs[k].zone \in Catalog /\ Sound(fs[k].polygons)
  <2> SUFFICES ASSUME NEW k \in DOMAIN fs PROVE \E j \in Listed(t) : j < i + 1 /\ fs[k] = t[j]
    BY DEF Read
  <2>1. PICK j \in Listed(t) : j < a /\ fs[k] = t[j]
    BY DEF Read
  <2>2. j \in Int
    BY <1>1 DEF Listed
  <2> QED BY <2>1, <2>2
<1>8. i + 1 - 1 = i
  OBVIOUS
<1>9. \A j \in Written(t, i) :
       \/ /\ t[j].is = "feature"
          /\ \E k \in DOMAIN fs : Number(t, j) = 2 * k - 1 /\ fs[k] = t[j]
       \/ /\ t[j].is = "comma"
          /\ \E k \in DOMAIN fs : Number(t, j) = 2 * k
  BY <1>2, <1>5, <1>6 DEF Read
<1> QED BY <1>2, <1>5, <1>7, <1>8, <1>9 DEF Read

\* A sound feature of a new zone of the catalog is read.
LEMMA ReadFeature ==
  ASSUME NEW t \in Texts, NEW a \in 1..(Len(t) + 1), NEW fs \in Seq(Tokens(t)), Read(t, a, fs),
         NEW i \in a..Len(t), t[i].is = "feature", \A k \in a..(i - 1) : t[k].is = "blank",
         t[i].zone \in Catalog \ ZonesOf(fs), Sound(t[i].polygons),
         Number(t, a - 1) = 2 * Len(fs)
  PROVE  /\ Append(fs, t[i]) \in Seq(Tokens(t))
         /\ Len(Append(fs, t[i])) = Len(fs) + 1
         /\ Read(t, i + 1, Append(fs, t[i]))
         /\ Number(t, i) = 2 * Len(fs) + 1
<1> DEFINE gs == Append(fs, t[i])
<1>1. Len(t) \in Nat /\ DOMAIN t = 1..Len(t)
  BY TextShape
<1>2. Written(t, i) = Written(t, a - 1) \cup {i} /\ Number(t, i) = Number(t, a - 1) + 1
  <2>1. /\ a - 1 \in Int /\ i \in DOMAIN t /\ a - 1 < i /\ t[i].is # "blank"
        /\ \A k \in (a - 1 + 1)..(i - 1) : t[k].is = "blank"
    BY <1>1
  <2> QED BY <2>1, NextNumber
<1>3. i \in Listed(t) /\ t[i] \in Tokens(t)
  BY <1>1 DEF Listed, Tokens
<1>4. Len(fs) \in Nat /\ DOMAIN fs = 1..Len(fs)
  OBVIOUS
<1>5. /\ gs \in Seq(Tokens(t)) /\ Len(gs) = Len(fs) + 1
      /\ DOMAIN gs = DOMAIN fs \cup {Len(fs) + 1}
      /\ gs[Len(fs) + 1] = t[i] /\ \A k \in DOMAIN fs : gs[k] = fs[k]
  BY <1>3, <1>4
<1> HIDE DEF gs
<1>6. ZonesOf(gs) = ZonesOf(fs) \cup {t[i].zone}
  BY <1>5 DEF ZonesOf
<1>7. IsFiniteSet(ZonesOf(fs))
  <2>1. ZonesOf(fs) \in SUBSET Catalog
    BY DEF Read, ZonesOf
  <2> QED BY <2>1, BoundaryAssumption, FS_Subset
<1>8. Cardinality(ZonesOf(gs)) = Len(gs)
  <2>1. Cardinality(ZonesOf(fs) \cup {t[i].zone}) = Cardinality(ZonesOf(fs)) + 1
    BY <1>7, FS_AddElement
  <2> QED BY <1>5, <1>6, <2>1 DEF Read
<1>9. Number(t, i) = 2 * (Len(fs) + 1) - 1
  BY <1>2, <1>4
<1>10. \A k \in DOMAIN gs : /\ \E j \in Listed(t) : j < i + 1 /\ gs[k] = t[j]
                           /\ gs[k].zone \in Catalog /\ Sound(gs[k].polygons)
  <2>1. ASSUME NEW k \in DOMAIN fs PROVE \E j \in Listed(t) : j < i + 1 /\ fs[k] = t[j]
    <3>1. PICK j \in Listed(t) : j < a /\ fs[k] = t[j]
      BY DEF Read
    <3>2. j \in Int
      BY <1>1 DEF Listed
    <3> QED BY <3>1, <3>2
  <2>2. i < i + 1
    OBVIOUS
  <2>3. \A k \in DOMAIN fs : fs[k].zone \in Catalog /\ Sound(fs[k].polygons)
    BY DEF Read
  <2> QED BY <1>3, <1>5, <2>1, <2>2, <2>3
<1>11. \A j \in Written(t, i) :
        \/ /\ t[j].is = "feature"
           /\ \E k \in DOMAIN gs : Number(t, j) = 2 * k - 1 /\ gs[k] = t[j]
        \/ /\ t[j].is = "comma"
           /\ \E k \in DOMAIN gs : Number(t, j) = 2 * k
  BY <1>2, <1>5, <1>9 DEF Read
<1>12. i + 1 - 1 = i
  OBVIOUS
<1>13. Read(t, i + 1, gs)
  BY <1>8, <1>10, <1>11, <1>12 DEF Read
<1> QED BY <1>4, <1>5, <1>9, <1>13 DEF gs

LEMMA InitParseInv == Init => ParseInv
<1> SUFFICES ASSUME Init PROVE ParseInv
  OBVIOUS
<1>1. Len(text) \in Nat /\ DOMAIN text = 1..Len(text)
  BY TextShape DEF Init
<1>2. Written(text, at - 1) = {}
  BY <1>1 DEF Init, Written
<1>3. Number(text, at - 1) = 0
  BY <1>2, FS_EmptySet DEF Number
<1>4. Len(features) = 0 /\ DOMAIN features = {} /\ ZonesOf(features) = {}
  BY DEF Init, ZonesOf
<1>5. Cardinality(ZonesOf(features)) = Len(features)
  BY <1>4, FS_EmptySet
<1>6. Read(text, at, features)
  BY <1>2, <1>4, <1>5 DEF Read
<1>7. ParseTypes
  BY <1>1 DEF Init, ParseTypes
<1>8. AtPlace
  BY <1>3, <1>4 DEF Init, AtPlace
<1> QED BY <1>6, <1>7, <1>8 DEF Init, ParseInv, ParsedIsWhole

LEMMA LoadParseInv == ASSUME ParseInv, Load PROVE ParseInv'
<1> DEFINE failed == {i \in DOMAIN Checks : Checks[i][1] \in faults}
<1>1. failed = {} => faults = {}
  BY BoundaryAssumption DEF ParseInv, ParseTypes
<1>2. /\ status = "new" /\ UNCHANGED <<text, faults, at, features>>
      /\ \/ failed = {} /\ status' = "feature"
         \/ \E i \in failed : status' = Checks[i][2]
  BY DEF Load
<1>3. \A i \in DOMAIN Checks : Checks[i][2] \notin {"new", "feature", "separator", "ready"}
  BY DEF Checks
<1>4. \/ faults = {} /\ status' = "feature"
      \/ faults # {} /\ status' \notin {"new", "feature", "separator", "ready"}
  BY <1>1, <1>2, <1>3
<1>5. Len(features) = 0 /\ Number(text, at - 1) = 0
  BY <1>2 DEF ParseInv, AtPlace
<1> HIDE DEF failed
<1>6. AtPlace'
  BY <1>2, <1>4, <1>5 DEF AtPlace
<1> QED BY <1>2, <1>4, <1>6 DEF ParseInv, ParseTypes, ParsedIsWhole, Whole

\* The next token is the next one to be numbered; if there is none, all are numbered.
LEMMA NextToken ==
  ASSUME text \in Texts, NEW a \in 1..(Len(text) + 1)
  PROVE  /\ Skip(a) \in a..(Len(text) + 1)
         /\ \A k \in a..(Skip(a) - 1) : text[k].is = "blank"
         /\ Skip(a) <= Len(text) =>
              /\ Skip(a) \in Written(text, Len(text))
              /\ Number(text, Skip(a)) = Number(text, a - 1) + 1
         /\ Skip(a) > Len(text) => Number(text, Len(text)) = Number(text, a - 1)
<1> DEFINE i == Skip(a)
<1>1. Len(text) \in Nat /\ DOMAIN text = 1..Len(text)
  BY TextShape
<1>2. /\ i \in a..(Len(text) + 1)
      /\ i <= Len(text) => text[i].is # "blank"
      /\ \A k \in a..(i - 1) : text[k].is = "blank"
  BY SkipIsFirst
<1> HIDE DEF i
<1>3. ASSUME i <= Len(text)
      PROVE  i \in Written(text, Len(text)) /\ Number(text, i) = Number(text, a - 1) + 1
  <2>1. /\ a - 1 \in Int /\ i \in DOMAIN text /\ a - 1 < i /\ text[i].is # "blank"
        /\ \A k \in (a - 1 + 1)..(i - 1) : text[k].is = "blank"
    BY <1>1, <1>2, <1>3
  <2>2. Number(text, i) = Number(text, a - 1) + 1
    BY <2>1, NextNumber
  <2> QED BY <1>1, <1>3, <2>1, <2>2 DEF Written
<1>4. ASSUME i > Len(text) PROVE Number(text, Len(text)) = Number(text, a - 1)
  <2>1. /\ a - 1 \in Int /\ Len(text) \in Int /\ a - 1 <= Len(text)
        /\ \A k \in (a - 1 + 1)..Len(text) : text[k].is = "blank"
    BY <1>1, <1>2, <1>4
  <2> QED BY <2>1, BlanksDoNotCount
<1> QED BY <1>2, <1>3, <1>4 DEF i

\* No more features are read than there are zones.
LEMMA FeaturesFit ==
  ASSUME ParseInv
  PROVE  /\ Len(features) \in Nat /\ DOMAIN features = 1..Len(features)
         /\ Names = ZonesOf(features) /\ Names \subseteq Catalog
         /\ Len(features) <= Cardinality(Catalog)
         /\ Len(features) = Cardinality(Catalog) <=> Names = Catalog
<1>1. Len(features) \in Nat /\ DOMAIN features = 1..Len(features)
  BY DEF ParseInv, ParseTypes
<1>2. Names = ZonesOf(features) /\ Names \in SUBSET Catalog
      /\ Cardinality(Names) = Len(features)
  BY DEF ParseInv, Read, Names, ZonesOf
<1>3. Cardinality(Names) <= Cardinality(Catalog)
      /\ (Cardinality(Catalog) = Cardinality(Names) => Catalog = Names)
  BY <1>2, BoundaryAssumption, FS_Subset
<1> QED BY <1>1, <1>2, <1>3

\* A comma that follows the last feature is out of place.
LEMMA CommaTooMuch ==
  ASSUME NEW t \in Texts, Whole(t), NEW i \in Written(t, Len(t)), t[i].is = "comma"
  PROVE  Number(t, i) # 2 * Cardinality(Catalog)
<1> DEFINE n == Cardinality(Catalog)
<1>1. n \in Nat
  BY CatalogIsCounted
<1>2. PICK m \in 1..(n - 1) : Number(t, i) = 2 * m
  BY WholeTokens
<1> HIDE DEF n
<1> QED BY <1>1, <1>2 DEF n

\* What a list is wrong for where a feature must come.
LEMMA FeatureRefused ==
  ASSUME ParseInv, status = "feature", ~ Is(Skip(at), "bracket"),
         LET i == Skip(at)
         IN  ~ (/\ Is(i, "feature")
                /\ text[i].zone \in Catalog \ Names
                /\ Len(features) < Cardinality(Catalog)
                /\ Sound(text[i].polygons))
  PROVE  ~ Whole(text)
<1> DEFINE i == Skip(at)
           n == Cardinality(Catalog)
           l == Len(features)
<1> SUFFICES ASSUME Whole(text) PROVE FALSE
  OBVIOUS
<1>1. text \in Texts /\ at \in 1..(Len(text) + 1) /\ Len(text) \in Nat
      /\ DOMAIN text = 1..Len(text)
  BY TextShape DEF ParseInv, ParseTypes
<1>2. n \in Nat /\ n > 0 /\ l \in Nat /\ l <= n
  BY CatalogIsCounted, FeaturesFit
<1>3. Number(text, at - 1) = 2 * l
  BY <1>2 DEF ParseInv, AtPlace
<1>4. Number(text, Len(text)) = 2 * n + 1
  BY DEF Whole
<1> HIDE DEF n, l
<1>5. i <= Len(text) /\ i \in Written(text, Len(text)) /\ Number(text, i) = 2 * l + 1
  <2>1. /\ i \in at..(Len(text) + 1)
        /\ i <= Len(text) => /\ i \in Written(text, Len(text))
                             /\ Number(text, i) = Number(text, at - 1) + 1
        /\ i > Len(text) => Number(text, Len(text)) = Number(text, at - 1)
    BY <1>1, NextToken
  <2> HIDE DEF i
  <2> QED BY <1>1, <1>2, <1>3, <1>4, <2>1
<1>6. l # n
  <2> SUFFICES ASSUME l = n PROVE FALSE
    OBVIOUS
  <2>1. PICK j \in Written(text, at - 1) : Number(text, j) = 2 * n /\ text[j].is = "comma"
    BY <1>2 DEF ParseInv, AtPlace, l
  <2>2. j \in Written(text, Len(text))
    BY <1>1 DEF Written
  <2> QED BY <1>1, <2>1, <2>2, CommaTooMuch DEF n
<1>7. text[i].is = "feature" /\ Sound(text[i].polygons)
  <2>1. \/ text[i].is = "feature" /\ Sound(text[i].polygons)
        \/ \E m \in 1..(n - 1) : Number(text, i) = 2 * m
        \/ Number(text, i) = 2 * n
        \/ Number(text, i) = 2 * n + 1
    BY <1>1, <1>5, WholeTokens DEF n
  <2> HIDE DEF i
  <2> QED BY <1>2, <1>5, <1>6, <2>1
<1>8. i \in Listed(text) /\ Is(i, "feature")
  BY <1>1, <1>5, <1>7 DEF Listed, Written, Is
<1>9. text[i].zone \in Catalog
  BY <1>8 DEF Whole
<1>10. text[i].zone \notin Names
  <2> SUFFICES ASSUME text[i].zone \in Names PROVE FALSE
    OBVIOUS
  <2>1. PICK k \in DOMAIN features : features[k].zone = text[i].zone
    BY DEF Names
  <2>2. PICK j \in Listed(text) : j < at /\ features[k] = text[j]
    BY DEF ParseInv, Read
  <2>3. j = i
    BY <1>1, <1>8, <2>1, <2>2, WholeIsDistinct
  <2>4. i >= at /\ at \in Int /\ i \in Int
    BY <1>1, NextToken
  <2> HIDE DEF i
  <2> QED BY <2>2, <2>3, <2>4
<1> QED BY <1>2, <1>6, <1>7, <1>8, <1>9, <1>10 DEF i, n, l

LEMMA FeatureParseInv == ASSUME ParseInv, Feature PROVE ParseInv'
<1> DEFINE i == Skip(at)
<1>1. /\ status = "feature" /\ ~ Is(i, "bracket") /\ UNCHANGED <<text, faults>>
      /\ faults = {} /\ text \in Texts /\ at \in 1..(Len(text) + 1)
      /\ Len(text) \in Nat /\ DOMAIN text = 1..Len(text)
  BY TextShape DEF Feature, ParseInv, ParseTypes
<1>2. Number(text, at - 1) = 2 * Len(features)
  BY <1>1, FeaturesFit DEF ParseInv, AtPlace
<1>3. CASE /\ Is(i, "feature")
           /\ text[i].zone \in Catalog \ Names
           /\ Len(features) < Cardinality(Catalog)
           /\ Sound(text[i].polygons)
  <2>1. features' = Append(features, text[i]) /\ at' = i + 1 /\ status' = "separator"
    BY <1>3 DEF Feature
  <2>2. i \in at..Len(text) /\ \A k \in at..(i - 1) : text[k].is = "blank"
    <3>1. i \in at..(Len(text) + 1) /\ \A k \in at..(i - 1) : text[k].is = "blank"
      BY <1>1, NextToken
    <3> QED BY <1>1, <1>3, <3>1 DEF Is
  <2>3. text[i].is = "feature" /\ text[i].zone \in Catalog \ ZonesOf(features)
    BY <1>3, FeaturesFit DEF Is
  <2> HIDE DEF i
  <2>4. /\ Append(features, text[i]) \in Seq(Tokens(text))
        /\ Len(Append(features, text[i])) = Len(features) + 1
        /\ Read(text, i + 1, Append(features, text[i]))
        /\ Number(text, i) = 2 * Len(features) + 1
    BY <1>1, <1>2, <1>3, <2>2, <2>3, ReadFeature DEF ParseInv, ParseTypes
  <2>5. at' - 1 = i /\ at' \in 1..(Len(text) + 1) /\ Len(features) \in Nat
    BY <1>1, <2>1, <2>2, FeaturesFit
  <2>6. AtPlace'
    BY <1>1, <2>1, <2>4, <2>5 DEF AtPlace
  <2>7. Read(text, at, features)'
    BY <1>1, <2>1, <2>4
  <2>8. ParseTypes'
    BY <1>1, <2>1, <2>4, <2>5 DEF ParseInv, ParseTypes
  <2> QED BY <1>1, <2>1, <2>6, <2>7, <2>8 DEF ParseInv, ParsedIsWhole
<1>4. CASE ~ (/\ Is(i, "feature")
              /\ text[i].zone \in Catalog \ Names
              /\ Len(features) < Cardinality(Catalog)
              /\ Sound(text[i].polygons))
  <2>1. status' = "artifact_invalid" /\ UNCHANGED <<features, at>>
    BY <1>4 DEF Feature
  <2>2. ~ Whole(text)
    BY <1>1, <1>4, FeatureRefused
  <2>3. ~ Whole(text)'
    BY <1>1, <2>2
  <2> QED BY <1>1, <2>1, <2>3 DEF ParseInv, ParseTypes, AtPlace, ParsedIsWhole
<1> QED BY <1>3, <1>4

\* What a list is wrong for behind a feature.
LEMMA SeparatorRefused ==
  ASSUME ParseInv, status = "separator",
         LET i == Skip(at)
         IN  ~ Is(i, "bracket") /\ (Is(i, "comma") => Is(Skip(i + 1), "bracket"))
  PROVE  ~ Whole(text)
<1> DEFINE i == Skip(at)
           j == Skip(i + 1)
           n == Cardinality(Catalog)
           l == Len(features)
<1> SUFFICES ASSUME Whole(text) PROVE FALSE
  OBVIOUS
<1>1. text \in Texts /\ at \in 1..(Len(text) + 1) /\ Len(text) \in Nat
      /\ DOMAIN text = 1..Len(text)
  BY TextShape DEF ParseInv, ParseTypes
<1>2. n \in Nat /\ n > 0 /\ l \in Nat /\ l <= n
  BY CatalogIsCounted, FeaturesFit
<1>3. Number(text, at - 1) = 2 * l - 1
  BY DEF ParseInv, AtPlace
<1>4. Number(text, Len(text)) = 2 * n + 1
  BY DEF Whole
<1>5. /\ i \in at..(Len(text) + 1)
      /\ i <= Len(text) => /\ i \in Written(text, Len(text))
                           /\ Number(text, i) = Number(text, at - 1) + 1
      /\ i > Len(text) => Number(text, Len(text)) = Number(text, at - 1)
  BY <1>1, NextToken
<1> HIDE DEF n, l, i
<1>6. i <= Len(text) /\ i \in Written(text, Len(text)) /\ Number(text, i) = 2 * l
      /\ i \in 1..Len(text)
  BY <1>1, <1>2, <1>3, <1>4, <1>5
<1>7. text[i].is = "comma"
  <2>1. \/ \E m \in 1..n : Number(text, i) = 2 * m - 1
        \/ text[i].is = "comma"
        \/ text[i].is = "bracket"
        \/ Number(text, i) = 2 * n + 1
    BY <1>1, <1>6, WholeTokens DEF n
  <2>2. text[i].is # "bracket"
    BY <1>6 DEF Is, i
  <2> QED BY <1>2, <1>6, <2>1, <2>2
<1>8. Is(j, "bracket")
  BY <1>6, <1>7 DEF Is, i
<1>9. /\ j \in Written(text, Len(text))
      /\ Number(text, j) = Number(text, i) + 1
      /\ text[j].is = "bracket"
  <2> DEFINE next == i + 1
  <2>1. next \in 1..(Len(text) + 1) /\ next - 1 = i
    BY <1>1, <1>6
  <2>2. j <= Len(text) /\ text[j].is = "bracket" /\ j = Skip(next)
    BY <1>8 DEF Is
  <2> HIDE DEF next, j
  <2>3. Skip(next) <= Len(text) => /\ Skip(next) \in Written(text, Len(text))
                                   /\ Number(text, Skip(next)) = Number(text, next - 1) + 1
    BY <1>1, <2>1, NextToken
  <2> QED BY <2>1, <2>2, <2>3
<1> HIDE DEF j
<1>10. Number(text, j) = 2 * l + 1 /\ j \in Written(text, Len(text))
  BY <1>2, <1>6, <1>9
<1>11. Number(text, j) = 2 * n
  BY <1>1, <1>9, <1>10, WholeTokens DEF n
<1> QED BY <1>2, <1>10, <1>11

LEMMA SeparatorParseInv == ASSUME ParseInv, Separator PROVE ParseInv'
<1> DEFINE i == Skip(at)
<1>1. /\ status = "separator" /\ UNCHANGED <<text, faults, features>>
      /\ faults = {} /\ text \in Texts /\ at \in 1..(Len(text) + 1)
      /\ Len(text) \in Nat /\ DOMAIN text = 1..Len(text)
  BY TextShape DEF Separator, ParseInv, ParseTypes
<1>2. Number(text, at - 1) = 2 * Len(features) - 1 /\ Len(features) \in Nat
  BY <1>1, FeaturesFit DEF ParseInv, AtPlace
<1>3. i \in at..(Len(text) + 1) /\ \A k \in at..(i - 1) : text[k].is = "blank"
  BY <1>1, NextToken
<1>4. CASE Is(i, "comma") /\ ~ Is(Skip(i + 1), "bracket") /\ at' = i + 1 /\ status' = "feature"
  <2>1. i \in at..Len(text) /\ text[i].is = "comma"
    BY <1>1, <1>3, <1>4 DEF Is
  <2>2. /\ Read(text, i + 1, features) /\ Number(text, i) = 2 * Len(features)
        /\ i \in Written(text, i) /\ Len(features) > 0
    <3> HIDE DEF i
    <3> QED BY <1>1, <1>2, <1>3, <2>1, ReadComma DEF ParseInv, ParseTypes
  <2>3. ~ Is(Skip(at), "bracket")'
    BY <1>1, <1>4 DEF Is, Skip
  <2> HIDE DEF i
  <2>4. at' - 1 = i /\ at' \in 1..(Len(text) + 1)
    BY <1>1, <1>4, <2>1
  <2>5. AtPlace'
    BY <1>1, <1>4, <2>1, <2>2, <2>3, <2>4 DEF AtPlace
  <2>6. Read(text, at, features)'
    BY <1>1, <1>4, <2>2
  <2> QED BY <1>1, <1>4, <2>4, <2>5, <2>6 DEF ParseInv, ParseTypes, ParsedIsWhole
<1>5. CASE Is(i, "bracket") /\ at' = i /\ status' = "feature"
  <2>1. i \in at..Len(text) /\ text[i].is = "bracket"
    BY <1>1, <1>3, <1>5 DEF Is
  <2>2. Written(text, i - 1) = Written(text, at - 1) /\ Number(text, i - 1) = Number(text, at - 1)
    <3>1. at - 1 \in Int /\ i - 1 \in Int /\ at - 1 <= i - 1
          /\ \A k \in (at - 1 + 1)..(i - 1) : text[k].is = "blank"
      BY <1>1, <1>3
    <3> HIDE DEF i
    <3> QED BY <1>1, <3>1, BlanksDoNotCount
  <2>3. i \in 1..(Len(text) + 1)
    BY <1>1, <2>1
  <2>4. Skip(i) = i
    <3>1. Skip(i) \in i..(Len(text) + 1) /\ \A k \in i..(Skip(i) - 1) : text[k].is = "blank"
      BY <1>1, <2>3, NextToken
    <3> HIDE DEF i
    <3> QED BY <1>1, <2>1, <3>1
  <2>5. Is(Skip(at), "bracket")'
    <3>1. Skip(at)' = Skip(i)
      BY <1>1, <1>5 DEF Skip
    <3> QED BY <1>1, <1>5, <2>4, <3>1 DEF Is
  <2> HIDE DEF i
  <2>6. Number(text, at - 1)' = 2 * Len(features) - 1 /\ Len(features) > 0
    <3>1. Number(text, at - 1) \in Nat
      BY <1>1, WrittenIsFinite
    <3> QED BY <1>1, <1>2, <1>5, <2>2, <3>1
  <2>7. AtPlace'
    BY <1>1, <1>2, <1>5, <2>5, <2>6 DEF AtPlace
  <2>8. Read(text, at, features)'
    <3>1. \A k \in DOMAIN features : \E j \in Listed(text) : j < i /\ features[k] = text[j]
      <4> SUFFICES ASSUME NEW k \in DOMAIN features
                   PROVE  \E j \in Listed(text) : j < i /\ features[k] = text[j]
        OBVIOUS
      <4>1. PICK j \in Listed(text) : j < at /\ features[k] = text[j]
        BY DEF ParseInv, Read
      <4> QED BY <1>1, <2>1, <4>1 DEF Listed
    <3> QED BY <1>1, <1>5, <2>2, <3>1 DEF ParseInv, Read
  <2> QED BY <1>1, <1>5, <2>3, <2>7, <2>8 DEF ParseInv, ParseTypes, ParsedIsWhole
<1>6. CASE /\ ~ Is(i, "bracket") /\ (Is(i, "comma") => Is(Skip(i + 1), "bracket"))
           /\ status' = "artifact_invalid" /\ at' = at
  <2>1. ~ Whole(text)
    BY <1>1, <1>6, SeparatorRefused
  <2>2. ~ Whole(text)'
    BY <1>1, <2>1
  <2> QED BY <1>1, <1>6, <2>2 DEF ParseInv, ParseTypes, AtPlace, ParsedIsWhole
<1> QED BY <1>4, <1>5, <1>6 DEF Separator

\* At the end of a list that closes, the text is whole.
LEMMA ClosedIsWhole ==
  ASSUME ParseInv, status = "feature", Is(Skip(at), "bracket"),
         Ends(Skip(at)), Names = Catalog
  PROVE  Whole(text) /\ \A j \in Listed(text) : j < at
<1> DEFINE i == Skip(at)
           n == Cardinality(Catalog)
<1>1. text \in Texts /\ at \in 1..(Len(text) + 1) /\ Len(text) \in Nat
      /\ DOMAIN text = 1..Len(text)
  BY TextShape DEF ParseInv, ParseTypes
<1>2. n \in Nat /\ n > 0 /\ Len(features) = n /\ DOMAIN features = 1..n
  BY CatalogIsCounted, FeaturesFit
<1>3. Number(text, at - 1) = 2 * n - 1
  BY <1>2 DEF ParseInv, AtPlace
<1>4. /\ i \in at..Len(text) /\ text[i].is = "bracket"
      /\ i + 1 <= Len(text) /\ text[i + 1].is = "brace"
      /\ Skip(i + 2) > Len(text)
      /\ \A k \in at..(i - 1) : text[k].is = "blank"
  BY <1>1, NextToken DEF Ends, Is
<1>5. Number(text, i) = 2 * n
  <2>1. i <= Len(text) => Number(text, i) = Number(text, at - 1) + 1
    BY <1>1, NextToken
  <2> HIDE DEF n, i
  <2> QED BY <1>1, <1>2, <1>3, <1>4, <2>1
<1>6. \A k \in (i + 2)..Len(text) : text[k].is = "blank"
  <2>1. i + 2 \in 1..(Len(text) + 1)
    BY <1>1, <1>4
  <2>2. /\ Skip(i + 2) \in (i + 2)..(Len(text) + 1)
        /\ \A k \in (i + 2)..(Skip(i + 2) - 1) : text[k].is = "blank"
    BY <1>1, <2>1, NextToken
  <2> HIDE DEF i
  <2> QED BY <1>1, <1>4, <2>1, <2>2
<1> HIDE DEF i
<1>7. Number(text, i + 1) = 2 * n + 1
  <2>1. i \in Int /\ i + 1 \in DOMAIN text /\ text[i + 1].is # "blank"
    BY <1>1, <1>4
  <2>2. Number(text, i + 1) = Number(text, i) + 1
    BY <1>1, <2>1, FollowingNumber
  <2> QED BY <1>5, <2>2
<1>8. Number(text, Len(text)) = 2 * n + 1
  <2>1. /\ i + 1 \in Int /\ Len(text) \in Int /\ i + 1 <= Len(text)
        /\ \A k \in (i + 1 + 1)..Len(text) : text[k].is = "blank"
    BY <1>1, <1>4, <1>6
  <2>2. Number(text, Len(text)) = Number(text, i + 1)
    BY <1>1, <2>1, BlanksDoNotCount
  <2> QED BY <1>7, <2>2
<1>9. ASSUME NEW j \in Written(text, Len(text))
      PROVE  j \in Written(text, at - 1) \/ j = i \/ j = i + 1
  <2>1. j \in 1..Len(text) /\ text[j].is # "blank"
    BY <1>1 DEF Written
  <2>2. j <= at - 1 => j \in Written(text, at - 1)
    BY <1>1, <2>1 DEF Written
  <2> QED BY <1>1, <1>4, <1>6, <2>1, <2>2
<1>10. ASSUME NEW j \in Listed(text) PROVE j \in Written(text, at - 1) /\ j < at
  <2>1. j \in Written(text, Len(text)) /\ text[j].is = "feature"
    BY <1>1 DEF Listed, Written
  <2>2. j \in Written(text, at - 1)
    BY <1>4, <1>9, <2>1
  <2> QED BY <1>1, <2>2 DEF Written
<1>11. ASSUME NEW j \in Written(text, Len(text))
       PROVE  \/ /\ \E m \in 1..n : Number(text, j) = 2 * m - 1
                 /\ text[j].is = "feature" /\ Sound(text[j].polygons)
              \/ /\ \E m \in 1..(n - 1) : Number(text, j) = 2 * m
                 /\ text[j].is = "comma"
              \/ /\ Number(text, j) = 2 * n
                 /\ text[j].is = "bracket" /\ j < Len(text) /\ text[j + 1].is = "brace"
              \/ Number(text, j) = 2 * n + 1 /\ text[j].is = "brace"
  <2>1. CASE j = i
    BY <1>1, <1>4, <1>5, <2>1
  <2>2. CASE j = i + 1
    BY <1>4, <1>7, <2>2
  <2>3. CASE j \in Written(text, at - 1)
    <3>1. CASE text[j].is = "feature"
      <4>1. PICK k \in 1..n : Number(text, j) = 2 * k - 1 /\ features[k] = text[j]
        BY <1>2, <2>3, <3>1 DEF ParseInv, Read
      <4>2. Sound(text[j].polygons)
        BY <1>2, <4>1 DEF ParseInv, Read
      <4> QED BY <3>1, <4>1, <4>2
    <3>2. CASE text[j].is = "comma"
      <4>1. PICK k \in 1..n : Number(text, j) = 2 * k
        BY <1>2, <2>3, <3>2 DEF ParseInv, Read
      <4>2. Number(text, j) <= Number(text, at - 1)
        <5>1. j \in Int /\ at - 1 \in Int /\ j <= at - 1
          BY <1>1, <2>3 DEF Written
        <5> QED BY <1>1, <5>1, NumbersGrow
      <4> HIDE DEF n
      <4>3. k \in 1..(n - 1)
        BY <1>2, <1>3, <4>1, <4>2
      <4> QED BY <3>2, <4>1, <4>3
    <3> QED BY <2>3, <3>1, <3>2 DEF ParseInv, Read
  <2> QED BY <1>9, <2>1, <2>2, <2>3
<1>12. {text[j].zone : j \in Listed(text)} = Catalog
  <2>1. ASSUME NEW j \in Listed(text) PROVE text[j].zone \in Names
    <3>1. j \in Written(text, at - 1) /\ text[j].is = "feature"
      BY <1>10 DEF Listed
    <3>2. PICK k \in DOMAIN features : features[k] = text[j]
      BY <3>1 DEF ParseInv, Read
    <3> QED BY <3>2 DEF Names
  <2>2. ASSUME NEW z \in Names PROVE \E j \in Listed(text) : text[j].zone = z
    <3>1. PICK k \in DOMAIN features : features[k].zone = z
      BY DEF Names
    <3> QED BY <3>1 DEF ParseInv, Read
  <2> QED BY <2>1, <2>2
<1> QED BY <1>8, <1>10, <1>11, <1>12 DEF Whole

\* What a list is wrong for that does not close.
LEMMA CloseRefused ==
  ASSUME ParseInv, status = "feature", Is(Skip(at), "bracket"),
         ~ (Ends(Skip(at)) /\ Names = Catalog)
  PROVE  ~ Whole(text)
<1> DEFINE i == Skip(at)
           n == Cardinality(Catalog)
           l == Len(features)
<1> SUFFICES ASSUME Whole(text) PROVE FALSE
  OBVIOUS
<1>1. text \in Texts /\ at \in 1..(Len(text) + 1) /\ Len(text) \in Nat
      /\ DOMAIN text = 1..Len(text)
  BY TextShape DEF ParseInv, ParseTypes
<1>2. n \in Nat /\ n > 0 /\ l \in Nat /\ l <= n /\ (l = n => Names = Catalog)
  BY CatalogIsCounted, FeaturesFit
<1>3. Number(text, Len(text)) = 2 * n + 1
  BY DEF Whole
<1>4. /\ \/ l = 0 /\ Number(text, at - 1) = 0
         \/ l > 0 /\ Number(text, at - 1) = 2 * l - 1
  BY DEF ParseInv, AtPlace
<1>5. /\ i \in at..Len(text) /\ text[i].is = "bracket"
      /\ i \in Written(text, Len(text)) /\ Number(text, i) = Number(text, at - 1) + 1
  BY <1>1, NextToken DEF Is
<1>6. Number(text, i) = 2 * n /\ i < Len(text) /\ text[i + 1].is = "brace"
  BY <1>1, <1>5, WholeTokens
<1>7. l = n
  <2> HIDE DEF l, n, i
  <2> QED BY <1>2, <1>4, <1>5, <1>6
<1>8. Skip(i + 2) <= Len(text)
  <2>1. i + 2 \in 1..(Len(text) + 1) /\ i + 1 <= Len(text)
    BY <1>1, <1>5, <1>6
  <2>2. Skip(i + 2) \in (i + 2)..(Len(text) + 1)
    BY <1>1, <2>1, NextToken
  <2>3. ~ (Skip(i + 2) > Len(text))
    BY <1>2, <1>5, <1>6, <1>7, <2>1 DEF Ends, Is
  <2> HIDE DEF i
  <2> QED BY <1>1, <2>2, <2>3
<1>9. Number(text, Skip(i + 2)) = Number(text, i + 1) + 1
      /\ Skip(i + 2) \in Written(text, Len(text))
  <2>1. i + 2 \in 1..(Len(text) + 1) /\ i + 2 - 1 = i + 1
    BY <1>1, <1>5, <1>6
  <2> QED BY <1>1, <1>8, <2>1, NextToken
<1>10. Number(text, i + 1) = Number(text, i) + 1
  <2>1. i \in Int /\ i + 1 \in DOMAIN text /\ text[i + 1].is # "blank"
    BY <1>1, <1>5, <1>6
  <2> HIDE DEF i
  <2> QED BY <1>1, <2>1, FollowingNumber
<1>11. Number(text, Skip(i + 2)) <= Number(text, Len(text))
  <2>1. Skip(i + 2) \in Int /\ Len(text) \in Int
    BY <1>1, <1>9 DEF Written
  <2> QED BY <1>1, <1>8, <2>1, NumbersGrow
<1> HIDE DEF n
<1> QED BY <1>2, <1>3, <1>6, <1>9, <1>10, <1>11

LEMMA CloseParseInv == ASSUME ParseInv, Close PROVE ParseInv'
<1>1. /\ status = "feature" /\ Is(Skip(at), "bracket")
      /\ UNCHANGED <<text, faults, at, features>> /\ faults = {}
      /\ status' = IF Ends(Skip(at)) /\ Names = Catalog THEN "ready" ELSE "artifact_invalid"
  BY DEF Close, ParseInv
<1>2. CASE Ends(Skip(at)) /\ Names = Catalog
  <2>1. Whole(text) /\ \A j \in Listed(text) : j < at
    BY <1>1, <1>2, ClosedIsWhole
  <2>2. Len(features) = Cardinality(Catalog)
    BY <1>2, FeaturesFit
  <2>3. ASSUME NEW i \in Listed(text)
        PROVE  features[(Number(text, i) + 1) \div 2] = text[i]
    <3>1. text \in Texts /\ at \in Int /\ DOMAIN text \subseteq Int
      BY TextShape DEF ParseInv, ParseTypes
    <3>2. i \in Written(text, at - 1) /\ text[i].is = "feature"
      BY <2>1, <3>1 DEF Listed, Written
    <3>3. PICK k \in DOMAIN features : Number(text, i) = 2 * k - 1 /\ features[k] = text[i]
      BY <3>2 DEF ParseInv, Read
    <3>4. k \in Int
      BY FeaturesFit
    <3>5. (Number(text, i) + 1) \div 2 = k
      BY <3>3, <3>4
    <3> QED BY <3>3, <3>5
  <2>4. ParsedIsWhole'
    BY <1>1, <1>2, <2>1, <2>2, <2>3 DEF ParsedIsWhole
  <2> QED BY <1>1, <1>2, <2>1, <2>4 DEF ParseInv, ParseTypes, AtPlace
<1>3. CASE ~ (Ends(Skip(at)) /\ Names = Catalog)
  <2>1. ~ Whole(text)
    BY <1>1, <1>3, CloseRefused
  <2>2. ~ Whole(text)'
    BY <1>1, <2>1
  <2> QED BY <1>1, <1>3, <2>2 DEF ParseInv, ParseTypes, AtPlace, ParsedIsWhole
<1> QED BY <1>2, <1>3

\* Nothing else changes what is loaded.
LEMMA ParseStep == ParseInv /\ [Next]_vars => ParseInv'
<1> SUFFICES ASSUME ParseInv, [Next]_vars PROVE ParseInv'
  OBVIOUS
<1>1. CASE BuildFails
  BY <1>1 DEF BuildFails, ParseInv, ParseTypes, AtPlace, ParsedIsWhole
<1>2. CASE UNCHANGED <<text, faults, at, features, status>>
  <2>1. AtPlace'
    <3>1. Is(Skip(at), "bracket")' = Is(Skip(at), "bracket")
      BY <1>2 DEF Is, Skip
    <3> QED BY <1>2, <3>1 DEF ParseInv, AtPlace
  <2> QED BY <1>2, <2>1 DEF ParseInv, ParseTypes, ParsedIsWhole
<1>3. Ask \/ Examine \/ Decide \/ LookupFails \/ UNCHANGED vars
        => UNCHANGED <<text, faults, at, features, status>>
  BY DEF Ask, Examine, Decide, LookupFails, vars
<1> QED BY <1>1, <1>2, <1>3, LoadParseInv, CloseParseInv, FeatureParseInv, SeparatorParseInv
        DEF Next

LEMMA ParseInvariant == Spec => []ParseInv
BY InitParseInv, ParseStep, PTL DEF Spec

\* For any texts: tbb.py becomes ready on whole texts only, and refuses no whole text
\* of sound features of the catalog's zones, however the blanks and marks are placed.
THEOREM OnlyWholeTextsLoad == Spec => []ParsedIsWhole
<1>1. ParseInv => ParsedIsWhole
  BY DEF ParseInv
<1> QED BY <1>1, ParseInvariant, PTL
-----------------------------------------------------------------------------
\* What is known of a point once all features but those left have been examined.
ScanSound ==
  scan # None =>
    LET p == scan.point
        seen == {i \in DOMAIN features \ scan.left : Covers(features[i].polygons, p)}
    IN  /\ status = "ready"
        /\ scan \in [point : Points, left : SUBSET DOMAIN features,
                     ids : SUBSET Catalog, boundary : BOOLEAN]
        /\ Abs(p[1]) < Seam /\ Abs(p[2]) < Pole
        /\ scan.ids = {features[i].zone : i \in seen}
        /\ scan.boundary <=> \E i \in seen : ~ Contains(features[i].polygons, p)

LookupInv == ParseInv /\ ScanSound /\ OutcomeIsExact

\* A ready resolver has the features of its text, and each is sound.
LEMMA ReadyHasAll ==
  ASSUME ParseInv, status = "ready"
  PROVE  /\ {text[i] : i \in Listed(text)} = {features[k] : k \in DOMAIN features}
         /\ \A k \in DOMAIN features : /\ features[k].zone \in Catalog
                                       /\ FinelyDrawn(features[k].polygons)
<1>1. text \in Texts /\ at \in Int /\ DOMAIN text \subseteq Int
  BY TextShape DEF ParseInv, ParseTypes
<1>2. ASSUME NEW i \in Listed(text) PROVE \E k \in DOMAIN features : features[k] = text[i]
  <2>1. i \in Written(text, at - 1) /\ text[i].is = "feature"
    BY <1>1 DEF ParseInv, Listed, Written
  <2> QED BY <2>1 DEF ParseInv, Read
<1>3. ASSUME NEW k \in DOMAIN features
      PROVE  /\ \E i \in Listed(text) : features[k] = text[i]
             /\ features[k].zone \in Catalog /\ Sound(features[k].polygons)
  BY DEF ParseInv, Read
<1>4. ASSUME NEW k \in DOMAIN features PROVE FinelyDrawn(features[k].polygons)
  <2>1. features[k] \in UNION {{t[i] : i \in Listed(t)} : t \in Texts}
    BY <1>1, <1>3
  <2> QED BY <1>3, <2>1, BoundaryAssumption
<1> QED BY <1>2, <1>3, <1>4

\* The tree leaves out no feature that covers the point.
LEMMA HitsCover ==
  ASSUME NEW p, NEW i \in DOMAIN features, Covers(features[i].polygons, p)
  PROVE  i \in Hits(p)
BY DEF Covers, Hits

LEMMA AskLookup == ASSUME LookupInv, Ask PROVE ScanSound' /\ OutcomeIsExact'
<1>1. status = "ready" /\ UNCHANGED <<text, faults, at, features, status>>
  BY DEF Ask
<1>2. PICK p \in Points :
        IF Abs(p[1]) > Seam \/ Abs(p[2]) > Pole
        THEN /\ result' = [point |-> p, outcome |-> Outcome("invalid_input", None, {})]
             /\ scan' = None
        ELSE IF Abs(p[1]) = Seam \/ Abs(p[2]) = Pole
        THEN /\ result' = [point |-> p,
                           outcome |-> Outcome("boundary", "coordinate_seam_or_pole", {})]
             /\ scan' = None
        ELSE /\ scan' = [point |-> p, left |-> Hits(p), ids |-> {}, boundary |-> FALSE]
             /\ result' = None
  BY DEF Ask
<1>3. /\ p[1] \in Int /\ p[2] \in Int /\ Seam \in Int /\ Pole \in Int
      /\ Abs(p[1]) \in Int /\ Abs(p[2]) \in Int
  BY BoundaryAssumption DEF Abs
<1>4. CASE Abs(p[1]) > Seam \/ Abs(p[2]) > Pole
  BY <1>2, <1>4 DEF ScanSound, OutcomeIsExact, Outcome
<1>5. CASE ~ (Abs(p[1]) > Seam \/ Abs(p[2]) > Pole) /\ (Abs(p[1]) = Seam \/ Abs(p[2]) = Pole)
  <2>1. /\ result'.point = p /\ scan' = None
        /\ result'.outcome = Outcome("boundary", "coordinate_seam_or_pole", {})
    BY <1>2, <1>5
  <2>2. /\ ~ (Abs(result'.point[1]) > Seam \/ Abs(result'.point[2]) > Pole)
        /\ Seam = Abs(result'.point[1]) \/ Pole = Abs(result'.point[2])
    BY <1>5, <2>1
  <2>3. OutcomeIsExact'
    BY <2>1, <2>2 DEF OutcomeIsExact
  <2> QED BY <2>1, <2>3 DEF ScanSound
<1>6. CASE ~ (Abs(p[1]) > Seam \/ Abs(p[2]) > Pole) /\ ~ (Abs(p[1]) = Seam \/ Abs(p[2]) = Pole)
  <2>1. scan' = [point |-> p, left |-> Hits(p), ids |-> {}, boundary |-> FALSE] /\ result' = None
    BY <1>2, <1>6
  <2>2. Abs(p[1]) < Seam /\ Abs(p[2]) < Pole
    BY <1>3, <1>6
  <2>3. {i \in DOMAIN features \ Hits(p) : Covers(features[i].polygons, p)} = {}
    BY HitsCover
  <2>4. Hits(p) \subseteq DOMAIN features
    BY DEF Hits
  <2>5. ScanSound'
    BY <1>1, <2>1, <2>2, <2>3, <2>4 DEF ScanSound
  <2> QED BY <2>1, <2>5 DEF OutcomeIsExact
<1> QED BY <1>4, <1>5, <1>6

LEMMA ExamineLookup == ASSUME LookupInv, Examine PROVE ScanSound' /\ OutcomeIsExact'
<1>1. scan # None /\ UNCHANGED <<text, faults, at, features, status, result>>
  BY DEF Examine
<1> DEFINE p == scan.point
           seen == {i \in DOMAIN features \ scan.left : Covers(features[i].polygons, p)}
<1>2. PICK k \in scan.left :
        scan' = [scan EXCEPT
          !.left = @ \ {k},
          !.ids = IF Covers(features[k].polygons, p) THEN @ \cup {features[k].zone} ELSE @,
          !.boundary = @ \/ (Covers(features[k].polygons, p)
                             /\ ~ Contains(features[k].polygons, p))]
  BY DEF Examine
<1>3. /\ status = "ready" /\ k \in DOMAIN features
      /\ scan \in [point : Points, left : SUBSET DOMAIN features,
                   ids : SUBSET Catalog, boundary : BOOLEAN]
      /\ Abs(p[1]) < Seam /\ Abs(p[2]) < Pole
      /\ scan.ids = {features[i].zone : i \in seen}
      /\ scan.boundary <=> \E i \in seen : ~ Contains(features[i].polygons, p)
  BY <1>1 DEF LookupInv, ScanSound
<1>4. features[k].zone \in Catalog
  BY <1>3, ReadyHasAll DEF LookupInv
<1> DEFINE now == {i \in DOMAIN features \ (scan.left \ {k}) : Covers(features[i].polygons, p)}
<1>5. now = IF Covers(features[k].polygons, p) THEN seen \cup {k} ELSE seen
  BY <1>3
<1>6. /\ scan'.point = p /\ scan'.left = scan.left \ {k}
      /\ scan'.ids = IF Covers(features[k].polygons, p)
                     THEN scan.ids \cup {features[k].zone} ELSE scan.ids
      /\ scan'.boundary <=> scan.boundary \/ (Covers(features[k].polygons, p)
                                              /\ ~ Contains(features[k].polygons, p))
  BY <1>2, <1>3
<1>7. scan' \in [point : Points, left : SUBSET DOMAIN features,
                ids : SUBSET Catalog, boundary : BOOLEAN]
  BY <1>2, <1>3, <1>4
<1>8. scan'.ids = {features[i].zone : i \in now}
  <2> HIDE DEF seen, now, p
  <2> QED BY <1>3, <1>5, <1>6
<1>9. scan'.boundary <=> \E i \in now : ~ Contains(features[i].polygons, p)
  <2> HIDE DEF seen, now, p
  <2> QED BY <1>3, <1>5, <1>6
<1>10. ScanSound'
  BY <1>1, <1>3, <1>6, <1>7, <1>8, <1>9 DEF ScanSound
<1>11. OutcomeIsExact'
  BY <1>1 DEF LookupInv, OutcomeIsExact
<1> QED BY <1>10, <1>11

\* What Decide says follows from all the features, in whatever order they were examined.
LEMMA DecideLookup == ASSUME LookupInv, Decide PROVE ScanSound' /\ OutcomeIsExact'
<1> DEFINE p == scan.point
           seen == {i \in DOMAIN features : Covers(features[i].polygons, p)}
           all == {text[i] : i \in Listed(text)}
           reaching == {f \in all : Covers(f.polygons, p)}
           around == {f \in reaching : \A q \in Near(p) : Covers(f.polygons, q)}
           names == {f.zone : f \in reaching}
           ids == scan.ids
<1>1. scan # None /\ scan.left = {} /\ UNCHANGED <<text, faults, at, features, status>>
      /\ scan' = None
  BY DEF Decide
<1>2. /\ status = "ready" /\ p \in Points /\ ids \subseteq Catalog /\ scan.boundary \in BOOLEAN
      /\ Abs(p[1]) < Seam /\ Abs(p[2]) < Pole
      /\ ids = {features[i].zone : i \in seen}
      /\ scan.boundary <=> \E i \in seen : ~ Contains(features[i].polygons, p)
  BY <1>1 DEF LookupInv, ScanSound
<1>3. /\ all = {features[k] : k \in DOMAIN features}
      /\ \A k \in DOMAIN features : FinelyDrawn(features[k].polygons)
  BY <1>2, ReadyHasAll DEF LookupInv
<1>4. reaching = {features[k] : k \in seen}
  BY <1>3
<1>5. ids = names
  BY <1>2, <1>4
<1>6. scan.boundary <=> around # reaching
  <2>1. \A k \in seen : Contains(features[k].polygons, p)
                          <=> \A q \in Near(p) : Covers(features[k].polygons, q)
    BY <1>2, <1>3 DEF FinelyDrawn
  <2>2. around # reaching <=> \E f \in reaching : ~ \A q \in Near(p) : Covers(f.polygons, q)
    OBVIOUS
  <2> HIDE DEF seen, reaching, around, p
  <2> QED BY <1>2, <1>4, <2>1, <2>2
<1>7. /\ ~ (Abs(p[1]) > Seam \/ Abs(p[2]) > Pole)
      /\ ~ (Seam = Abs(p[1]) \/ Pole = Abs(p[2]))
  <2>1. /\ p[1] \in Int /\ p[2] \in Int /\ Seam \in Int /\ Pole \in Int
    BY <1>2, BoundaryAssumption
  <2>2. Abs(p[1]) \in Int /\ Abs(p[2]) \in Int
    BY <2>1 DEF Abs
  <2> HIDE DEF p
  <2> QED BY <1>2, <2>1, <2>2
<1>8. /\ Cardinality(ids) \in Nat
      /\ Cardinality(ids) = 0 <=> ids = {}
      /\ reaching = {} <=> names = {}
  <2>1. IsFiniteSet(ids)
    BY <1>2, BoundaryAssumption, FS_Subset
  <2> QED BY <2>1, FS_CardinalityType, FS_EmptySet
<1> DEFINE outcome ==
             CASE scan.boundary -> Outcome("boundary", "polygon_boundary", ids)
               [] ~ scan.boundary /\ Cardinality(ids) > 1 ->
                    Outcome("ambiguous", "multiple_zone_interiors", ids)
               [] ~ scan.boundary /\ Cardinality(ids) = 1 -> Outcome("resolved", None, ids)
               [] OTHER -> Outcome("no_match", "outside_dataset", {})
<1>9. result'.point = p /\ result'.outcome = outcome
  <2>1. scan.boundary => ids # {}
    BY <1>2
  <2>2. result' = [point |-> p, outcome |-> IF Coherent(outcome) THEN outcome
                                            ELSE Outcome("validation_error", None, {})]
    BY DEF Decide
  <2> HIDE DEF ids, p
  <2>3. Coherent(Outcome("boundary", "polygon_boundary", ids)) <=> ids # {}
    BY DEF Coherent, Outcome
  <2>4. Coherent(Outcome("ambiguous", "multiple_zone_interiors", ids)) <=> Cardinality(ids) >= 2
    BY DEF Coherent, Outcome
  <2>5. Coherent(Outcome("resolved", None, ids)) <=> Cardinality(ids) = 1
    BY DEF Coherent, Outcome
  <2>6. Coherent(Outcome("no_match", "outside_dataset", {}))
    BY DEF Coherent, Outcome
  <2>7. Cardinality(ids) > 1 => Cardinality(ids) >= 2
    BY <1>8
  <2>8. Coherent(outcome)
    BY <2>1, <2>3, <2>4, <2>5, <2>6, <2>7
  <2> HIDE DEF outcome
  <2> QED BY <2>2, <2>8
<1> HIDE DEF p, all, reaching, around, names, ids
<1>10. /\ result'.outcome.ids = names
       /\ (result'.outcome.status = "boundary") <=> (around # reaching)
       /\ (result'.outcome.status = "resolved") <=> (around = reaching /\ Cardinality(names) = 1)
       /\ (result'.outcome.status = "ambiguous") <=> (around = reaching /\ Cardinality(names) > 1)
       /\ (result'.outcome.status = "no_match") <=> (reaching = {})
  <2>1. reaching = {} => around = reaching
    BY DEF around
  <2>2. CASE scan.boundary
    BY <1>5, <1>6, <1>9, <2>1, <2>2 DEF Outcome
  <2>3. CASE ~ scan.boundary /\ Cardinality(ids) > 1
    BY <1>5, <1>6, <1>8, <1>9, <2>1, <2>3 DEF Outcome
  <2>4. CASE ~ scan.boundary /\ Cardinality(ids) = 1
    BY <1>5, <1>6, <1>8, <1>9, <2>1, <2>4 DEF Outcome
  <2>5. CASE ~ scan.boundary /\ Cardinality(ids) = 0
    BY <1>5, <1>6, <1>8, <1>9, <2>1, <2>5 DEF Outcome
  <2> QED BY <1>2, <1>8, <2>2, <2>3, <2>4, <2>5
<1>11. OutcomeIsExact'
  BY <1>1, <1>7, <1>9, <1>10 DEF OutcomeIsExact, p, all, reaching, around, names
<1> QED BY <1>1, <1>11 DEF ScanSound

LEMMA LookupInvariant == Spec => []LookupInv
<1>1. Init => LookupInv
  BY InitParseInv DEF Init, LookupInv, ScanSound, OutcomeIsExact
<1>2. LookupInv /\ [Next]_vars => LookupInv'
  <2> SUFFICES ASSUME LookupInv, [Next]_vars PROVE ScanSound' /\ OutcomeIsExact'
    BY ParseStep DEF LookupInv
  <2>1. CASE LookupFails
    BY <2>1 DEF LookupFails, ScanSound, OutcomeIsExact, Outcome
  <2>2. CASE Load \/ Close \/ Feature \/ Separator \/ BuildFails
    <3>1. scan = None /\ UNCHANGED <<text, scan, result>>
      BY <2>2 DEF Load, Close, Feature, Separator, BuildFails, LookupInv, ScanSound
    <3> QED BY <3>1 DEF LookupInv, ScanSound, OutcomeIsExact
  <2>3. CASE UNCHANGED vars
    BY <2>3 DEF vars, LookupInv, ScanSound, OutcomeIsExact
  <2> QED BY <2>1, <2>2, <2>3, AskLookup, ExamineLookup, DecideLookup DEF Next
<1> QED BY <1>1, <1>2, PTL DEF Spec

\* For any points and polygons, and any order in which the tree returns candidates: what
\* tbb.py says of a point is what the polygons of the text say.
THEOREM LookupsAreExact == Spec => []OutcomeIsExact
<1>1. LookupInv => OutcomeIsExact
  BY DEF LookupInv
<1> QED BY <1>1, LookupInvariant, PTL
=============================================================================
