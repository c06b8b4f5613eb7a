--------------------------- MODULE PrepareProofs ---------------------------
(***************************************************************************)
(* Theorems about SourceCache for any digests and any number of calls, by  *)
(* an inductive invariant, CacheInv, that has a part for each kind of      *)
(* call; and about Prepare for any number of preparers and whatever the    *)
(* calls of SourceCache do meanwhile.                                      *)
(***************************************************************************)
EXTENDS Prepare, TLAPS

\* What a call of acquire may rely on at each stage.
AcquirersSound ==
  \A a \in Acquirers :
    /\ pc[a] \in Downloading => part[DigestOf[a]] = a
    /\ pc[a] = "publishing" => fetched[a] = "right"
    /\ pc[a] \in {"cleaning", "ok"} =>
         \/ file[DigestOf[a]] = "right"
         \/ file[DigestOf[a]] = "torn" /\ RecordersOf(DigestOf[a]) # {}

\* A torn file is the business of the recorder that truncated it last.
RecordersSound ==
  /\ \A d \in Digests : file[d] = "torn" =>
       /\ writer[d] \in RecordersOf(d)
       /\ pc[writer[d]] \in {"writing", "failed", "dead"}
  /\ \A r \in Recorders :
       /\ pc[r] \in {"writing", "ok"} => file[DigestOf[r]] # "absent"
       /\ pc[r] = "writing" /\ writer[DigestOf[r]] = r => file[DigestOf[r]] = "torn"

PackersSound ==
  \A p \in Packers :
    /\ pc[p] = "idle" => packed[p] = {}
    /\ pc[p] \in {"packing", "ok"} => packed[p] \subseteq Digests \X {"right"}
    /\ pc[p] = "ok" => Digests \subseteq Archived(p)

OnlySpoiltIsWrong == \A d \in Digests : file[d] = "wrong" => d \in spoilt

CacheInv == /\ TypeOK
            /\ OnlySpoiltIsWrong
            /\ AcquirersSound
            /\ RecordersSound
            /\ PackersSound

LEMMA InitCacheInv == Init => CacheInv
  BY CacheAssumption
  DEF Init, CacheInv, TypeOK, OnlySpoiltIsWrong, AcquirersSound, RecordersSound,
      PackersSound, Contents, Places, Users, Downloading, Ended

\* What leaves the variables of a part alone keeps the part.
LEMMA AcquirersFrame ==
  ASSUME AcquirersSound, UNCHANGED <<file, part, fetched>>,
         \A a \in Acquirers : pc'[a] = pc[a]
  PROVE  AcquirersSound'
  BY DEF AcquirersSound, RecordersOf

LEMMA RecordersFrame ==
  ASSUME RecordersSound, UNCHANGED <<file, writer>>,
         \A r \in Recorders : pc'[r] = pc[r]
  PROVE  RecordersSound'
  BY DEF RecordersSound, RecordersOf

LEMMA PackersFrame ==
  ASSUME PackersSound, UNCHANGED packed,
         \A p \in Packers : pc'[p] = pc[p]
  PROVE  PackersSound'
  BY DEF PackersSound, Archived

\* A call that goes to a place is there, and no other call has moved.
LEMMA GotoPlace ==
  ASSUME pc \in [Users -> Places], NEW u \in Users, NEW place \in Places, Goto(u, place)
  PROVE  /\ pc' \in [Users -> Places]
         /\ pc'[u] = place
         /\ \A v \in Users \ {u} : pc'[v] = pc[v]
  BY DEF Goto

(* Each kind of call keeps the invariant, part by part.                            *)
LEMMA AcquireCacheInv ==
  ASSUME CacheInv, NEW a \in Acquirers, Acquire(a)
  PROVE  CacheInv'
<1> USE CacheAssumption DEF Users
<1>0. TypeOK /\ OnlySpoiltIsWrong /\ AcquirersSound /\ RecordersSound /\ PackersSound
  BY DEF CacheInv
<1>1. CASE Look(a)
  <2>1. TypeOK'
    BY <1>0, <1>1 DEF Look, Goto, TypeOK, Places, Downloading, Ended, Contents
  <2>2. OnlySpoiltIsWrong'
    BY <1>0, <1>1 DEF Look, TypeOK, OnlySpoiltIsWrong, AcquirersSound
  <2>3. AcquirersSound'
    BY <1>0, <1>1 DEF Look, Goto, TypeOK, AcquirersSound, RecordersOf, Downloading
  <2>4. RecordersSound'
    BY <1>0, <1>1, RecordersFrame DEF Look, Goto, TypeOK
  <2>5. PackersSound'
    BY <1>0, <1>1, PackersFrame DEF Look, Goto, TypeOK
  <2> QED BY <2>1, <2>2, <2>3, <2>4, <2>5 DEF CacheInv
<1>2. CASE Verify(a)
  <2>1. TypeOK'
    BY <1>0, <1>2 DEF Verify, Goto, TypeOK, Places, Downloading, Ended, Contents
  <2>2. OnlySpoiltIsWrong'
    BY <1>0, <1>2 DEF Verify, TypeOK, OnlySpoiltIsWrong, AcquirersSound
  <2>3. AcquirersSound'
    BY <1>0, <1>2 DEF Verify, Goto, TypeOK, AcquirersSound, RecordersOf, Downloading
  <2>4. RecordersSound'
    BY <1>0, <1>2, RecordersFrame DEF Verify, Goto, TypeOK
  <2>5. PackersSound'
    BY <1>0, <1>2, PackersFrame DEF Verify, Goto, TypeOK
  <2> QED BY <2>1, <2>2, <2>3, <2>4, <2>5 DEF CacheInv
<1>3. CASE Open(a)
  <2>1. CASE part[DigestOf[a]] = Nobody
    <3>1. Goto(a, "downloading") /\ part' = [part EXCEPT ![DigestOf[a]] = a]
      BY <1>3, <2>1 DEF Open
    <3>2. UNCHANGED <<file, spoilt, writer, fetched, verified, packed>>
      BY <1>3 DEF Open
    <3>3. /\ pc' \in [Users -> Places]
          /\ pc'[a] = "downloading"
          /\ \A v \in Users \ {a} : pc'[v] = pc[v]
      BY <1>0, <3>1, GotoPlace DEF TypeOK, Places, Downloading
    <3>4. TypeOK'
      BY <1>0, <3>1, <3>2, <3>3 DEF TypeOK
    <3>5. \A b \in Acquirers : pc[b] \in Downloading => DigestOf[b] # DigestOf[a]
      BY <1>0, <2>1 DEF AcquirersSound
    <3>6. AcquirersSound'
      BY <1>0, <3>1, <3>2, <3>3, <3>5 DEF TypeOK, AcquirersSound, RecordersOf, Downloading
    <3> QED BY <1>0, <3>2, <3>3, <3>4, <3>6, RecordersFrame, PackersFrame
            DEF CacheInv, OnlySpoiltIsWrong
  <2>2. CASE part[DigestOf[a]] # Nobody
    <3>1. Goto(a, "refused") /\ UNCHANGED <<file, spoilt, writer, part, fetched, verified, packed>>
      BY <1>3, <2>2 DEF Open
    <3>2. /\ pc' \in [Users -> Places]
          /\ pc'[a] = "refused"
          /\ \A v \in Users \ {a} : pc'[v] = pc[v]
      BY <1>0, <3>1, GotoPlace DEF TypeOK, Places, Ended
    <3>3. TypeOK'
      BY <1>0, <3>1, <3>2 DEF TypeOK
    <3>4. AcquirersSound'
      BY <1>0, <3>1, <3>2 DEF AcquirersSound, RecordersOf, Downloading
    <3> QED BY <1>0, <3>1, <3>2, <3>3, <3>4, RecordersFrame, PackersFrame
            DEF CacheInv, OnlySpoiltIsWrong
  <2> QED BY <2>1, <2>2
<1>4. CASE Download(a)
  <2>1. PICK bytes \in {"right", "wrong"} :
          /\ fetched' = [fetched EXCEPT ![a] = bytes]
          /\ Goto(a, IF bytes = "right" THEN "publishing" ELSE "giving up")
    BY <1>4 DEF Download
  <2>2. pc[a] = "downloading" /\ UNCHANGED <<file, spoilt, writer, part, verified, packed>>
    BY <1>4 DEF Download
  <2>3. /\ pc' \in [Users -> Places]
        /\ pc'[a] = IF bytes = "right" THEN "publishing" ELSE "giving up"
        /\ \A v \in Users \ {a} : pc'[v] = pc[v]
    BY <1>0, <2>1, GotoPlace DEF TypeOK, Places, Downloading
  <2>4. TypeOK'
    BY <1>0, <2>1, <2>2, <2>3 DEF TypeOK
  <2>5. fetched'[a] = bytes /\ \A b \in Acquirers \ {a} : fetched'[b] = fetched[b]
    BY <1>0, <2>1 DEF TypeOK
  <2>6. AcquirersSound'
    BY <1>0, <2>2, <2>3, <2>5 DEF AcquirersSound, RecordersOf, Downloading
  <2> QED BY <1>0, <2>2, <2>3, <2>4, <2>6, RecordersFrame, PackersFrame
          DEF CacheInv, OnlySpoiltIsWrong
<1>5. CASE Publish(a)
  <2>1. pc[a] = "publishing" /\ UNCHANGED <<spoilt, part, fetched, verified, packed>>
    BY <1>5 DEF Publish
  <2>2. fetched[a] = "right" /\ part[DigestOf[a]] = a
    BY <1>0, <2>1 DEF AcquirersSound, Downloading
  <2>3. CASE /\ file[DigestOf[a]] = "absent"
             /\ file' = [file EXCEPT ![DigestOf[a]] = fetched[a]]
             /\ writer' = [writer EXCEPT ![DigestOf[a]] = a]
             /\ Goto(a, "cleaning")
    <3>1. /\ file' = [file EXCEPT ![DigestOf[a]] = fetched[a]]
          /\ writer' = [writer EXCEPT ![DigestOf[a]] = a]
          /\ Goto(a, "cleaning")
      BY <2>3
    <3>2. /\ pc' \in [Users -> Places]
          /\ pc'[a] = "cleaning"
          /\ \A v \in Users \ {a} : pc'[v] = pc[v]
      BY <1>0, <3>1, GotoPlace DEF TypeOK, Places, Downloading
    <3>3. TypeOK'
      BY <1>0, <2>1, <2>2, <3>1, <3>2 DEF TypeOK, Contents
    <3>4. /\ file'[DigestOf[a]] = "right"
          /\ \A d \in Digests \ {DigestOf[a]} : file'[d] = file[d] /\ writer'[d] = writer[d]
      BY <1>0, <2>2, <3>1 DEF TypeOK
    <3>5. OnlySpoiltIsWrong'
      BY <1>0, <2>1, <3>4 DEF OnlySpoiltIsWrong
    <3>6. AcquirersSound'
      BY <1>0, <2>1, <2>2, <2>3, <3>2, <3>4 DEF AcquirersSound, RecordersOf, Downloading
    <3>7. RecordersSound'
      BY <1>0, <2>3, <3>2, <3>4 DEF RecordersSound, RecordersOf
    <3> QED BY <1>0, <2>1, <3>2, <3>3, <3>5, <3>6, <3>7, PackersFrame DEF CacheInv
  <2>4. ASSUME NEW place \in {"cleaning", "giving up"},
               place = "cleaning" => file[DigestOf[a]] = "right",
               Goto(a, place), UNCHANGED <<file, writer>>
        PROVE  CacheInv'
    <3>1. Goto(a, place) /\ UNCHANGED <<file, writer>>
      BY <2>4
    <3>2. /\ pc' \in [Users -> Places]
          /\ pc'[a] = place
          /\ \A v \in Users \ {a} : pc'[v] = pc[v]
      BY <1>0, <3>1, GotoPlace DEF TypeOK, Places, Downloading
    <3>3. TypeOK'
      BY <1>0, <2>1, <3>1, <3>2 DEF TypeOK
    <3>4. AcquirersSound'
      <4>1. pc'[a] # "publishing" /\ pc'[a] # "ok"
            /\ (pc'[a] = "cleaning" => file[DigestOf[a]] = "right")
        BY <2>4, <3>2
      <4>2. \A b \in Acquirers \ {a} : pc'[b] = pc[b]
        BY <3>2
      <4> QED BY <1>0, <2>1, <2>2, <3>1, <4>1, <4>2
              DEF AcquirersSound, RecordersOf, Downloading
    <3> QED BY <1>0, <2>1, <3>1, <3>2, <3>3, <3>4, RecordersFrame, PackersFrame
            DEF CacheInv, OnlySpoiltIsWrong
  <2>5. \/ /\ file[DigestOf[a]] = "absent"
           /\ file' = [file EXCEPT ![DigestOf[a]] = fetched[a]]
           /\ writer' = [writer EXCEPT ![DigestOf[a]] = a]
           /\ Goto(a, "cleaning")
        \/ /\ \E place \in {"cleaning", "giving up"} :
                 (place = "cleaning" => file[DigestOf[a]] = "right") /\ Goto(a, place)
           /\ UNCHANGED <<file, writer>>
    BY <1>5 DEF Publish
  <2> QED BY <2>3, <2>4, <2>5
<1>6. CASE Unlink(a)
  <2>1. TypeOK'
    BY <1>0, <1>6 DEF Unlink, Goto, TypeOK, Places, Downloading, Ended, Contents
  <2>2. OnlySpoiltIsWrong'
    BY <1>0, <1>6 DEF Unlink, TypeOK, OnlySpoiltIsWrong, AcquirersSound
  <2>3. AcquirersSound'
    BY <1>0, <1>6 DEF Unlink, Goto, TypeOK, AcquirersSound, RecordersOf, Downloading
  <2>4. RecordersSound'
    BY <1>0, <1>6, RecordersFrame DEF Unlink, Goto, TypeOK
  <2>5. PackersSound'
    BY <1>0, <1>6, PackersFrame DEF Unlink, Goto, TypeOK
  <2> QED BY <2>1, <2>2, <2>3, <2>4, <2>5 DEF CacheInv
<1> QED BY <1>1, <1>2, <1>3, <1>4, <1>5, <1>6 DEF Acquire

LEMMA RecordCacheInv ==
  ASSUME CacheInv, NEW r \in Recorders, Record(r)
  PROVE  CacheInv'
<1> USE CacheAssumption DEF Users
<1>0. TypeOK /\ OnlySpoiltIsWrong /\ AcquirersSound /\ RecordersSound /\ PackersSound
  BY DEF CacheInv
<1>1. CASE LookRecorded(r)
  <2>1. TypeOK'
    BY <1>0, <1>1 DEF LookRecorded, Goto, TypeOK, Places, Downloading, Ended, Contents
  <2>2. OnlySpoiltIsWrong'
    BY <1>0, <1>1 DEF LookRecorded, TypeOK, OnlySpoiltIsWrong, AcquirersSound
  <2>3. AcquirersSound'
    BY <1>0, <1>1, AcquirersFrame DEF LookRecorded, Goto, TypeOK
  <2>4. RecordersSound'
    BY <1>0, <1>1 DEF LookRecorded, Goto, TypeOK, RecordersSound, RecordersOf
  <2>5. PackersSound'
    BY <1>0, <1>1, PackersFrame DEF LookRecorded, Goto, TypeOK
  <2> QED BY <2>1, <2>2, <2>3, <2>4, <2>5 DEF CacheInv
<1>2. CASE Truncate(r)
  <2>1. TypeOK'
    BY <1>0, <1>2 DEF Truncate, Goto, TypeOK, Places, Downloading, Ended, Contents
  <2>2. OnlySpoiltIsWrong'
    BY <1>0, <1>2 DEF Truncate, TypeOK, OnlySpoiltIsWrong, AcquirersSound
  <2>3. AcquirersSound'
    BY <1>0, <1>2 DEF Truncate, Goto, TypeOK, AcquirersSound, RecordersOf
  <2>4. RecordersSound'
    BY <1>0, <1>2 DEF Truncate, Goto, TypeOK, RecordersSound, RecordersOf
  <2>5. PackersSound'
    BY <1>0, <1>2, PackersFrame DEF Truncate, Goto, TypeOK
  <2> QED BY <2>1, <2>2, <2>3, <2>4, <2>5 DEF CacheInv
<1>3. CASE Write(r)
  <2>1. TypeOK'
    BY <1>0, <1>3 DEF Write, Goto, TypeOK, Places, Downloading, Ended, Contents
  <2>2. OnlySpoiltIsWrong'
    BY <1>0, <1>3 DEF Write, TypeOK, OnlySpoiltIsWrong, AcquirersSound
  <2>3. AcquirersSound'
    BY <1>0, <1>3 DEF Write, Goto, TypeOK, AcquirersSound, RecordersOf
  <2>4. RecordersSound'
    BY <1>0, <1>3 DEF Write, Goto, TypeOK, RecordersSound, RecordersOf
  <2>5. PackersSound'
    BY <1>0, <1>3, PackersFrame DEF Write, Goto, TypeOK
  <2> QED BY <2>1, <2>2, <2>3, <2>4, <2>5 DEF CacheInv
<1> QED BY <1>1, <1>2, <1>3 DEF Record

LEMMA PackCacheInv ==
  ASSUME CacheInv, NEW p \in Packers, Pack(p)
  PROVE  CacheInv'
<1> USE CacheAssumption DEF Users
<1>0. TypeOK /\ OnlySpoiltIsWrong /\ AcquirersSound /\ RecordersSound /\ PackersSound
  BY DEF CacheInv
<1>1. CASE VerifyMember(p)
  <2>1. TypeOK'
    <3>1. pc' \in [Users -> Places]
      BY <1>0, <1>1 DEF VerifyMember, Goto, TypeOK, Places, Ended
    <3>2. verified' \in [Packers -> SUBSET Digests]
      BY <1>0, <1>1 DEF VerifyMember, TypeOK
    <3>3. UNCHANGED <<file, spoilt, writer, part, fetched, packed>>
      BY <1>1 DEF VerifyMember
    <3> QED BY <1>0, <3>1, <3>2, <3>3 DEF TypeOK
  <2>2. OnlySpoiltIsWrong'
    BY <1>0, <1>1 DEF VerifyMember, TypeOK, OnlySpoiltIsWrong, AcquirersSound
  <2>3. AcquirersSound'
    BY <1>0, <1>1, AcquirersFrame DEF VerifyMember, Goto, TypeOK
  <2>4. RecordersSound'
    BY <1>0, <1>1, RecordersFrame DEF VerifyMember, Goto, TypeOK
  <2>5. PackersSound'
    BY <1>0, <1>1 DEF VerifyMember, Goto, TypeOK, PackersSound, Archived
  <2> QED BY <2>1, <2>2, <2>3, <2>4, <2>5 DEF CacheInv
<1>2. CASE PackMember(p)
  <2>1. TypeOK'
    <3>1. pc' \in [Users -> Places]
      BY <1>0, <1>2 DEF PackMember, Goto, TypeOK, Places, Ended
    <3>2. packed' \in [Packers -> SUBSET (Digests \X Contents)]
      BY <1>0, <1>2 DEF PackMember, TypeOK
    <3>3. UNCHANGED <<file, spoilt, writer, part, fetched, verified>>
      BY <1>2 DEF PackMember
    <3> QED BY <1>0, <3>1, <3>2, <3>3 DEF TypeOK
  <2>2. OnlySpoiltIsWrong'
    BY <1>0, <1>2 DEF PackMember, TypeOK, OnlySpoiltIsWrong, AcquirersSound
  <2>3. AcquirersSound'
    BY <1>0, <1>2, AcquirersFrame DEF PackMember, Goto, TypeOK
  <2>4. RecordersSound'
    BY <1>0, <1>2, RecordersFrame DEF PackMember, Goto, TypeOK
  <2>5. PackersSound'
    BY <1>0, <1>2 DEF PackMember, Goto, TypeOK, PackersSound, Archived
  <2> QED BY <2>1, <2>2, <2>3, <2>4, <2>5 DEF CacheInv
<1> QED BY <1>1, <1>2 DEF Pack

LEMMA CrashCacheInv ==
  ASSUME CacheInv, NEW u \in Users, Crash(u)
  PROVE  CacheInv'
<1>0. TypeOK /\ OnlySpoiltIsWrong /\ AcquirersSound /\ RecordersSound /\ PackersSound
  BY DEF CacheInv
<1>1. TypeOK' /\ OnlySpoiltIsWrong'
  BY <1>0 DEF Crash, Goto, TypeOK, OnlySpoiltIsWrong, Places, Ended
<1>2. AcquirersSound'
  BY <1>0 DEF Crash, Goto, TypeOK, AcquirersSound, RecordersOf, Downloading, Users
<1>3. RecordersSound'
  BY <1>0 DEF Crash, Goto, TypeOK, RecordersSound, RecordersOf, Users, Ended
<1>4. PackersSound'
  BY <1>0 DEF Crash, Goto, TypeOK, PackersSound, Archived, Users
<1> QED BY <1>1, <1>2, <1>3, <1>4 DEF CacheInv

LEMMA NextCacheInv == CacheInv /\ [Next]_vars => CacheInv'
<1> SUFFICES ASSUME CacheInv, [Next]_vars PROVE CacheInv'
  OBVIOUS
<1>1. CASE UNCHANGED vars
  BY <1>1 DEF vars, CacheInv, TypeOK, OnlySpoiltIsWrong, AcquirersSound, RecordersSound,
              PackersSound, Archived, RecordersOf
<1> QED
  BY <1>1, AcquireCacheInv, RecordCacheInv, PackCacheInv, CrashCacheInv DEF Next

(* A .part belongs to one call from open to unlink, for any number of acquirers.  *)
THEOREM PartsAreOwned == Spec => []PartsHaveOneOwner
<1>1. CacheInv => PartsHaveOneOwner
  BY DEF CacheInv, AcquirersSound, PartsHaveOneOwner
<1> QED BY <1>1, InitCacheInv, NextCacheInv, PTL DEF Spec

(* acquire returns only right bytes, unless record truncates them afterwards.     *)
THEOREM CacheIsHonest == Spec => [](TypeOK /\ CacheNeverLies)
<1>1. CacheInv => TypeOK /\ CacheNeverLies
  BY DEF CacheInv, AcquirersSound, CacheNeverLies
<1> QED BY <1>1, InitCacheInv, NextCacheInv, PTL DEF Spec

(* A finished archive holds exactly the members of the lock, with right bytes.    *)
THEOREM ArchivesAreVerified == Spec => []PackedIsVerified
<1>1. CacheInv => PackedIsVerified
  <2> SUFFICES ASSUME CacheInv, NEW p \in Packers, pc[p] = "ok"
               PROVE  packed[p] = {<<d, "right">> : d \in Digests}
    BY DEF PackedIsVerified
  <2>1. packed[p] \subseteq Digests \X {"right"} /\ Digests \subseteq Archived(p)
    BY DEF CacheInv, PackersSound
  <2> QED BY <2>1 DEF Archived
<1> QED BY <1>1, InitCacheInv, NextCacheInv, PTL DEF Spec

(* What record reports is retained once the recorders of the name are done.       *)
THEOREM RecordsAreRetained == Spec => []RecordedIsRetained
<1>1. CacheInv => RecordedIsRetained
  <2> SUFFICES ASSUME CacheInv, NEW d \in Digests, d \notin spoilt,
                      \A r \in RecordersOf(d) : pc[r] \in {"idle", "ok"},
                      NEW q \in RecordersOf(d), pc[q] = "ok"
               PROVE  file[d] = "right"
    BY DEF RecordedIsRetained
  <2>1. file[d] # "absent" /\ file[d] # "wrong"
    BY DEF CacheInv, RecordersSound, OnlySpoiltIsWrong, RecordersOf
  <2>2. file[d] # "torn"
    BY DEF CacheInv, RecordersSound
  <2> QED BY <2>1, <2>2 DEF CacheInv, TypeOK, Contents
<1> QED BY <1>1, InitCacheInv, NextCacheInv, PTL DEF Spec

(* Nothing that acquire does changes or exchanges a file that has its name.       *)
THEOREM ContentIsKept == Spec => ContentStays
<1> DEFINE Stays(d) ==
      file[d] \in {"right", "wrong"} =>
        \/ file'[d] = file[d] /\ writer'[d] = writer[d]
        \/ file'[d] = "torn" /\ \E r \in RecordersOf(d) : pc[r] = "creating"
<1>1. CacheInv /\ [Next]_vars => [\A d \in Digests : Stays(d)]_vars
  <2> SUFFICES ASSUME CacheInv, Next, NEW d \in Digests PROVE Stays(d)
    OBVIOUS
  <2>1. ASSUME NEW a \in Acquirers, Acquire(a) PROVE Stays(d)
    BY <2>1, CacheAssumption
    DEF CacheInv, TypeOK, Acquire, Look, Verify, Open, Download, Publish, Unlink
  <2>2. ASSUME NEW r \in Recorders, Record(r) PROVE Stays(d)
    BY <2>2, CacheAssumption
    DEF CacheInv, TypeOK, RecordersSound, RecordersOf, Record, LookRecorded, Truncate, Write
  <2>3. ASSUME NEW p \in Packers, Pack(p) PROVE Stays(d)
    BY <2>3 DEF Pack, VerifyMember, PackMember
  <2>4. ASSUME NEW u \in Users, Crash(u) PROVE Stays(d)
    BY <2>4 DEF Crash
  <2> QED BY <2>1, <2>2, <2>3, <2>4 DEF Next
<1> QED BY <1>1, InitCacheInv, NextCacheInv, PTL DEF Spec, ContentStays
-----------------------------------------------------------------------------
\* Where a call that created a .part can be, then or later.
Holding == Downloading \cup {"dead"}
After == Downloading \cup {"ok", "failed", "dead"}

\* A .part was created by a call of its name that may download, which still holds it
\* or died; a refusal names such a call.
PartInv ==
  /\ CacheInv
  /\ \A a \in Acquirers : pc[a] \in Downloading \cup {"opening"} => a \in Online
  /\ \A d \in Digests : part[d] # Nobody =>
       part[d] \in Online /\ DigestOf[part[d]] = d /\ pc[part[d]] \in Holding
  /\ \A a \in Online : pc[a] = "refused" =>
       \E b \in Online \ {a} : DigestOf[b] = DigestOf[a] /\ pc[b] \in After

(* A call that has come so far never goes back.                                   *)
LEMMA AfterIsForEver ==
  ASSUME CacheInv, [Next]_vars, NEW b \in Acquirers, pc[b] \in After
  PROVE  pc'[b] \in After
<1>1. CASE pc'[b] = pc[b]
  BY <1>1
<1>2. ASSUME NEW u \in Users, NEW place \in After, Goto(u, place)
      PROVE  pc'[b] \in After
  BY <1>2 DEF Goto, CacheInv, TypeOK, Users
<1>3. ASSUME NEW u \in Users, u # b, NEW place, Goto(u, place)
      PROVE  pc'[b] = pc[b]
  BY <1>3 DEF Goto, CacheInv, TypeOK, Users
<1>4. ASSUME NEW a \in Acquirers, Acquire(a) PROVE pc'[b] \in After
  BY <1>1, <1>2, <1>3, <1>4
  DEF Acquire, Look, Verify, Open, Download, Publish, Unlink, After, Downloading, Users
<1>5. ASSUME NEW u \in Recorders \cup Packers, Record(u) \/ Pack(u) PROVE pc'[b] \in After
  <2>1. u \in Users /\ u # b
    BY CacheAssumption DEF Users
  <2>2. pc' = pc \/ \E place : Goto(u, place)
    BY <1>5 DEF Record, LookRecorded, Truncate, Write, Pack, VerifyMember, PackMember
  <2> QED BY <2>1, <2>2, <1>1, <1>3
<1>6. ASSUME NEW u \in Users, Crash(u) PROVE pc'[b] \in After
  BY <1>2, <1>6 DEF Crash, After
<1> QED BY <1>1, <1>4, <1>5, <1>6 DEF Next, vars

(* PartInv is preserved by every step.                                            *)
LEMMA NextPartInv == PartInv /\ [Next]_vars => PartInv'
<1> SUFFICES ASSUME PartInv, [Next]_vars PROVE PartInv'
  OBVIOUS
<1> USE CacheAssumption DEF Users
<1>c. CacheInv /\ CacheInv' /\ TypeOK /\ AcquirersSound
  BY NextCacheInv DEF PartInv, CacheInv
<1>o. \A a \in Acquirers : pc[a] \in Downloading \cup {"opening"} => a \in Online
  BY DEF PartInv
<1>h. \A d \in Digests : part[d] # Nobody =>
        part[d] \in Online /\ DigestOf[part[d]] = d /\ pc[part[d]] \in Holding
  BY DEF PartInv
<1>r. ASSUME NEW a \in Online, pc[a] = "refused"
      PROVE  \E b \in Online \ {a} : DigestOf[b] = DigestOf[a] /\ pc'[b] \in After
  BY <1>r, <1>c, AfterIsForEver DEF PartInv
\* A step by which at most one call moves, and none between holding and not holding
\* a .part, keeps all parts.
<1>f. ASSUME NEW u \in Users, \A v \in Users \ {u} : pc'[v] = pc[v], part' = part,
             u \in Acquirers =>
               /\ pc'[u] \in Downloading \cup {"opening"} => u \in Online
               /\ pc[u] \in Holding => pc'[u] \in Holding
               /\ u \in Online /\ pc'[u] = "refused" => pc[u] = "refused"
      PROVE  PartInv'
  <2>1. \A a \in Acquirers : pc'[a] \in Downloading \cup {"opening"} => a \in Online
    BY <1>f, <1>o
  <2>2. \A d \in Digests : part'[d] # Nobody =>
          part'[d] \in Online /\ DigestOf[part'[d]] = d /\ pc'[part'[d]] \in Holding
    BY <1>f, <1>h
  <2>3. \A a \in Online : pc'[a] = "refused" => pc[a] = "refused"
    BY <1>f
  <2> QED BY <2>1, <2>2, <2>3, <1>c, <1>r DEF PartInv
<1>0. CASE UNCHANGED vars
  BY <1>0, <1>c, <1>o, <1>h, <1>r DEF vars, PartInv
<1>g. ASSUME NEW a \in Acquirers, NEW place, Goto(a, place), part' = part,
             place \in Downloading \cup {"opening"} =>
               a \in Online \/ pc[a] \in Downloading \cup {"opening"},
             pc[a] \in Holding => place \in Holding,
             place = "refused" => a \notin Online
      PROVE  PartInv'
  <2>1. pc'[a] = place /\ \A v \in Users \ {a} : pc'[v] = pc[v]
    BY <1>g, <1>c DEF Goto, TypeOK
  <2> QED BY <2>1, <1>g, <1>o, <1>f
<1>1. ASSUME NEW a \in Acquirers, Look(a) \/ Verify(a) \/ Download(a) \/ Publish(a)
      PROVE  PartInv'
  <2> USE DEF Holding, Downloading
  <2>1. CASE Look(a)
    BY <2>1, <1>g DEF Look
  <2>2. CASE Verify(a)
    BY <2>2, <1>g DEF Verify
  <2>3. CASE Download(a)
    BY <2>3, <1>g DEF Download
  <2>4. CASE Publish(a)
    BY <2>4, <1>g DEF Publish
  <2> QED BY <1>1, <2>1, <2>2, <2>3, <2>4
<1>2. ASSUME NEW a \in Acquirers, Open(a)
      PROVE  PartInv'
  <2>1. a \in Online /\ pc[a] = "opening" /\ DigestOf[a] \in Digests
    BY <1>2, <1>o DEF Open
  <2>2. CASE part[DigestOf[a]] = Nobody
    <3>1. /\ pc'[a] = "downloading" /\ \A v \in Users \ {a} : pc'[v] = pc[v]
          /\ part'[DigestOf[a]] = a /\ \A d \in Digests \ {DigestOf[a]} : part'[d] = part[d]
      BY <1>2, <2>2, <1>c DEF Open, Goto, TypeOK
    <3>2. \A d \in Digests : part'[d] # Nobody =>
            part'[d] \in Online /\ DigestOf[part'[d]] = d /\ pc'[part'[d]] \in Holding
      <4>1. ASSUME NEW d \in Digests \ {DigestOf[a]}, part'[d] # Nobody
            PROVE  part'[d] \in Online /\ DigestOf[part'[d]] = d /\ pc'[part'[d]] \in Holding
        <5>1. part'[d] \in Online /\ DigestOf[part'[d]] = d /\ pc[part'[d]] \in Holding
          BY <4>1, <3>1, <1>h
        <5>2. part'[d] \in Users \ {a}
          BY <5>1
        <5> QED BY <5>1, <5>2, <3>1
      <4>2. pc'[a] \in Holding
        BY <3>1 DEF Holding, Downloading
      <4> QED BY <4>1, <4>2, <3>1, <2>1
    <3>3. \A b \in Acquirers : pc'[b] \in Downloading \cup {"opening"} => b \in Online
      BY <3>1, <2>1, <1>o
    <3>4. \A b \in Online : pc'[b] = "refused" => pc[b] = "refused"
      BY <3>1
    <3> QED BY <3>2, <3>3, <3>4, <1>c, <1>r DEF PartInv
  <2>3. CASE part[DigestOf[a]] # Nobody
    <3>1. /\ pc'[a] = "refused" /\ \A v \in Users \ {a} : pc'[v] = pc[v]
          /\ part' = part
      BY <1>2, <2>3, <1>c DEF Open, Goto, TypeOK
    <3> DEFINE b == part[DigestOf[a]]
    <3>2. b \in Online \ {a} /\ DigestOf[b] = DigestOf[a] /\ pc[b] \in Holding
      BY <2>1, <2>3, <1>h DEF Holding, Downloading
    <3>3. pc'[b] \in After
      BY <3>1, <3>2 DEF Holding, After
    <3>4. \A d \in Digests : part'[d] # Nobody =>
            part'[d] \in Online /\ DigestOf[part'[d]] = d /\ pc'[part'[d]] \in Holding
      BY <3>1, <2>1, <1>h DEF Holding, Downloading
    <3>5. \A v \in Acquirers : pc'[v] \in Downloading \cup {"opening"} => v \in Online
      BY <2>1, <3>1, <1>o
    <3>6. \A v \in Online \ {a} : pc'[v] = "refused" => pc[v] = "refused"
      BY <3>1
    <3>7. \E v \in Online \ {a} : DigestOf[v] = DigestOf[a] /\ pc'[v] \in After
      BY <3>2, <3>3
    <3> QED BY <3>4, <3>5, <3>6, <3>7, <1>c, <1>r DEF PartInv
  <2> QED BY <2>2, <2>3
<1>3. ASSUME NEW a \in Acquirers, Unlink(a)
      PROVE  PartInv'
  <2>1. /\ pc'[a] \in {"ok", "failed"} /\ \A v \in Users \ {a} : pc'[v] = pc[v]
        /\ part'[DigestOf[a]] = Nobody /\ \A d \in Digests \ {DigestOf[a]} : part'[d] = part[d]
    BY <1>3, <1>c DEF Unlink, Goto, TypeOK
  <2>2. \A d \in Digests : part'[d] # Nobody =>
          part'[d] \in Online /\ DigestOf[part'[d]] = d /\ pc'[part'[d]] \in Holding
    BY <2>1, <1>h
  <2>3. \A b \in Acquirers : pc'[b] \in Downloading \cup {"opening"} => b \in Online
    BY <2>1, <1>o DEF Downloading
  <2>4. \A b \in Online : pc'[b] = "refused" => pc[b] = "refused"
    BY <2>1
  <2> QED BY <2>2, <2>3, <2>4, <1>c, <1>r DEF PartInv
<1>4. ASSUME NEW u \in Recorders \cup Packers, Record(u) \/ Pack(u)
      PROVE  PartInv'
  <2>1. u \in Users \ Acquirers /\ part' = part
    BY <1>4 DEF Record, LookRecorded, Truncate, Write, Pack, VerifyMember, PackMember
  <2>2. pc' = pc \/ \E place : Goto(u, place)
    BY <1>4 DEF Record, LookRecorded, Truncate, Write, Pack, VerifyMember, PackMember
  <2>3. \A v \in Users \ {u} : pc'[v] = pc[v]
    BY <2>2, <1>c DEF Goto, TypeOK
  <2> QED BY <2>1, <2>3, <1>f
<1>5. ASSUME NEW u \in Users, Crash(u)
      PROVE  PartInv'
  BY <1>5, <1>c, <1>f DEF Crash, Goto, TypeOK, Holding, Downloading
<1> QED BY <1>0, <1>1, <1>2, <1>3, <1>4, <1>5 DEF Next, Acquire

(* An online acquire gives up on an existing .part only when another call of the  *)
(* name created it, and every .part is held by a call at work or a dead one.      *)
THEOREM RefusalsHaveACause == Spec => []RefusalsAreTransient
<1>1. Init => PartInv
  BY InitCacheInv, CacheAssumption DEF Init, PartInv, Users, Downloading
<1>2. PartInv => RefusalsAreTransient
  BY DEF PartInv, RefusalsAreTransient, Holding, After
<1> QED BY <1>1, <1>2, NextPartInv, PTL DEF Spec
-----------------------------------------------------------------------------
\* What is about to be linked was verified, and what is settled is right.
PreparersSound ==
  \A q \in Preparers :
    /\ stage[q] = "linking" => staged[q] = "right"
    /\ \A d \in settled[q] : target[d] = "right"
    /\ stage[q] \in {"looking", "staging"} => current[q] \in Digests
    /\ stage[q] = "linking" /\ current[q] = Civil => settled[q] = Digests
    /\ stage[q] = "building" => settled[q] = Digests /\ current[q] = Civil
    /\ stage[q] \in {"closing", "ok"} => settled[q] = Digests
    /\ stage[q] = "ok" => target[Civil] = "right"

PrepareInv == PrepareTypeOK /\ PreparersSound

LEMMA InitPrepareInv == PrepareInit => PrepareInv
  BY DEF PrepareInit, PrepareInv, PrepareTypeOK, PreparersSound, Targets, Contents

\* A step of one preparer q that only adds right targets keeps the others sound, so
\* that it has to be looked at for q alone.
LEMMA OthersStaySound ==
  ASSUME PrepareInv, NEW q \in Preparers,
         \A p \in Preparers \ {q} : /\ stage'[p] = stage[p] /\ staged'[p] = staged[p]
                                    /\ settled'[p] = settled[p] /\ current'[p] = current[p],
         \A t \in Targets : target[t] = "right" => target'[t] = "right",
         NEW p \in Preparers \ {q}
  PROVE  /\ stage'[p] = "linking" => staged'[p] = "right"
         /\ \A d \in settled'[p] : target'[d] = "right"
         /\ stage'[p] \in {"looking", "staging"} => current'[p] \in Digests
         /\ stage'[p] = "linking" /\ current'[p] = Civil => settled'[p] = Digests
         /\ stage'[p] = "building" => settled'[p] = Digests /\ current'[p] = Civil
         /\ stage'[p] \in {"closing", "ok"} => settled'[p] = Digests
         /\ stage'[p] = "ok" => target'[Civil] = "right"
  BY DEF PrepareInv, PrepareTypeOK, PreparersSound, Targets

\* The members that q has settled stay within the digests.
LEMMA SettledTyped ==
  ASSUME PrepareInv, NEW q \in Preparers, Settle(q)
  PROVE  /\ settled' \in [Preparers -> SUBSET Digests]
         /\ settled'[q] = settled[q] \cup ({current[q]} \ {Civil})
         /\ \A p \in Preparers \ {q} : settled'[p] = settled[p]
  BY DEF PrepareInv, PrepareTypeOK, Settle, Targets

LEMMA NextPrepareInv ==
  ASSUME PrepareInv, TypeOK, NEW q \in Preparers, Prepared(q), UNCHANGED vars
  PROVE  PrepareInv'
<1> USE DEF PrepareInv, PrepareTypeOK, Enter
<1>1. CASE NextMember(q)
  <2>1. PrepareTypeOK'
    BY <1>1 DEF NextMember, Targets
  <2>2. PreparersSound'
    BY <1>1, <2>1, OthersStaySound DEF NextMember, PreparersSound
  <2> QED BY <2>1, <2>2
<1>2. CASE LookTarget(q)
  <2>1. PrepareTypeOK'
    BY <1>2, SettledTyped DEF LookTarget
  <2>2. PreparersSound'
    BY <1>2, <2>1, OthersStaySound, SettledTyped DEF LookTarget, PreparersSound
  <2> QED BY <2>1, <2>2
<1>3. CASE Stage(q)
  <2>1. PrepareTypeOK'
    <3>1. current[q] \in Digests
      BY <1>3 DEF Stage, PreparersSound
    <3> QED BY <1>3, <3>1 DEF Stage, TypeOK
  <2>2. PreparersSound'
    BY <1>3, <2>1, OthersStaySound, PrepareAssumption DEF Stage, PreparersSound
  <2> QED BY <2>1, <2>2
<1>4. CASE Build(q)
  <2>1. PrepareTypeOK'
    BY <1>4 DEF Build, Contents
  <2>2. PreparersSound'
    BY <1>4, <2>1, OthersStaySound DEF Build, PreparersSound
  <2> QED BY <2>1, <2>2
<1>5. CASE Link(q)
  <2>1. PrepareTypeOK'
    BY <1>5, SettledTyped DEF Link
  <2>2. CASE target[current[q]] = "absent"
    <3>1. /\ \A t \in Targets : target[t] = "right" => target'[t] = "right"
          /\ target'[current[q]] = "right"
      BY <1>5, <2>2 DEF Link, PreparersSound
    <3>2. /\ settled'[q] = settled[q] \cup ({current[q]} \ {Civil})
          /\ \A p \in Preparers \ {q} : settled'[p] = settled[p]
      BY <1>5, <2>2, SettledTyped DEF Link
    <3>3. \A d \in settled'[q] : target'[d] = "right"
      BY <3>1, <3>2 DEF PreparersSound, Targets
    <3>4. stage'[q] = "closing" => settled'[q] = Digests
      BY <1>5, <2>2, <3>2 DEF Link, PreparersSound
    <3>5. /\ stage'[q] \in {"closing", "next"} /\ UNCHANGED <<current, staged>>
          /\ \A p \in Preparers \ {q} : stage'[p] = stage[p]
      BY <1>5, <2>2 DEF Link
    <3> QED BY <2>1, <3>1, <3>2, <3>3, <3>4, <3>5, OthersStaySound DEF PreparersSound
  <2>3. CASE target[current[q]] # "absent"
    BY <1>5, <2>1, <2>3, OthersStaySound DEF Link, PreparersSound
  <2> QED BY <2>1, <2>2, <2>3
<1>6. CASE Close(q)
  BY <1>6, OthersStaySound DEF Close, PreparersSound
<1>7. CASE Perish(q)
  BY <1>7, OthersStaySound DEF Perish, PreparersSound
<1> QED BY <1>1, <1>2, <1>3, <1>4, <1>5, <1>6, <1>7 DEF Prepared

LEMMA PrepareInvariant == PrepareSpec => [](CacheInv /\ PrepareInv)
<1>1. Init /\ PrepareInit => CacheInv /\ PrepareInv
  BY InitCacheInv, InitPrepareInv
<1>2. ASSUME CacheInv, PrepareInv, [PrepareNext]_<<vars, prepared>>
      PROVE  CacheInv' /\ PrepareInv'
  <2>1. CASE Next /\ UNCHANGED prepared
    BY <1>2, <2>1, NextCacheInv
    DEF prepared, PrepareInv, PrepareTypeOK, PreparersSound
  <2>2. ASSUME NEW q \in Preparers, Prepared(q), UNCHANGED vars
        PROVE  CacheInv' /\ PrepareInv'
    BY <1>2, <2>2, NextCacheInv, NextPrepareInv DEF CacheInv
  <2>3. CASE UNCHANGED <<vars, prepared>>
    BY <1>2, <2>3, NextCacheInv DEF prepared, PrepareInv, PrepareTypeOK, PreparersSound
  <2> QED BY <1>2, <2>1, <2>2, <2>3 DEF PrepareNext
<1> QED BY <1>1, <1>2, PTL DEF PrepareSpec
-----------------------------------------------------------------------------
\* When prepare returns, all its targets hold the bytes that their digests promise.
THEOREM PreparedArtifactsAreRight == PrepareSpec => []PreparedIsRight
<1>1. PrepareInv => PreparedIsRight
  BY DEF PrepareInv, PrepareTypeOK, PreparersSound, PreparedIsRight, Targets
<1> QED BY <1>1, PrepareInvariant, PTL

\* The cache keeps its own promises among preparers: no step of theirs touches it.
THEOREM CacheIsHonestAmongPreparers == PrepareSpec => [](TypeOK /\ CacheNeverLies)
<1>1. CacheInv => TypeOK /\ CacheNeverLies
  BY DEF CacheInv, AcquirersSound, CacheNeverLies
<1> QED BY <1>1, PrepareInvariant, PTL
=============================================================================
