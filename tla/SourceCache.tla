---------------------------- MODULE SourceCache ----------------------------
(***************************************************************************)
(* compliance/bundle.py and compliance/discover.py: processes that share a *)
(* directory of files named by the digest of their content.                *)
(*                                                                         *)
(* acquire downloads into <digest>.part, opened exclusively, verifies it   *)
(* and publishes it with a hard link; record writes the final name in      *)
(* place; pack verifies every member of the lock and then reads it again.  *)
(* A process may die at any point and leaves its files behind.             *)
(***************************************************************************)
EXTENDS Naturals, FiniteSets

CONSTANTS Digests,
          Acquirers,   \* calls of acquire
          Online,      \* those that may download
          Recorders,   \* calls of record
          Packers,     \* calls of pack, whose lock lists all Digests
          DigestOf,    \* what an acquirer or a recorder is after
          Nobody

Users == Acquirers \cup Recorders \cup Packers

ASSUME CacheAssumption == /\ Online \subseteq Acquirers
                          /\ Acquirers \cap Recorders = {}
                          /\ Packers \cap (Acquirers \cup Recorders) = {}
                          /\ DigestOf \in [Acquirers \cup Recorders -> Digests]
                          /\ Nobody \notin Users

VARIABLES file,      \* what the name <digest> holds
          spoilt,    \* names that already held other bytes when all began
          writer,    \* who linked <digest> there, or truncated it last
          part,      \* the acquirer that created <digest>.part
          fetched,   \* what an acquirer has downloaded
          verified,  \* members a packer has verified
          packed,    \* <<member, content>> pairs a packer has archived
          pc         \* "ok", "failed" and "refused" are how a call returns

vars == <<file, spoilt, writer, part, fetched, verified, packed, pc>>

Contents == {"absent", "right", "wrong", "torn"}
Downloading == {"downloading", "publishing", "cleaning", "giving up"}
Ended == {"ok", "failed", "refused", "dead"}
Places == {"idle", "checking", "opening", "creating", "writing", "packing"}
            \cup Downloading \cup Ended

TypeOK == /\ file \in [Digests -> Contents]
          /\ spoilt \subseteq Digests
          /\ writer \in [Digests -> Acquirers \cup Recorders \cup {Nobody}]
          /\ part \in [Digests -> Acquirers \cup {Nobody}]
          /\ fetched \in [Acquirers -> {"nothing", "right", "wrong"}]
          /\ verified \in [Packers -> SUBSET Digests]
          /\ packed \in [Packers -> SUBSET (Digests \X Contents)]
          /\ pc \in [Users -> Places]

Init == /\ file \in [Digests -> {"absent", "right", "wrong"}]
        /\ spoilt = {d \in Digests : file[d] = "wrong"}
        /\ writer = [d \in Digests |-> Nobody]
        /\ part = [d \in Digests |-> Nobody]
        /\ fetched = [a \in Acquirers |-> "nothing"]
        /\ verified = [p \in Packers |-> {}]
        /\ packed = [p \in Packers |-> {}]
        /\ pc = [u \in Users |-> "idle"]

Goto(u, place) == pc' = [pc EXCEPT ![u] = place]
-----------------------------------------------------------------------------
(* acquire.                                                                *)

\* path.exists(): verify it, fail offline, or go on to download.
Look(a) ==
  /\ pc[a] = "idle"
  /\ \/ file[DigestOf[a]] # "absent" /\ Goto(a, "checking")
     \/ file[DigestOf[a]] = "absent" /\ a \notin Online /\ Goto(a, "refused")
     \/ file[DigestOf[a]] = "absent" /\ a \in Online /\ Goto(a, "opening")
  /\ UNCHANGED <<file, spoilt, writer, part, fetched, verified, packed>>

Verify(a) ==
  /\ pc[a] = "checking"
  /\ Goto(a, IF file[DigestOf[a]] = "right" THEN "ok" ELSE "failed")
  /\ UNCHANGED <<file, spoilt, writer, part, fetched, verified, packed>>

\* Variant: mode "wb" instead of "xb".
OpenShared(a) ==
  /\ pc[a] = "opening"
  /\ part' = [part EXCEPT ![DigestOf[a]] = a]
  /\ Goto(a, "downloading")
  /\ UNCHANGED <<file, spoilt, writer, fetched, verified, packed>>

\* open("xb"): FileExistsError when anybody's .part is there.
Open(a) ==
  /\ pc[a] = "opening"
  /\ \/ /\ part[DigestOf[a]] = Nobody
        /\ part' = [part EXCEPT ![DigestOf[a]] = a]
        /\ Goto(a, "downloading")
     \/ /\ part[DigestOf[a]] # Nobody
        /\ Goto(a, "refused")
        /\ UNCHANGED part
  /\ UNCHANGED <<file, spoilt, writer, fetched, verified, packed>>

\* Variant: the download is not verified.
DownloadUnverified(a) ==
  /\ pc[a] = "downloading"
  /\ \E bytes \in {"right", "wrong"} : fetched' = [fetched EXCEPT ![a] = bytes]
  /\ Goto(a, "publishing")
  /\ UNCHANGED <<file, spoilt, writer, part, verified, packed>>

\* The response ends, is too long, or breaks off; what was written is verified.
Download(a) ==
  /\ pc[a] = "downloading"
  /\ \E bytes \in {"right", "wrong"} :
       /\ fetched' = [fetched EXCEPT ![a] = bytes]
       /\ Goto(a, IF bytes = "right" THEN "publishing" ELSE "giving up")
  /\ UNCHANGED <<file, spoilt, writer, part, verified, packed>>

\* Variant: rename instead of a hard link.
PublishReplacing(a) ==
  /\ pc[a] = "publishing"
  /\ file' = [file EXCEPT ![DigestOf[a]] = fetched[a]]
  /\ writer' = [writer EXCEPT ![DigestOf[a]] = a]
  /\ Goto(a, "cleaning")
  /\ UNCHANGED <<spoilt, part, fetched, verified, packed>>

\* hardlink_to: publishes, or verifies what another process has published, or fails
\* with some other error.
Publish(a) ==
  /\ pc[a] = "publishing"
  /\ \/ /\ file[DigestOf[a]] = "absent"
        /\ file' = [file EXCEPT ![DigestOf[a]] = fetched[a]]
        /\ writer' = [writer EXCEPT ![DigestOf[a]] = a]
        /\ Goto(a, "cleaning")
     \/ /\ file[DigestOf[a]] # "absent"
        /\ Goto(a, IF file[DigestOf[a]] = "right" THEN "cleaning" ELSE "giving up")
        /\ UNCHANGED <<file, writer>>
     \/ /\ Goto(a, "giving up")
        /\ UNCHANGED <<file, writer>>
  /\ UNCHANGED <<spoilt, part, fetched, verified, packed>>

\* Variant: no finally clause, a failing download keeps its .part.
UnlinkPublished(a) ==
  /\ pc[a] \in {"cleaning", "giving up"}
  /\ part' = [part EXCEPT ![DigestOf[a]] = IF pc[a] = "cleaning" THEN Nobody ELSE @]
  /\ Goto(a, IF pc[a] = "cleaning" THEN "ok" ELSE "failed")
  /\ UNCHANGED <<file, spoilt, writer, fetched, verified, packed>>

\* The finally clause unlinks the name, without asking whose file it is by now.
Unlink(a) ==
  /\ pc[a] \in {"cleaning", "giving up"}
  /\ part' = [part EXCEPT ![DigestOf[a]] = Nobody]
  /\ Goto(a, IF pc[a] = "cleaning" THEN "ok" ELSE "failed")
  /\ UNCHANGED <<file, spoilt, writer, fetched, verified, packed>>
-----------------------------------------------------------------------------
(* record, with the bytes fetch has returned; their digest names the file. *)

LookRecorded(r) ==
  /\ pc[r] = "idle"
  /\ \/ Goto(r, "failed")
     \/ Goto(r, IF file[DigestOf[r]] = "absent" THEN "creating" ELSE "ok")
  /\ UNCHANGED <<file, spoilt, writer, part, fetched, verified, packed>>

\* write_bytes opens the file, and truncates it if it is there by now.
Truncate(r) ==
  /\ pc[r] = "creating"
  /\ file' = [file EXCEPT ![DigestOf[r]] = "torn"]
  /\ writer' = [writer EXCEPT ![DigestOf[r]] = r]
  /\ Goto(r, "writing")
  /\ UNCHANGED <<spoilt, part, fetched, verified, packed>>

\* Variant: a failing write is not reported.
WriteSilent(r) ==
  /\ pc[r] = "writing"
  /\ \/ file' = [file EXCEPT ![DigestOf[r]] =
                   IF writer[DigestOf[r]] = r THEN "right" ELSE @]
     \/ UNCHANGED file
  /\ Goto(r, "ok")
  /\ UNCHANGED <<spoilt, writer, part, fetched, verified, packed>>

\* The file is whole when the last process to truncate it has written everything.
Write(r) ==
  /\ pc[r] = "writing"
  /\ \/ /\ file' = [file EXCEPT ![DigestOf[r]] =
                      IF writer[DigestOf[r]] = r THEN "right" ELSE @]
        /\ Goto(r, "ok")
     \/ Goto(r, "failed") /\ UNCHANGED file
  /\ UNCHANGED <<spoilt, writer, part, fetched, verified, packed>>
-----------------------------------------------------------------------------
(* pack.                                                                   *)

\* acquire(offline) of each member of the lock, then the exclusive output.
VerifyMember(p) ==
  /\ pc[p] = "idle"
  /\ \/ \E d \in Digests \ verified[p] :
          \/ /\ file[d] = "right"
             /\ verified' = [verified EXCEPT ![p] = @ \cup {d}]
             /\ UNCHANGED pc
          \/ file[d] # "right" /\ Goto(p, "failed") /\ UNCHANGED verified
     \/ verified[p] = Digests /\ Goto(p, "packing") /\ UNCHANGED verified
     \/ verified[p] = Digests /\ Goto(p, "failed") /\ UNCHANGED verified
  /\ UNCHANGED <<file, spoilt, writer, part, fetched, packed>>

Archived(p) == {pair[1] : pair \in packed[p]}

\* Variant: no HashingReader.
PackMemberUnread(p) ==
  /\ pc[p] = "packing"
  /\ \/ /\ \E d \in Digests \ Archived(p) :
             packed' = [packed EXCEPT ![p] = @ \cup {<<d, file[d]>>}]
        /\ UNCHANGED pc
     \/ Archived(p) = Digests /\ Goto(p, "ok") /\ UNCHANGED packed
  /\ UNCHANGED <<file, spoilt, writer, part, fetched, verified>>

\* A member is hashed while it is copied; the output of a failure is incomplete.
PackMember(p) ==
  /\ pc[p] = "packing"
  /\ \/ \E d \in Digests \ Archived(p) :
          /\ packed' = [packed EXCEPT ![p] = @ \cup {<<d, file[d]>>}]
          /\ \/ file[d] = "right" /\ UNCHANGED pc
             \/ file[d] # "right" /\ Goto(p, "failed")
     \/ Archived(p) = Digests /\ Goto(p, "ok") /\ UNCHANGED packed
  /\ UNCHANGED <<file, spoilt, writer, part, fetched, verified>>
-----------------------------------------------------------------------------
\* Everything a dead process has created stays.
Crash(u) == /\ pc[u] \notin {"idle"} \cup Ended
            /\ Goto(u, "dead")
            /\ UNCHANGED <<file, spoilt, writer, part, fetched, verified, packed>>

Acquire(a) == Look(a) \/ Verify(a) \/ Open(a) \/ Download(a) \/ Publish(a) \/ Unlink(a)
Record(r) == LookRecorded(r) \/ Truncate(r) \/ Write(r)
Pack(p) == VerifyMember(p) \/ PackMember(p)

Next == \/ \E a \in Acquirers : Acquire(a)
        \/ \E r \in Recorders : Record(r)
        \/ \E p \in Packers : Pack(p)
        \/ \E u \in Users : Crash(u)

Spec == Init /\ [][Next]_vars
-----------------------------------------------------------------------------
RecordersOf(d) == {r \in Recorders : DigestOf[r] = d}

(* acquire never returns a file with other bytes than its digest promises: what   *)
(* it returned is right and stays right, unless record, which truncates in place, *)
(* is at work on the same name.                                                   *)
CacheNeverLies ==
  \A a \in Acquirers : pc[a] = "ok" =>
    \/ file[DigestOf[a]] = "right"
    \/ file[DigestOf[a]] = "torn" /\ RecordersOf(DigestOf[a]) # {}

(* From open to unlink a .part belongs to the call that created it: no other call *)
(* writes into it, and no finally clause removes another call's file.             *)
PartsHaveOneOwner ==
  \A a \in Acquirers : pc[a] \in Downloading => part[DigestOf[a]] = a

(* Publishing never overwrites a concurrent writer's content: a file once there    *)
(* is neither changed nor exchanged by acquire, and only record's truncation may.  *)
ContentStays ==
  [][\A d \in Digests :
       file[d] \in {"right", "wrong"} =>
         \/ file'[d] = file[d] /\ writer'[d] = writer[d]
         \/ file'[d] = "torn" /\ \E r \in RecordersOf(d) : pc[r] = "creating"]_vars

(* An online acquire gives up on an existing .part only when another call created *)
(* it, and unless that call died a later attempt finds the name free again.       *)
RefusalsAreTransient ==
  /\ \A a \in Online : pc[a] = "refused" =>
       \E b \in Online \ {a} : DigestOf[b] = DigestOf[a] /\ pc[b] \in Downloading \cup {"ok", "failed", "dead"}
  /\ \A d \in Digests : part[d] # Nobody => pc[part[d]] \in Downloading \cup {"dead"}

(* A finished archive contains every member of the lock with the bytes its digest *)
(* promises, even when members change between their verification and the copy.    *)
PackedIsVerified ==
  \A p \in Packers : pc[p] = "ok" => packed[p] = {<<d, "right">> : d \in Digests}

(* What record reports as retained is there once the recorders of the name are    *)
(* done, unless one of them failed or died, or other bytes had the name before.   *)
RecordedIsRetained ==
  \A d \in Digests \ spoilt :
    /\ \A r \in RecordersOf(d) : pc[r] \in {"idle", "ok"}
    /\ \E r \in RecordersOf(d) : pc[r] = "ok"
    => file[d] = "right"
=============================================================================
