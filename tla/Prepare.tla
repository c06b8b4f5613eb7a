------------------------------ MODULE Prepare ------------------------------
(***************************************************************************)
(* scripts/scientific_artifacts.py and scripts/build_tzdb_artifact.py:     *)
(* processes that publish verified copies of cache members, and the zone   *)
(* archive compiled from two of the copies, in a directory they share.     *)
(*                                                                         *)
(* The cache is used meanwhile by the calls of SourceCache; a preparer     *)
(* runs offline, so its own acquire is no more than a look and a verify.   *)
(***************************************************************************)
EXTENDS SourceCache

CONSTANTS Preparers,
          Sources,   \* the members that build compiles
          Civil      \* the target that build makes

Targets == Digests \cup {Civil}

ASSUME PrepareAssumption == Sources \subseteq Digests /\ Civil \notin Digests

VARIABLES target,   \* what the name in the output directory holds
          current,  \* the member a preparer is at
          settled,  \* members it has done
          staged,   \* its temporary file
          stage     \* where it is

prepared == <<target, current, settled, staged, stage>>

\* The type of the state that preparers have beside the cache.
PrepareTypeOK == /\ target \in [Targets -> Contents]
                 /\ current \in [Preparers -> Targets]
                 /\ settled \in [Preparers -> SUBSET Digests]
                 /\ staged \in [Preparers -> Contents]
                 /\ stage \in [Preparers -> {"next", "looking", "staging", "linking", "building",
                                             "closing", "ok", "failed", "dead"}]

PrepareInit == /\ target \in [Targets -> {"absent", "right", "wrong"}]
               /\ current = [q \in Preparers |-> Civil]
               /\ settled = [q \in Preparers |-> {}]
               /\ staged = [q \in Preparers |-> "absent"]
               /\ stage = [q \in Preparers |-> "next"]

Enter(q, place) == stage' = [stage EXCEPT ![q] = place]
Settle(q) == settled' = [settled EXCEPT ![q] = @ \cup ({current[q]} \ {Civil})]
-----------------------------------------------------------------------------
(* prepare.                                                                *)

\* acquire of the next member, or the zone archive after the last.
NextMember(q) ==
  /\ stage[q] = "next"
  /\ \/ \E d \in Digests \ settled[q] :
          /\ current' = [current EXCEPT ![q] = d]
          /\ Enter(q, IF file[d] = "right" THEN "looking" ELSE "failed")
     \/ /\ settled[q] = Digests
        /\ current' = [current EXCEPT ![q] = Civil]
        /\ Enter(q, IF target[Civil] = "absent" THEN "building" ELSE "closing")
  /\ UNCHANGED <<target, settled, staged>>

\* A target that is there is verified, never replaced.
LookTarget(q) ==
  /\ stage[q] = "looking"
  /\ \/ target[current[q]] = "absent" /\ Enter(q, "staging") /\ UNCHANGED settled
     \/ target[current[q]] = "right" /\ Enter(q, "next") /\ Settle(q)
     \/ target[current[q]] \in {"wrong", "torn"} /\ Enter(q, "failed") /\ UNCHANGED settled
  /\ UNCHANGED <<target, current, staged>>

\* Variant: acquire has verified the member already.
StageUnverified(q) ==
  /\ stage[q] = "staging"
  /\ staged' = [staged EXCEPT ![q] = file[current[q]]]
  /\ Enter(q, "linking")
  /\ UNCHANGED <<target, current, settled>>

\* The member is read after it was verified, so that the copy is verified again.
Stage(q) ==
  /\ stage[q] = "staging"
  /\ staged' = [staged EXCEPT ![q] = file[current[q]]]
  /\ Enter(q, IF file[current[q]] = "right" THEN "linking" ELSE "failed")
  /\ UNCHANGED <<target, current, settled>>

\* build: it hashes its sources itself, and any check or tool may fail; another
\* compiler makes another archive, whose digest is not the one of the policy.
Build(q) ==
  /\ stage[q] = "building"
  /\ \/ /\ \A d \in Sources : target[d] = "right"
        /\ staged' = [staged EXCEPT ![q] = "right"]
        /\ Enter(q, "linking")
     \/ Enter(q, "failed") /\ UNCHANGED staged
  /\ UNCHANGED <<target, current, settled>>

\* os.link: FileExistsError when another preparer was faster.
Link(q) ==
  /\ stage[q] = "linking"
  /\ \/ /\ target[current[q]] = "absent"
        /\ target' = [target EXCEPT ![current[q]] = staged[q]]
        /\ Settle(q)
        /\ Enter(q, IF current[q] = Civil THEN "closing" ELSE "next")
     \/ target[current[q]] # "absent" /\ Enter(q, "failed") /\ UNCHANGED <<target, settled>>
  /\ UNCHANGED <<current, staged>>

\* The archive is verified in any case, and then the boundary manifest.
Close(q) ==
  /\ stage[q] = "closing"
  /\ \/ target[Civil] = "right" /\ Enter(q, "ok")
     \/ Enter(q, "failed")
  /\ UNCHANGED <<target, current, settled, staged>>

\* A process dies and leaves nothing but its temporary directory.
Perish(q) == /\ stage[q] \notin {"ok", "failed", "dead"}
             /\ Enter(q, "dead")
             /\ UNCHANGED <<target, current, settled, staged>>

Prepared(q) == \/ NextMember(q) \/ LookTarget(q) \/ Stage(q) \/ Build(q)
               \/ Link(q) \/ Close(q) \/ Perish(q)

PrepareNext == \/ Next /\ UNCHANGED prepared
               \/ \E q \in Preparers : Prepared(q) /\ UNCHANGED vars

PrepareSpec == Init /\ PrepareInit /\ [][PrepareNext]_<<vars, prepared>>
-----------------------------------------------------------------------------
\* When prepare returns, every artifact in its directory holds the bytes its digest
\* promises: whatever was there before, whichever preparer put it there, and although
\* record truncates members of the cache in place between their check and their copy.
PreparedIsRight ==
  \A q \in Preparers : stage[q] = "ok" => \A t \in Targets : target[t] = "right"
=============================================================================
