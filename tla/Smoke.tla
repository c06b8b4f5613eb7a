------------------------------- MODULE Smoke -------------------------------
(***************************************************************************)
(* scripts/https_scientific_smoke.py: a script that sets up a network and  *)
(* a container, waits for the service in it, checks it and removes         *)
(* everything again, on a Docker daemon that others use meanwhile.         *)
(*                                                                         *)
(* Each Docker command may fail, and the script may be killed anywhere.    *)
(* The daemon gives a subnet to one network at most, and the script gives  *)
(* the one it was allocated back for a moment.                             *)
(***************************************************************************)
EXTENDS Startup

CONSTANTS Subnets,
          MaxAttempts,   \* readiness polls: 120
          Nowhere

ASSUME SmokeAssumption == MaxAttempts \in Nat \ {0} /\ Nowhere \notin Subnets

VARIABLES pc,
          network,    \* the subnet of the script's network, or Nowhere
          foreign,    \* the subnets of other networks
          wanted,     \* the subnet it has read
          folder,     \* its temporary folder, with the keys, exists
          started,    \* its local variable
          attempts,   \* readiness polls made
          outcome,    \* "none", "passed" or "failed"
          spilt       \* the command that removes a thing that was there has failed

vars == <<server, pc, network, foreign, wanted, folder, started, attempts, outcome, spilt>>

Places == {"create", "inspect", "remove", "recreate", "keys", "run", "container", "poll",
           "tls", "body", "unfold", "uncontain", "unnet", "done", "killed"}

\* The type of the state.
SmokeTypeOK ==
  /\ StartupTypeOK
  /\ pc \in Places
  /\ network \in Subnets \cup {Nowhere} /\ wanted \in Subnets \cup {Nowhere}
  /\ foreign \subseteq Subnets
  /\ folder \in BOOLEAN /\ started \in BOOLEAN /\ spilt \in BOOLEAN
  /\ attempts \in 0..MaxAttempts
  /\ outcome \in {"none", "passed", "failed"}

Free == Subnets \ (foreign \cup {network})

\* An exception leaves through the with and finally clauses that have been entered.
Raise == /\ outcome' = "failed"
         /\ pc' = CASE pc = "create" -> "done"
                    [] pc \in {"inspect", "remove", "recreate"} -> "uncontain"
                    [] OTHER -> "unfold"

\* A command that changes nothing but what is said before it.
Proceed(place) == pc' = place /\ UNCHANGED outcome
-----------------------------------------------------------------------------
(* https_container, up to its yield. *)

Create == /\ pc = "create"
          /\ \/ network' \in Free /\ Proceed("inspect")
             \/ Raise /\ UNCHANGED network
          /\ UNCHANGED <<server, foreign, wanted, folder, started, attempts, spilt>>

Inspect == /\ pc = "inspect"
           /\ \/ wanted' = network /\ Proceed("remove")
              \/ Raise /\ UNCHANGED wanted
           /\ UNCHANGED <<server, network, foreign, folder, started, attempts, spilt>>

Remove == /\ pc = "remove"
          /\ \/ network' = Nowhere /\ Proceed("recreate")
             \/ Raise /\ UNCHANGED network
          /\ UNCHANGED <<server, foreign, wanted, folder, started, attempts, spilt>>

\* With the explicit subnet, which another network may have taken in between.
Recreate == /\ pc = "recreate"
            /\ \/ wanted \in Free /\ network' = wanted /\ Proceed("keys")
               \/ Raise /\ UNCHANGED network
            /\ UNCHANGED <<server, foreign, wanted, folder, started, attempts, spilt>>

\* Variant: nothing is noted before docker run.
KeysOnly == /\ pc = "keys"
            /\ folder' = TRUE
            /\ \/ Proceed("run")
               \/ Raise
            /\ UNCHANGED <<server, network, foreign, wanted, started, attempts, spilt>>

\* The folder with the certificate, the keys and the quota table.
Keys == /\ pc = "keys"
        /\ folder' = TRUE
        /\ \/ started' = TRUE /\ Proceed("run")
           \/ Raise /\ UNCHANGED started
        /\ UNCHANGED <<server, network, foreign, wanted, attempts, spilt>>

\* docker run: the container runs, or was only created, or not even that.
Run == /\ pc = "run"
       /\ \/ life' = "building" /\ Proceed("container")
          \/ life' = "created" /\ Raise
          \/ UNCHANGED life /\ Raise
       /\ UNCHANGED <<revision, progress, delegate, ready>>
       /\ UNCHANGED <<network, foreign, wanted, folder, started, attempts, spilt>>

\* Its ports are unbound, its address is the wanted one and its network internal.
Container == /\ pc = "container"
             /\ Proceed("poll") \/ Raise
             /\ UNCHANGED <<server, network, foreign, wanted, folder, started, attempts, spilt>>

\* Variant: an attempt that nothing answers is not counted.
PollAnswers ==
  /\ pc = "poll"
  /\ \/ attempts < MaxAttempts /\ Health = 200 /\ Proceed("tls") /\ UNCHANGED attempts
     \/ /\ attempts < MaxAttempts /\ attempts' = attempts + (IF Health = 0 THEN 0 ELSE 1)
        /\ Proceed("poll")
     \/ attempts = MaxAttempts /\ Raise /\ UNCHANGED attempts
  /\ UNCHANGED <<server, network, foreign, wanted, folder, started, spilt>>

\* One of the attempts, which may be lost; the last one lost is the end.
Poll == /\ pc = "poll"
        /\ \/ attempts < MaxAttempts /\ Health = 200 /\ Proceed("tls") /\ UNCHANGED attempts
           \/ attempts < MaxAttempts /\ attempts' = attempts + 1 /\ Proceed("poll")
           \/ attempts = MaxAttempts /\ Raise /\ UNCHANGED attempts
        /\ UNCHANGED <<server, network, foreign, wanted, folder, started, spilt>>

\* Neither an unknown certificate nor a wrong host name may be accepted.
TLS == /\ pc = "tls"
       /\ Proceed("body") \/ Raise
       /\ UNCHANGED <<server, network, foreign, wanted, folder, started, attempts, spilt>>
-----------------------------------------------------------------------------
(* smoke, and the way out. *)

\* Version and source name the revision, and every case is answered as expected.
Body == /\ pc = "body"
        /\ \/ /\ Version = 200 /\ revision = Expected /\ delegate = "science"
              /\ outcome' = "passed" /\ pc' = "unfold"
           \/ Raise
        /\ UNCHANGED <<server, network, foreign, wanted, folder, started, attempts, spilt>>

Unfold == /\ pc = "unfold"
          /\ folder' = FALSE /\ Proceed("uncontain")
          /\ UNCHANGED <<server, network, foreign, wanted, started, attempts, spilt>>

\* docker rm -f, if anything was started; its failure is suppressed.
Uncontain ==
  /\ pc = "uncontain" /\ Proceed("unnet")
  /\ \/ /\ started /\ life # "absent"
        /\ life' = "absent" /\ delegate' = "unavailable" /\ ready' = FALSE
        /\ UNCHANGED <<revision, progress, spilt>>
     \/ started /\ life # "absent" /\ spilt' = TRUE /\ UNCHANGED server
     \/ (~ started \/ life = "absent") /\ UNCHANGED <<server, spilt>>
  /\ UNCHANGED <<network, foreign, wanted, folder, started, attempts>>

\* docker network rm, which also fails under a container; that is suppressed too.
Unnet ==
  /\ pc = "unnet" /\ Proceed("done")
  /\ \/ network # Nowhere /\ life = "absent" /\ network' = Nowhere /\ UNCHANGED spilt
     \/ network # Nowhere /\ life = "absent" /\ spilt' = TRUE /\ UNCHANGED network
     \/ (network = Nowhere \/ life # "absent") /\ UNCHANGED <<network, spilt>>
  /\ UNCHANGED <<server, foreign, wanted, folder, started, attempts>>

Work == \/ Create \/ Inspect \/ Remove \/ Recreate \/ Keys \/ Run \/ Container
        \/ Poll \/ TLS \/ Body \/ Unfold \/ Uncontain \/ Unnet

Kill == /\ pc \notin {"done", "killed"} /\ pc' = "killed"
        /\ UNCHANGED <<server, network, foreign, wanted, folder, started, attempts, outcome, spilt>>

Script == <<pc, network, wanted, folder, started, attempts, outcome, spilt>>

Serve == Build \/ Install \/ BuildFails \/ Drain \/ Exit

\* Others take and give back subnets.
Neighbour == /\ \/ \E subnet \in Free : foreign' = foreign \cup {subnet}
                \/ \E subnet \in foreign : foreign' = foreign \ {subnet}
             /\ UNCHANGED server
-----------------------------------------------------------------------------
Init == /\ StartupInit
        /\ pc = "create" /\ network = Nowhere /\ wanted = Nowhere /\ foreign = {}
        /\ folder = FALSE /\ started = FALSE /\ attempts = 0
        /\ outcome = "none" /\ spilt = FALSE

Next == \/ Work \/ Kill
        \/ Serve /\ UNCHANGED <<Script, foreign>>
        \/ Neighbour /\ UNCHANGED Script

\* The script runs on, and every command it gives returns.
Spec == Init /\ [][Next]_vars /\ WF_vars(Work)
-----------------------------------------------------------------------------
\* A script that comes to its end, whatever failed on the way, leaves no folder with
\* keys, no container and no network, unless the very command that removes it failed.
NothingLeft ==
  pc = "done" => /\ ~ folder
                 /\ ~ spilt => life = "absent" /\ network = Nowhere

\* The poll is only left for a service that had passed each of its startup steps, even
\* if it has drained or died by now, and the smoke test only passes for one that runs
\* the revision that was asked for.
PassIsEarned ==
  /\ pc \in {"tls", "body"} => progress = Len(Steps)
  /\ outcome = "passed" => progress = Len(Steps) /\ revision = Expected

\* The script ends, even if its container never answers.
SmokeEnds == <>(pc \in {"done", "killed"})
=============================================================================
