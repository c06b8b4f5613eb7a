---------------------------- MODULE SmokeProofs ----------------------------
(***************************************************************************)
(* Theorems about Smoke and the server of Startup in it, for any number of *)
(* polls and any subnets.  One inductive invariant, SmokeInv, says what    *)
(* the server and the script may rely on.                                  *)
(***************************************************************************)
EXTENDS Smoke, TLAPS

\* A delegate that calculates is installed by a process that passed every step.
ServerSound ==
  /\ progress \in Nat
  /\ progress > 0 => revision # "none"
  /\ delegate = "science" => life = "serving" /\ progress = Len(Steps)
  /\ ready = TRUE => delegate = "science"

\* A container is only there once the script has noted that it started one.
ContainerSound ==
  /\ pc \in {"create", "inspect", "remove", "recreate", "keys", "run"} => life = "absent"
  /\ pc = "run" \/ life # "absent" => started = TRUE
  /\ pc \in {"unnet", "done"} /\ spilt = FALSE => life = "absent"

NetworkSound ==
  /\ pc = "create" => network = Nowhere
  /\ pc = "done" /\ spilt = FALSE => network = Nowhere

FolderSound ==
  folder = TRUE => pc \in {"run", "container", "poll", "tls", "body", "unfold", "killed"}

SmokeInv == /\ ServerSound /\ ContainerSound /\ NetworkSound /\ FolderSound /\ PassIsEarned
            /\ spilt \in BOOLEAN /\ folder \in BOOLEAN /\ ready \in BOOLEAN

LEMMA SixSteps == Len(Steps) = 6 /\ Steps[1] = "revision"
  BY DEF Steps

LEMMA InitSmokeInv == Init => SmokeInv
<1> SUFFICES ASSUME Init PROVE SmokeInv
  OBVIOUS
<1>1. ServerSound
  BY DEF Init, StartupInit, ServerSound
<1>2. ContainerSound /\ NetworkSound /\ PassIsEarned
  BY DEF Init, StartupInit, ContainerSound, NetworkSound, PassIsEarned
<1>3. FolderSound /\ spilt \in BOOLEAN /\ folder \in BOOLEAN /\ ready \in BOOLEAN
  BY DEF Init, StartupInit, FolderSound
<1> QED BY <1>1, <1>2, <1>3 DEF SmokeInv

\* What the server does by itself.
LEMMA ServePreserves ==
  ASSUME SmokeInv, Serve, UNCHANGED <<Script, foreign>>
  PROVE  SmokeInv'
<1>1. CASE Build
  BY <1>1, SixSteps
  DEF Build, SmokeInv, ServerSound, ContainerSound, NetworkSound, FolderSound, PassIsEarned, Script
<1>2. CASE Install
  BY <1>2, SixSteps
  DEF Install, SmokeInv, ServerSound, ContainerSound, NetworkSound, FolderSound, PassIsEarned, Script
<1>3. CASE BuildFails
  BY <1>3
  DEF BuildFails, SmokeInv, ServerSound, ContainerSound, NetworkSound, FolderSound, PassIsEarned, Script
<1>4. CASE Drain
  BY <1>4
  DEF Drain, SmokeInv, ServerSound, ContainerSound, NetworkSound, FolderSound, PassIsEarned, Script
<1>5. CASE Exit
  BY <1>5
  DEF Exit, SmokeInv, ServerSound, ContainerSound, NetworkSound, FolderSound, PassIsEarned, Script
<1> QED BY <1>1, <1>2, <1>3, <1>4, <1>5 DEF Serve

\* The script on its way in.
LEMMA SetUpPreserves ==
  ASSUME SmokeInv, Create \/ Inspect \/ Remove \/ Recreate \/ Keys \/ Run \/ Container
  PROVE  SmokeInv'
<1> USE DEF SmokeInv, ServerSound, ContainerSound, NetworkSound, FolderSound, PassIsEarned,
            Raise, Proceed, server
<1>1. CASE Create    BY <1>1 DEF Create
<1>2. CASE Inspect   BY <1>2 DEF Inspect
<1>3. CASE Remove    BY <1>3 DEF Remove
<1>4. CASE Recreate  BY <1>4 DEF Recreate
<1>5. CASE Keys      BY <1>5 DEF Keys
<1>6. CASE Run       BY <1>6 DEF Run
<1>7. CASE Container BY <1>7 DEF Container
<1> QED BY <1>1, <1>2, <1>3, <1>4, <1>5, <1>6, <1>7

\* The script at work and on its way out.  A poll that ends well has met a ready
\* server, and only a server with a delegate passes the body of the test.
LEMMA WayOutPreserves ==
  ASSUME SmokeInv, Poll \/ TLS \/ Body \/ Unfold \/ Uncontain \/ Unnet
  PROVE  SmokeInv'
<1> USE DEF SmokeInv, ServerSound, ContainerSound, NetworkSound, FolderSound, PassIsEarned,
            Raise, Proceed, server
<1>1. CASE Poll      BY <1>1 DEF Poll, Health
<1>2. CASE TLS       BY <1>2 DEF TLS
<1>3. CASE Body      BY <1>3 DEF Body
<1>4. CASE Unfold    BY <1>4 DEF Unfold
<1>5. CASE Uncontain BY <1>5 DEF Uncontain
<1>6. CASE Unnet     BY <1>6 DEF Unnet
<1> QED BY <1>1, <1>2, <1>3, <1>4, <1>5, <1>6

LEMMA NextSmokeInv == SmokeInv /\ [Next]_vars => SmokeInv'
<1> SUFFICES ASSUME SmokeInv, [Next]_vars PROVE SmokeInv'
  OBVIOUS
<1>1. CASE Work
  BY <1>1, SetUpPreserves, WayOutPreserves DEF Work
<1>2. CASE Serve /\ UNCHANGED <<Script, foreign>>
  BY <1>2, ServePreserves
<1>3. CASE Kill
  BY <1>3 DEF Kill, SmokeInv, ServerSound, ContainerSound, NetworkSound, FolderSound,
              PassIsEarned, server
<1>4. CASE Neighbour /\ UNCHANGED Script
  BY <1>4 DEF Neighbour, SmokeInv, ServerSound, ContainerSound, NetworkSound, FolderSound,
              PassIsEarned, server, Script
<1>5. CASE UNCHANGED vars
  BY <1>5 DEF vars, SmokeInv, ServerSound, ContainerSound, NetworkSound, FolderSound,
              PassIsEarned, server
<1> QED BY <1>1, <1>2, <1>3, <1>4, <1>5 DEF Next

LEMMA SmokeInvariant == Spec => []SmokeInv
  BY InitSmokeInv, NextSmokeInv, PTL DEF Spec
-----------------------------------------------------------------------------
\* A script that ends leaves nothing behind, whichever commands failed before, unless
\* the command that removes the container or the network is the one that fails.
THEOREM ScriptsCleanUp == Spec => []NothingLeft
<1>1. SmokeInv => NothingLeft
  BY DEF SmokeInv, ContainerSound, NetworkSound, FolderSound, NothingLeft
<1> QED BY <1>1, SmokeInvariant, PTL

\* A smoke test that passes has seen a service with every startup step behind it, at
\* the revision it was asked for.
THEOREM PassesAreEarned == Spec => []PassIsEarned
<1>1. SmokeInv => PassIsEarned
  BY DEF SmokeInv
<1> QED BY <1>1, SmokeInvariant, PTL

\* app/main.py announces readiness only with an installed delegate, every startup step
\* passed and a source revision.
THEOREM ReadinessIsProved == Spec => []ReadyIsProved
<1>1. SmokeInv => ReadyIsProved
  BY SixSteps DEF SmokeInv, ServerSound, ReadyIsProved, Health
<1> QED BY <1>1, SmokeInvariant, PTL
-----------------------------------------------------------------------------
\* Wherever a step of the script goes to is a place, and what it says an outcome.
LEMMA WorkMoves ==
  ASSUME SmokeTypeOK, Work
  PROVE  pc' \in Places /\ outcome' \in {"none", "passed", "failed"}
<1>1. Raise => pc' \in {"done", "uncontain", "unfold"} /\ outcome' = "failed"
  BY DEF Raise
<1>2. outcome \in {"none", "passed", "failed"}
  BY DEF SmokeTypeOK
<1>3. CASE Create
  BY <1>1, <1>2, <1>3 DEF Create, Proceed, Places
<1>4. CASE Inspect
  BY <1>1, <1>2, <1>4 DEF Inspect, Proceed, Places
<1>5. CASE Remove
  BY <1>1, <1>2, <1>5 DEF Remove, Proceed, Places
<1>6. CASE Recreate
  BY <1>1, <1>2, <1>6 DEF Recreate, Proceed, Places
<1>7. CASE Keys
  BY <1>1, <1>2, <1>7 DEF Keys, Proceed, Places
<1>8. CASE Run
  BY <1>1, <1>2, <1>8 DEF Run, Proceed, Places
<1>9. CASE Container
  BY <1>1, <1>2, <1>9 DEF Container, Proceed, Places
<1>10. CASE Poll
  BY <1>1, <1>2, <1>10 DEF Poll, Proceed, Places
<1>11. CASE TLS
  BY <1>1, <1>2, <1>11 DEF TLS, Proceed, Places
<1>12. CASE Body
  BY <1>1, <1>2, <1>12 DEF Body, Proceed, Places
<1>13. CASE Unfold
  BY <1>1, <1>2, <1>13 DEF Unfold, Proceed, Places
<1>14. CASE Uncontain
  BY <1>1, <1>2, <1>14 DEF Uncontain, Proceed, Places
<1>15. CASE Unnet
  BY <1>1, <1>2, <1>15 DEF Unnet, Proceed, Places
<1> QED
  BY <1>3, <1>4, <1>5, <1>6, <1>7, <1>8, <1>9, <1>10, <1>11, <1>12, <1>13, <1>14, <1>15
  DEF Work

\* Every step keeps the types.
LEMMA NextSmokeTypes == SmokeTypeOK /\ [Next]_vars => SmokeTypeOK'
<1> SUFFICES ASSUME SmokeTypeOK, [Next]_vars PROVE SmokeTypeOK'
  OBVIOUS
<1> USE DEF SmokeTypeOK, server
<1>1. CASE Work
  <2>1. pc' \in Places /\ outcome' \in {"none", "passed", "failed"}
    BY <1>1, WorkMoves
  <2>2. ASSUME UNCHANGED server PROVE StartupTypeOK'
    BY <2>2 DEF StartupTypeOK
  <2>3. CASE Create
    BY <2>1, <2>2, <2>3 DEF Create, Free
  <2>4. CASE Inspect
    BY <2>1, <2>2, <2>4 DEF Inspect
  <2>5. CASE Remove
    BY <2>1, <2>2, <2>5 DEF Remove
  <2>6. CASE Recreate
    BY <2>1, <2>2, <2>6 DEF Recreate, Free
  <2>7. CASE Keys
    BY <2>1, <2>2, <2>7 DEF Keys
  <2>8. CASE Run
    <3>1. StartupTypeOK'
      BY <2>8 DEF Run, StartupTypeOK
    <3> QED BY <2>1, <2>8, <3>1 DEF Run
  <2>9. CASE Container
    BY <2>1, <2>2, <2>9 DEF Container
  <2>10. CASE Poll
    BY <2>1, <2>2, <2>10, SmokeAssumption DEF Poll
  <2>11. CASE TLS
    BY <2>1, <2>2, <2>11 DEF TLS
  <2>12. CASE Body
    BY <2>1, <2>2, <2>12 DEF Body
  <2>13. CASE Unfold
    BY <2>1, <2>2, <2>13 DEF Unfold
  <2>14. CASE Uncontain
    <3>1. StartupTypeOK' /\ spilt' \in BOOLEAN
      BY <2>14 DEF Uncontain, StartupTypeOK
    <3> QED BY <2>1, <2>14, <3>1 DEF Uncontain
  <2>15. CASE Unnet
    <3>1. network' \in Subnets \cup {Nowhere} /\ spilt' \in BOOLEAN
      BY <2>15 DEF Unnet
    <3> QED BY <2>1, <2>2, <2>15, <3>1 DEF Unnet
  <2> QED
    BY <1>1, <2>3, <2>4, <2>5, <2>6, <2>7, <2>8, <2>9, <2>10, <2>11, <2>12, <2>13, <2>14, <2>15
    DEF Work
<1>2. CASE Serve /\ UNCHANGED <<Script, foreign>>
  <2>1. UNCHANGED <<pc, network, foreign, wanted, folder, started, attempts, outcome, spilt>>
    BY <1>2 DEF Script
  <2>2. StartupTypeOK'
    <3> USE DEF StartupTypeOK
    <3>1. CASE Build      BY <3>1, SixSteps DEF Build
    <3>2. CASE Install    BY <3>2 DEF Install
    <3>3. CASE BuildFails BY <3>3 DEF BuildFails
    <3>4. CASE Drain      BY <3>4 DEF Drain
    <3>5. CASE Exit       BY <3>5 DEF Exit
    <3> QED BY <1>2, <3>1, <3>2, <3>3, <3>4, <3>5 DEF Serve
  <2> QED BY <2>1, <2>2
<1>3. CASE Kill
  BY <1>3 DEF Kill, Places, StartupTypeOK
<1>4. CASE Neighbour /\ UNCHANGED Script
  BY <1>4 DEF Neighbour, Script, Free, StartupTypeOK
<1>5. CASE UNCHANGED vars
  BY <1>5 DEF vars, StartupTypeOK
<1> QED BY <1>1, <1>2, <1>3, <1>4, <1>5 DEF Next

\* The script and the server keep their types.
THEOREM SmokeTypes == Spec => []SmokeTypeOK
<1>1. Init => SmokeTypeOK
  <2> SUFFICES ASSUME Init PROVE SmokeTypeOK
    OBVIOUS
  <2>1. StartupTypeOK
    <3>1. life = "absent" /\ delegate = "unavailable" /\ ready = FALSE
      BY DEF Init, StartupInit
    <3>2. progress \in 0..Len(Steps)
      BY SixSteps DEF Init, StartupInit
    <3>3. revision \in {Expected, "other", "none"}
      BY Zenon DEF Init, StartupInit
    <3> QED BY <3>1, <3>2, <3>3 DEF StartupTypeOK
  <2>2. 0 \in 0..MaxAttempts
    BY SmokeAssumption
  <2>3. /\ pc = "create" /\ network = Nowhere /\ wanted = Nowhere /\ foreign = {}
        /\ folder = FALSE /\ started = FALSE /\ spilt = FALSE
        /\ attempts = 0 /\ outcome = "none"
    BY DEF Init
  <2> QED BY <2>1, <2>2, <2>3 DEF SmokeTypeOK, Places
<1> QED BY <1>1, NextSmokeTypes, PTL DEF Spec
=============================================================================
