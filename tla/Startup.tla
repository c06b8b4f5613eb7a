------------------------------ MODULE Startup ------------------------------
(***************************************************************************)
(* app/main.py: a server whose lifespan constructs PassportScience in a    *)
(* thread, step by step, before any connection is accepted, and what its   *)
(* routes then answer.                                                     *)
(***************************************************************************)
EXTENDS Naturals, Sequences

CONSTANT Expected   \* the revision that the caller wants to find

\* PassportScience.__init__: the steps that may raise, in their order.
Steps == <<"revision", "boundaries", "civil", "swiss", "natal probe", "lahiri probe">>

VARIABLES life,      \* of its container: absent, created, building, serving or exited
          revision,  \* what the image's _revision file holds, or "none"
          progress,  \* steps that have passed
          delegate,  \* Runtime.delegate
          ready      \* Runtime.ready

server == <<life, revision, progress, delegate, ready>>

StartupTypeOK ==
  /\ life \in {"absent", "created", "building", "serving", "exited"}
  /\ revision \in {Expected, "other", "none"}
  /\ progress \in 0..Len(Steps)
  /\ delegate \in {"unavailable", "science"}
  /\ ready \in BOOLEAN

\* Any image may be asked for; a process begins with no science.
StartupInit == /\ life = "absent" /\ progress = 0
               /\ revision \in {Expected, "other", "none"}
               /\ delegate = "unavailable" /\ ready = FALSE

\* A step passes; require_revision does so only with a revision.
Build == /\ life = "building" /\ progress < Len(Steps)
         /\ Steps[progress + 1] = "revision" => revision # "none"
         /\ progress' = progress + 1
         /\ UNCHANGED <<life, revision, delegate, ready>>

\* All steps have passed: the instance is installed, and ready at once.
Install == /\ life = "building" /\ progress = Len(Steps)
           /\ life' = "serving" /\ delegate' = "science" /\ ready' = TRUE
           /\ UNCHANGED <<revision, progress>>

\* Variant: the flag is set after the try statement.
BuildFailsReady == /\ life = "building" /\ progress < Len(Steps)
                   /\ life' = "serving" /\ delegate' = "unavailable" /\ ready' = TRUE
                   /\ UNCHANGED <<revision, progress>>

\* A step raises: the service serves without science.
BuildFails == /\ life = "building" /\ progress < Len(Steps)
              /\ life' = "serving" /\ delegate' = "unavailable" /\ ready' = FALSE
              /\ UNCHANGED <<revision, progress>>

\* After the yield of lifespan: no longer ready, but still able to calculate.
Drain == /\ life = "serving" /\ ready
         /\ ready' = FALSE
         /\ UNCHANGED <<life, revision, progress, delegate>>

\* The process ends, for whatever reason.
Exit == /\ life \in {"building", "serving"}
        /\ life' = "exited" /\ delegate' = "unavailable" /\ ready' = FALSE
        /\ UNCHANGED <<revision, progress>>

\* The status of GET /health/ready and of /health/version; 0 when nothing listens.
Health == IF life # "serving" THEN 0 ELSE IF ready THEN 200 ELSE 503
Version == IF life # "serving" THEN 0 ELSE IF revision = "none" THEN 503 ELSE 200

\* A server that reports itself ready, or has a delegate that calculates, has passed
\* every startup step in its present process, its own revision being the first.
ReadyIsProved == Health = 200 \/ delegate = "science" =>
                   life = "serving" /\ delegate = "science"
                   /\ progress = Len(Steps) /\ revision # "none"
=============================================================================
