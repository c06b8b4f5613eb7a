# A formal model of Astro Passport

TLA+ modules, TLC runs and TLAPS proofs for the service in `src/app`, the
source-cache tools in `src/compliance`, the comparator in `src/conformance` and the
preparation and smoke scripts in `src/scripts`. `PROJECT.json` lists components, runs,
mutants, hazards and theorems, and maps every definition to the lines it models.

## The system

A request to `POST /v1/passports` is one coroutine. It takes one of four
admission slots, authenticates in a pool thread, judges the headers, reserves
quota in a pool thread, reads the body and submits a calculation, which a pool
thread carries out with one native process (two for the Lahiri profile).

| component | state it keeps | operations | interacts with | hard behaviour | what makes it correct |
|---|---|---|---|---|---|
| HTTP handler, `app/api.py` | queue of 4 slots; the await each handler is in | `calculate` | threads for auth and quota, `PassportScience` | cancellation and timeouts at every await, 14 exits | slots conserved; no work without key and quota; replies agree with charges |
| key authentication, `app/security.py` | key file (operator's) | `authenticate` | handler | file changes between calls | fails closed |
| quota store, `app/security.py` | one SQLite table | `reserve_quota`, `initialize_quota` | handler, other processes | concurrent transactions, crash, stale clock, row limit | reservations are atomic; the counter is exact and never goes back |
| science pipeline, `science/pipeline.py` | `_capacity` = 2; a thread per call | `calculate`, `calculate_lahiri`, `_submit` | handler, resolvers, adapter | the thread outlives its waiter; submit may fail half-way | permits belong to work, not to waiters |
| ephemeris adapter, `ephemeris/adapter.py` | `_CAPACITY` = 2, verified bytes | `_calculate`, `_result` | native process | kill at 5 s, nested semaphore | permits come back; BUSY never hits admitted work |
| ephemeris worker, `ephemeris/worker.py` | none | `run` | adapter | leap seconds, year boundaries, angles at the seam | time flows evenly; limits and roundings agree with those of the contracts |
| boundary resolver, `boundaries/tbb.py` | polygons, tree | construct, `resolve` | pipeline | edges, overlaps, seam, parser | only a whole text loads; the polygons' own outcome |
| civil resolver, `civil/tzdb.py` | TZif bytes | `resolve`, `verify_result` | pipeline | gaps, folds, close transitions | exactly the instants showing the time |
| natal service, `natal/service.py` | none | `calculate`, `verify_facts` | adapter | refuses an event-loop thread | instant unchanged by the port |
| startup, `app/main.py`, `app/build.py` | delegate, ready, the revision | `lifespan`, `/health/ready`, `/health/version` | pipeline, clients that poll | partial construction, draining | ready only with science and a revision |
| contracts, canonical form | none | validation, encoding | all | facts checked in several places | the checks never disagree; one content per value |
| source cache, `compliance/bundle.py`, `discover.py` | a directory shared by processes | `acquire`, `verify`, `pack`, `fetch`, `record` | each other, through files | concurrent writers, crash, stale `.part` | a name never yields other bytes |
| artifact preparation, `scripts/` | output directory shared by processes | `prepare`, `build` | source cache | staged publication, members that change | what is there at the end was verified |
| comparator, `conformance/comparator.py` | none | `compare_pair`, `compare_error_path`, `project_reference` | retained records | facts held twice, two people, collapsed failures | exactly what belongs together agrees |
| smoke script, `scripts/https_scientific_smoke.py` | network, container, folder | `https_container`, `smoke` | Docker daemon, service | any command fails; others take the subnet; a service that dies | cleans up, ends, passes only when earned |
| audit, notices, image, release tools | none | file inspection | source cache | - | - |

## Modules

| module | models | state and actions against the code |
|---|---|---|
| `Executor` | CPython's default pool (external) | `queue`, `running`, `cancelled`; `Enqueue` is `submit`, `Take`/`Skip` a thread reaching an item, `CancelFuture` `future.cancel()` |
| `Science` (extends `Executor`) | `pipeline.py`, `adapter.py` | `free` and `nativeFree` are the two semaphores. `_submit` is `Admit`, `Refuse` or `SubmitFails`, then `Deliver` or `Leave`. The thread is `Start`, `Resolve`, `Spawn`, `NativeEnds`, `Release` |
| `BoundedWork` | abstract: what `PassportScience` promises about load | `Admit`, `Refuse`, `Finish` |
| `Api` (extends `Science`) | `api.py` composed with the pipeline and the pool | one action per stretch between two awaits, with the `finally` that returns the slot: `Arrive`, `Authenticated`, `Reserved`, `BodyRead`, `Calculated`, `DeadlinePasses`, `Cancel`; `Thread` is the pool's side |
| `Quota` | `reserve_quota` among processes | `Call` captures the clock as the handler does, `Begin`, `Select`, `Decide`, `Commit`, `Grant`, `Fail`, `Crash`, `SetClock` |
| `AtomicQuota` | abstract: a reservation is one step | `Charge`, `Grant`, `Refuse`, `Fault` |
| `SourceCache` | `bundle.py` and `discover.record` on one directory | `acquire` is `Look`, `Verify`, `Open`, `Download`, `Publish`, `Unlink`; `record` is `LookRecorded`, `Truncate`, `Write`; `pack` is `VerifyMember`, `PackMember`; `Crash` |
| `CivilTime` | `tzdb.py` against a reference set | `Resolve`, `CandidateFolds` as operators; a behaviour asks, claims and replays |
| `Prepare` (extends `SourceCache`) | `scientific_artifacts.py`, `build_tzdb_artifact.py` over the cache | `prepare` is `NextMember`, `LookTarget`, `Stage`, `Build`, `Link`, `Close`; `Perish` |
| `Boundary` | `tbb.py`, `boundaries/contracts.py` | loading is `Load`, then one action per token: `Feature`, `Separator`, `Close`; a lookup is `Ask`, `Examine` once per candidate in any order, `Decide`; `BuildFails` and `LookupFails` are the exceptions |
| `Passport` | worker, ephemeris contracts, adapter result, natal service, response, canonical content, Lahiri facts | the world's clock is `Tick`, leap seconds included; `Ask`, `Calculate` and `CalculateLahiri` carry one clock time through every layer |
| `Comparator` | `comparator.py` | `Rows` has the leaves that the rules of the accepted map are about; `Alter` changes, removes or adds a leaf of the evidence; `CompareNew`, `CompareOld`, `CompareError` |
| `Startup` | `main.py`, `build.py` | `Build` is one step of `PassportScience.__init__`, `Install`, `BuildFails`, `Drain`, `Exit`; `Health` and `Version` are the routes |
| `Smoke` (extends `Startup`) | `https_scientific_smoke.py` with the service it starts | one action per command on the way in and out, `Neighbour` for other users of the daemon, `Kill` |
| `ApiProofs` (with `Science`), `QuotaProofs`, `PrepareProofs` (with `SourceCache`), `CivilTimeProofs`, `BoundaryProofs`, `PassportProofs`, `ComparatorProofs`, `SmokeProofs` | theorems about the modules they are named after | see Proofs |
| `MC...` | constants for TLC | |

Some definitions are followed or preceded by a *variant*: the same operation with
a plausible mistake, used by no specification. Each property is known to fail for
one of them (`mutants` in `PROJECT.json`), so each property can tell the code from
a mistake in it.

Data is abstract. A request is a model value; what a pure step of the thread does
with it is a choice among the failures the code can raise (`ResolveFaults`,
`NativeFaults`, `BodyFaults`, ...), translated by `ERROR_CODES` and `STATUS` as the
code does. An exception that no table translates is `internal_error`. A body that
times out, or a client that disconnects while it is read, is one of `BodyFaults`.
Time is not modelled: a deadline may pass at any moment, and a native process may
end at any moment, killed or not. Admission, queueing and the await of `_submit`
form one step because no await separates them.

`Api` takes quota as an indivisible counter. `Quota` refines `AtomicQuota`, which
justifies that. All requests of an `Api` run carry one key within one minute, the
case in which they compete.

`Science` lets a submit that raises leave its item in the pool's queue when
`StrayStart` is TRUE: CPython's pool queues the item before it starts a thread.
The permit is then released by `_submit` and again by the item, and the
`BoundedSemaphore` refuses a release that would pass its first value.

`SourceCache` assumes what a POSIX file system gives: exclusive creation, atomic
link and unlink. A verification is one step: reading a file takes time, and the
bytes judged are taken to be those of one moment. A digest collision is not
modelled. Recorders never hold other bytes than their file's name says, since they
compute the name from the bytes.

In `Quota`, `Fail` stands for every error of the file, of SQLite and of a row that the
code would not write; a key whose row is of a later minute and a table without room are
cases of their own (`StateError`).

`CivilTime` uses two functions of zoneinfo as CPython defines them: an instant
takes the offset of the last change before it; a local time with `fold=0` keeps
the old offset through a gap or fold and with `fold=1` takes the new one. Zones
are assumed `Spaced`: the local times that two changes disturb do not overlap.
That is an assumption about the pinned archive, which is not in the repository.

`Boundary` reads a text of tokens. A token is a blank, a mark or a feature; a text
that breaks inside a feature is a text in which that token is missing. Text that is no
UTF-8 or has another prefix is a failed check before the first token.

What shapely and GEOS compute is defined for rings that go around a box (`Boxed`), which
those of the run's sound features do. `is_valid` is `IsValid`: a ring does not touch
itself, a hole lies strictly inside its shell, holes meet at corners only and do not cut
the interior, and parts lie beside each other or in a hole. `covers`, `contains` and
`STRtree.query` take each ring for the box around it. A result that is not coherent would
be a `validation_error`, which `OutcomeIsExact` shows never to happen. The points are
taken from a grid that is finer than the regions (`FinelyDrawn`): a point is inside a
region exactly if the region covers all points around it, which stands for the interior
in the plane. TLC checks `Boxed` and `FinelyDrawn` for the regions of the run.

`Passport` has a short calendar, in which each date that the code names is a day of
its own, and a short day of `Ticks` seconds. The range of Julian dates that the
contracts check again is left out: no supported year reaches it. Angles are integers: a
binary64 is a number of fine units, a decimal of nine places a number of units. The
native library is a choice of angles; a faulty one is a choice of failures, of angles out of range
and of results that are not what was asked for. That the worker and the response
agree on what year it is, and the three roundings on what an angle is, is not assumed
but checked. `LahiriCoherent` compares angles exactly where the code allows 1e-10 of a
degree, which is less than a fine unit of the run.

`Comparator` stands for each rule of the map with the leaves it is about, rather
than for 310 paths. `Rows` and `Accepted` are the content of the accepted map and error
map, whose digests are constants of the code. Two leaves of the old natal facts
(`natal_projection`) are absent from the new service by intention and constrained by no
rule: they may hold anything, and the comparison agrees nevertheless. `Project` is made
from consistent records, on which the checks of `project_reference` itself do not fire.

`Prepare` runs offline, so that its own `acquire` is a look and a verification; the
online acquirers are those of `SourceCache` beside it. `build` is one step which
reads two verified sources and makes the archive of the policy, or fails.

`Smoke` lets any Docker command fail, and the server build, fail, drain or die at
any moment. A failed `docker network create` is taken to leave no network, since the
script does not look for one. The removal of the temporary folder is taken to succeed.

## Runs

| run | bounds | why they are enough |
|---|---|---|
| `science` | 3 calls (1 Lahiri), 2 permits, 2 native permits, 2 threads | the third call meets a full service; a waiter can leave while its item is queued, running or done; a second pass competes with another call |
| `science_stray` | 3 calls, 1 permit, 1 native permit, 3 threads, stray items | one stray item makes the count of `_capacity` wrong by one, and three threads can meet the one native permit |
| `api` | 4 symmetric requests, 2 slots, 1 permit, 2 threads, quota of 2 | a request meets no slot, no permit, no quota, and a queue behind abandoned work |
| `api_live` | 3 requests, no symmetry (liveness), same limits | the third request meets each limit; faults that only end a request earlier are left to `api` |
| `quota` | 3 requests of one key with limits 2, 1, 1, one of another, 2 processes, 2 minutes, room for 1 row | two charges fill the limit, a third exceeds it, the limit is lowered between them, the minute turns and is set back, the second key finds no room |
| `source_cache` | 3 acquires of one name (1 offline), 1 of another, any initial content | two downloads race and a third call looks in between |
| `source_pack` | 2 recorders and 1 acquirer of one name, 1 packer, 2 preparers, any initial content of cache and output directory, symmetry of recorders and of preparers | a recorder that looked early can truncate what a packer or a preparer has verified, two can truncate each other, two preparers publish the same name |
| `civil` | all spaced zones with 2 changes and offsets in -1..1, 13 local times | gap, fold, no-op change, stretches that touch, both edges of each |
| `boundary` | every text of at most 5 tokens of 6 kinds, every insertion of a token into a whole text, every pair of 20 features, of which 6 are sound and 8 have valid rings but no valid polygon; 6 sets of faults; a grid of 19 by 15 points | whole texts are 5 tokens long, so that each token can be missing, doubled or out of place; the grid has a point in each region, on each edge, at each corner and outside the globe |
| `passport` | 12 days of 2 seconds (3 on the two leap days), one of them ending 2016, offsets -1..1, 6 places, 8 Moons, 5 ayanamshas on a circle of 6 units of 4 parts | each date the code names has a day before and after; offsets pass each midnight both ways; the angles lie at each rounding tie and at both sides of the seam |
| `comparator` | 2 pairs of records (same facts, different facts), up to 2 leaves that have one of 1 to 5 wrong values, are missing or are one too many; every failure of every stage, 3 kinds of evidence, every code and status | two alterations are what it takes to change a leaf and the copy it is compared with |
| `smoke` | 3 subnets, 4 polls instead of 120, 6 startup steps, 3 revisions | a neighbour can take the subnet given back and another; a poll can meet each phase of the server, and the last one can be lost |

`CHECK_DEADLOCK FALSE` is set throughout: a behaviour ends when its calls are used
up, its text is refused, its answer given or its script over. Counters that could
grow are bounded by the number of calls, of which each is made once; `LastMinute`
bounds the clock and `MaxRows` stands for the 128 rows.

### What they show

- The permit of a calculation belongs to its thread. It survives every way a
  waiter can leave, and comes back (`TokensConserved`, `CapacityReturns`); this is
  the comment on `PassportScience`, and `ImplementsBoundedWork` is its abstract
  form. With a stray item `_capacity` may admit too many threads, yet
  `NativeConserved` still bounds the processes.
- `NativeNeverBusy`: with equal capacities an admitted call never meets BUSY,
  although both semaphores are taken without waiting, because a permit is never
  kept from one Lahiri pass to the next.
- A request returns its slot on every exit, cancellation included, and is answered
  unless cancelled. Work starts only for a charged request, and a refused one is
  not charged later by a thread that outlives it.
- Threads whose waiters left occupy the pool that also authenticates: the backlog
  is bounded by slots, permits and cancelled handlers, not by slots alone.
- Reservations are atomic; a stale clock reading is refused, never charged to the
  earlier minute; a limit lowered between two authentications cannot be exceeded by
  those who were given the lower one.
- `acquire` never returns wrong bytes. `record` writes in place, so a name it works
  on can be seen torn, and `pack` survives that because it hashes while it copies. A
  crashed download leaves a `.part` that refuses later downloads of that name.
- Between spaced changes the round trip through zoneinfo is exact, chosen folds are
  in order, and the replay accepts exactly what the rules give.
- `prepare` verifies its copy and not only the member it copies, so that what it
  returns is right although `record` may truncate the member in between
  (`PreparedIsRight`). What was in the directory before is verified or refused.
- The boundary parser becomes ready on a whole text with valid polygons only, whatever
  tokens are missing, doubled or left over, and finds no whole text invalid
  (`ParsedIsWhole`), and an edge decides over interiors whatever
  the order in which the tree returns its candidates (`OutcomeIsExact`).
- Leap seconds make no step in terrestrial time (`TimeFlows`). The limits and the
  roundings that six layers compute each for itself agree on every supported second
  (`EveryInstantIsAnswered`), and what the content says of angles adds up around the
  circle but for the last decimal (`AnglesAgree`).
- The comparator agrees with its own projection (`ProjectionAgrees`), and agrees exactly
  if the old records are a consistent pair with the retained manifest and the requests
  and responses are what they project to (`AgreementIsExact`): facts that the old
  records hold twice are equal, no leaf is missing or one too many. What it says nothing
  about is the wrapper of the natal facts, which the map leaves to the old service. A
  failure that the old service collapsed is accepted only with the evidence of its stage
  (`ErrorsNeedEvidence`).
- The smoke script leaves nothing behind unless the very command that removes it
  fails (`NothingLeft`); it passes only for a service whose startup steps have all
  passed and which runs the revision that was asked for (`PassIsEarned`).

### Fairness

`Work(c)` and `Thread(r)` are weakly fair: the pool's threads are scheduled by the
operating system, the native process is killed after 5 s (`subprocess.run(timeout=5)`)
and the rest of a thread is straight-line code. `Deliver` and `Handle` are weakly
fair: the event loop resumes a coroutine whose await is over, and the body and the
calculation are awaited under `asyncio.timeout`. Nothing forces an arrival, a
cancellation or a deadline: `WaitersAnswered` holds without the deadline. `Quota`
has no fairness and `SourceCache` none, since nothing there claims progress.

`Smoke` has `WF_vars(Work)`: the script is one sequential process, each poll and each
request is bounded by an httpx timeout, and its Docker commands are assumed to return;
the code gives them no timeout. Nothing is assumed of the server, which may never
become ready: `SmokeEnds` rests on the bound of the polls. `Boundary`, `Passport`,
`Comparator` and `Prepare` claim no progress and have no fairness.

## Proofs

`ApiProofs` begins with `Science` alone (any finite set of calls, any number of
threads and permits with `Capacity <= NativeCapacity`):

- `TypeCorrect` and `NativeBounded` from the inductive invariant `TypeInv`: types,
  `NativeConserved`, and where a call's answer may stand against its work. The count
  of native processes is needed for `nativeFree` to stay within its bounds.
- `PermitsConserved` and `NativeAlwaysAvailable` from `TokenInv`, under
  `~StrayStart`: `TypeInv`, no stray item, `TokensConserved`, and the absence of a
  busy outcome. The argument: native processes are among the holders, there are at
  most `Capacity` holders, and a holder about to spawn has no process, so a native
  permit is left.
- `AnswersAreEarned` from `EarnInv`, with or without stray items: an outcome exists
  only at the end of its item, with the passes it took, and an answer is that outcome
  or a refusal. It assumes that no native fault carries the code of an unresolved
  place or time, as the adapter's own categories guarantee.
- `ServiceIsBounded`: initial states and steps map to those of `BoundedWork`.

For the composed service (any requests, slots, permits, threads and limit,
cancellations at every await) it rests on `ApiInv`. A handler and its threads meet only through work items, so
the core is `ItemsOnce`, an item waits or runs at most once, and for each request
`ThreadsSound`: a thread still pending belongs to a handler that waits for it or was
cancelled, never to one that has replied. Without it a reservation could be committed
after the 401 or 406 was sent. `ProgressSound` says what has been granted at each
await and `ReplySound` what each reply entails. `PoolStep` gathers what one step of
the pool and of science may do to a request, and `StepOfOne` what a step of one
request has to show. From it `SlotsAreConserved`, `WorkIsCharged`, `RepliesAreHonest`
and `ApiTypes`. Under `~StrayStart`, `ServiceInv` adds `TokenInv`,
which survives the composition because every step is one of `Science` or leaves its
variables alone (`ServiceSteps`), and the owner of every item (`ItemsOwned`): it gives
`PermitsSurviveTheService`, and `BacklogStaysBounded` by counting the items by owner.

`QuotaProofs` (any requests, keys, limits, processes, minutes) rests on one
inductive invariant, `QuotaInv`: types, mutual exclusion of transactions, validity
of what the holder read, exactness of the counter, and which stages are charged.
The step that matters is `Commit`: the row read is still the row in the table, so
the new counter is the number of charges of that minute plus one, and no other
minute is touched. From it `CountersAreExact`, `LimitsAreKept`,
`AnswersAreHonest`, `TableIsBounded`, `RowsOnlyAdvance` and `ReservationsAreAtomic`.

`PrepareProofs` begins with `SourceCache` (any digests, any calls of `acquire`, `record` and `pack`, each
of which may die anywhere) rests on `CacheInv`, one part per kind of call. What makes
it inductive: a call about to publish has right bytes (`AcquirersSound`); a torn file
belongs to the recorder that truncated it last, which is still writing or has failed,
and a recorder that has written finds its name there (`RecordersSound`); only a name
that held other bytes from the start can hold them now (`OnlySpoiltIsWrong`). Each
action moves one call (`GotoPlace`), and the parts of the other kinds follow from the
frame lemmas. From it `PartsAreOwned`, `CacheIsHonest`, `ArchivesAreVerified`,
`RecordsAreRetained` and `ContentIsKept`. `PartInv` adds where the creator of each
`.part` can be, which gives `RefusalsHaveACause`.

Then, for any number of preparers beside any calls of the cache, each of which may die
anywhere, it adds `PrepareInv` to `CacheInv`: what is about to be
linked was verified, and what a preparer has settled is right. The latter is
inductive because a link only adds names (`OthersStaySound`), so that no preparer
disturbs what another relies on. From it `PreparedArtifactsAreRight`, and
`CacheIsHonestAmongPreparers`: preparers leave the guarantees of the cache as they are.

`PassportProofs` (any calendar, any set of leap days from 1972 to 2016, any length of
the day, any offsets and angles) rests on `TimeInv`: the seconds elapsed are the days
and seconds shown and one for each leap day that is over, and what is answered belongs
to the birth that was asked for and to what the first process printed. The lemmas
`OneMoreDay` and `DayOfClock` say what midnight does to the count of leap days. From
it `TerrestrialTimeFlows`.

`AnswerInv` adds what is kept of the birth and of the first process between the two
(`TimeInv` is needed for the leap seconds in between), and gives `EverySecondIsAnswered`
and `WrittenAnglesAgree`. The argument of the first: a supported local time with a
supported offset falls in the range of every layer (`BirthsAreInRange`), what layers
compute about limits is the same (`LimitsAreTheSame`), so that a healthy result passes
every check (`HealthyIsAccepted`). The second rests on lemmas about angles for any
circle of even size: two angles that differ by little have remainders that do
(`LittleApart`), rounding half to even (`HalfEvenIsNear`) stays within half a unit of
the last decimal around the seam (`DecimalIsNear`, `CoordinateIsNear`), and two of them
add up but for one unit (`SumIsNear`). It assumes that angles lie on the circle and
longitudes within half of it, which the worker and the contracts check.

`CivilTimeProofs` (any spaced zone, any number of changes, any offsets and times): the
changes that have happened are an initial segment of all changes (`InitialSegment`, by
counting, so that no induction is needed), and of the stretches that changes disturb at
most one is open at a time (`OneOpenStretch`). Hence the offsets that show a local time
are those of the last stretch that is closed and of the last that is opened
(`OffsetsThatShow`), which is what the two folds find (`FoldsAreExact`), and `resolve`
answers with exactly the instants of the reference (`ResolveIsExact`). `CivilInv` says
where a result, a claim and a replay came from. From it `CivilTimesAreExact` and
`ReplaysAreFaithful`. It assumes `Spaced` zones and that `Instants`, the range of the
reference, leaves no instant out that can show a supported time.

`BoundaryProofs` (any texts, catalog, polygons and points) rests on `ParseInv`, which
numbers the tokens: the k-th feature read is token 2k - 1 and the comma behind it token
2k, each zone read once. A place of the text then tells what a whole text would hold
there, and each way to refuse a text shows that it is not whole (`FeatureRefused`,
`SeparatorRefused`, `CloseRefused`); that a zone named twice cannot belong to a whole
text follows by counting (`WholeIsDistinct`). From it `OnlyWholeTextsLoad`. `LookupInv`
adds to it what is known of a point when only some of the tree's candidates have been
examined (`ScanSound`), in whatever order, and that candidates leave out nothing that
covers the point (`HitsCover`); this gives `LookupsAreExact`, under `FinelyDrawn`. That
the definitions of `is_valid`, `covers` and `contains` are GEOS's for boxed rings is taken
as given.

`ComparatorProofs` (any values, any number of alterations): `LeavesMean` unfolds the
accepted map into one formula about a record, a request and a response (`Agreed`). What
belongs together is found to agree (`GivenAgrees`); conversely a response that agrees
is the projection (`AgreedIsProjected`) and two records that agree are a consistent pair
(`AgreedIsConsistent`). `ComparatorInv` says that each record compared so far agrees, that
a mismatch is never about what belongs together, that everything does before the first
alteration, and what a verdict on a failure means (`Judged`). From it
`UnalteredRecordsAgree`, `AgreementBindsTheRecords` and `AcceptedErrorsHaveEvidence`. It
assumes of the retained pairs that they are consistent before any alteration (`Consistent`),
and of `None` that it is no cause of a failure.

`SmokeProofs` (any subnets, any number of polls) rests on `SmokeInv`: a delegate that
calculates belongs to a process that has passed every step, a container exists only
after it was noted, and each resource exists only between the places that make and
remove it. From it `ScriptsCleanUp`, `PassesAreEarned` and `ReadinessIsProved`;
`SmokeTypes` is a separate induction.

The types of `Science`, `Quota`, `SourceCache`, `Prepare` and `Smoke` are proved for
every instance rather than checked by a run.

Every invariant and every action property without fairness that a run checks is also
proved. Model-checked only is liveness: `CapacityReturns`, `WaitersAnswered`,
`RequestsEnd`, `SlotsReturn`, `SmokeEnds` and the fair half of `ImplementsBoundedWork`,
which need ENABLED. Not proved either is that the definitions of the geometry stand for
shapely's, and of the zone rules for zoneinfo's: both are external.

## Not modelled

Real time and the 6 s deadline against two native passes; the text of messages,
headers and logs; field validation by pydantic; the JSON encoding of the canonical
form, with its normalisation of keys; the arithmetic of polygons beyond boxes and of
the native library; the library's identity and flags, and the digest checks of the
data files, whose outcome is a choice; the key file's format and digest comparison;
loading of the pinned zone archive; `verify_facts`, which the service never calls; the
tools that `build` runs; the single-process audit, notice and image tools, which
inspect files one after the other and share nothing beyond the cache;
`conformance/acep1.py`, a second encoder for tests; tests and documents.

## Plan

1. Abstract specifications still to state, each with its refinement: a store that
   `acquire` and `prepare` implement, in which a name never yields other bytes, and a
   metered service that `Api` implements (a reply of 200 is one charge and one finished
   calculation).
2. Lemmas that would let the proofs of `Quota` and `Api` be composed: that the indivisible
   counter of `Api` is the projection of `AtomicQuota` on one key and one minute.
