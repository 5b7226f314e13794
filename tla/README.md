# A TLA+ development for project_g

project_g finds news about a baseball team, decides which items matter, writes a
script for the best of them, speaks it and renders a video.  It is a chain of
asynchronous jobs over three shared stores: PostgreSQL rows, Redis (RQ jobs and
one lock) and media files.  Each job is a plain Python function that opens one
or two short transactions around a slow call (OpenAI, HTTP, ffmpeg).  What is
hard about it is not any one function.  It is that the same job may run twice,
late, after a crash or next to an operator's command, and that the rows, job
ids and files must still agree afterwards.  These modules model that part.

All paths below are relative to `src/src/project_g/`, jobs are functions of
`interfaces/workers/jobs.py`.

## 1. Inventory

| Component | State it keeps | Operations | Talks to |
|---|---|---|---|
| Scheduler (`interfaces/scheduler/service.py`, `lock.py`, `main.py`) | Redis lock with expiry; nothing else survives a restart | acquire, read the clock, enqueue nine kinds of periodic jobs under bucketed ids, release, wait | RQ, Redis |
| Queue provider (`infrastructure/queue/rq_provider.py`) | RQ job hashes, retries left, TTLs | enqueue with a unique id, retry, expire | workers |
| News discovery (`workflows/news_discovery.py`, `application/news/register_*`) | intake row with pending metadata, processing-job and relevance rows | collect a page, register it in one transaction, enqueue one metadata job per new item | RQ, HTTP |
| Manual submission (`interfaces/management/submit_news_url.py`, `application/news/manual_url.py`, `create_manual_intake.py`) | the same intake rows | check a link, find its source and canonical URL, register it, enqueue its metadata job | RQ; races with discovery |
| Collectors (`infrastructure/collectors/*`) | none | parse a page into items, at most `max_items`, each URL once | HTTP |
| Metadata enrichment (`application/news/complete_metadata_enrichment.py`, `process_news_metadata`, `set_news_metadata`) | `news_article_metadata`, `news_processing_jobs` | extract, mark unavailable or failed, enter by hand | relevance job |
| Relevance and priority (`analyze_relevance.py`, `analyze_priority.py`, two recovery jobs) | `news_relevance_analyses`, `news_priority_analyses` | analyse, create the priority row, enqueue the next stage, recover | OpenAI, RQ |
| Script selection (`select_news_script_enqueue_candidates.py`, `rank_candidates.py`, `domain/news/ranking.py`) | none of its own; reads script rows | rank, filter, enqueue | RQ |
| Script generation (`process_news_script`) | `news_script_generations` | prepare and claim, generate, record | OpenAI |
| Facts of a script (`generate_news_script.py`, `build_script_background_facts.py`, `collect_npb_authoritative_facts.py`, `infrastructure/background/npb_*.py`, `recent_news_context.py`) | the evidence snapshot stored with the script | choose recent news, ask for players, read schedule pages and box scores of a window | OpenAI, HTTP |
| Media production (`create_media_production_intakes.py`, `domain/news/media_production.py`) | `news_media_productions` | create, start, mark failed or ready | narration, video |
| Narration (`prepare_news_narration_audio_jobs`, `process_news_narration_audio`) | `news_narration_audio_generations` | batch, claim, reuse or synthesize, store, check ownership, record | OpenAI, audio store |
| Video (`prepare_news_video_jobs`, `process_news_video`) | `news_video_generations` | batch, claim the expected attempt, verify audio, render, store, conditional record, mark READY | ffmpeg, video store |
| Artifact stores (`infrastructure/storage/local_audio.py`, `local_video.py`) | one file per key | get, write (temporary file, fsync, link, fsync of the directory) | narration, video |
| Sources and seeding, metadata extractors, model clients, renderer, health API, settings | static or none | network, parsing, formatting | |

What makes each of them correct, and where it is hard:

* **Scheduler.** One job per kind and time bucket although several instances may
  run, an iteration may stall beyond the lock's 30 s, and processes are
  restarted; a drifting iteration must not leave buckets out for long.
* **Discovery.** A page registered in one transaction is enqueued item by item
  afterwards.  Nobody but the registrar may enqueue an item, since its
  `DuplicateJobError` is not caught.
  Two pages that list the same new articles in different orders make two
  transactions wait for each other on the unique index.
* **URLs.** An intake is known by its canonical URL.  Collectors and the resolver
  of submitted links make it in different ways, and one article under two URLs
  is told twice.
* **Collectors.** Repeated links, pictures without a title and undated anchors
  must neither use up the limit nor hide a later anchor of the same article.
* **Metadata.** The flush of SQLAlchemy writes only the columns that changed in
  the session, so two writers can leave a mixture of their rows.  The job row
  must tell the status of the metadata row.
* **Analysis.** The next stage is enqueued after the commit of the previous one;
  a process that dies in between leaves work only the recovery jobs can find.
  The OpenAI call happens inside the transaction.
* **Script selection.** The ranking is read once, the rows one by one while
  workers change them; the score travels with the job and must be the row's.
* **Script jobs.** A row left GENERATING is not selected again; only a job that
  exists already can end it, through retries of two kinds.
* **Facts.** A script may be written long after its article, but must not know
  more than was known then, and must find all games of a window that spans the
  turn of a month.
* **Generation rows** (script, narration, video share the protocol).  A row is
  claimed by one UPDATE that takes waiting, failed or stale rows; a run that
  still works when its claim has gone stale must not spoil the next attempt.
  `__post_init__` of the domain objects is run on every read: a row that breaks
  it (for example `completed_at < started_at`) can never be read again.
* **Narration and video together.** They write the same media row without a
  lock.  READY must mean a complete production and stay.
* **Artifact stores.** A file appears under its key completely or not at all,
  once, and stays, across crashes between any two system calls.

`PROJECT.json` lists these hazards at their lines with the properties that
would catch them.

## 2. The modules

| Module | Models | State and actions in terms of the code |
|---|---|---|
| `GenerationRow` | the columns and the transitions the three generation tables share | `Rows` are the columns that matter; `Claimable`, `Claimed`, `Succeeded`, `FailedRow` are the claim statement and the domain transitions; `WellFormed` is `__post_init__`; `Flushed(row, seen, new)` is the flush of changed columns |
| `MediaRow` | `domain/news/media_production.py` | `Started`, `MarkedReady`, `MarkedFailed`, `MediaWellFormed` |
| `ScriptGeneration` | `process_news_script` | `Claim` is transaction 1, `Generate` the call, `Settle`, `ReadRecord` and `Flush` transaction 2 split at its reads, `Crash` a death anywhere; `overwritten` remembers that a run has written into an attempt that is not its own |
| `NarrationAudio` | `process_news_narration_audio` | `ReadParents` and `ClaimAudio` are the two halves of transaction 1; store, speech and write; `CheckOwner`, `Settle`, `ReadRecord`, `Flush*` the write-back; `overwritten` as in `ScriptGeneration`.  Actions only: the clock, the video stage and the specification are `MediaPipeline`'s |
| `VideoGeneration` | `prepare_news_video_jobs`, `process_news_video` | the claim names the expected attempt; the write-back is a read and a conditional UPDATE |
| `AttemptLedger` | no code: what a claim protocol promises | numbered attempts, one holder each, only the latest may end |
| `MediaPipeline` | narration and video on one production | composes the two through the shared media row, audio row and audio file: `AudioStage` and `VideoStage` are `NarrationAudio`'s and `VideoGeneration`'s steps; without a renderer it is narration alone |
| `ArtifactStore` | `local_audio.py`, `local_video.py` | one action per system call; `MakeDirectory` creates the directory of the key and syncs nothing; `HostCrash` loses what was not synced: a file, its link, or a new directory with all that is in it |
| `MetadataEnrichment` | the metadata and job rows under two writers | load, check, read again, flush |
| `ArticleUrl` | `manual_url.py` and the URL patterns of both collectors | `CollectorUrl` is what a collector makes of a link; `Accepted`, `ResolvedSource`, `ResolvedUrl` are the checks and results of the resolver, over `Catalogue` |
| `NewsCollection` | the parsers of both collectors | `Scanned` is one iteration of the loop over anchors, `Parsed` the recursive function that is the loop; `FirstComplete` says what a parser is for |
| `NewsDiscovery` | discovery runs and submissions | `Collect` or `Submit`, then `FindDuplicate` and `Insert` item by item in one transaction, `Commit`, `Enqueue` one by one; `WaitsFor` is PostgreSQL's wait at the unique index; `Abort` is anywhere, also as the victim of a deadlock |
| `NewsAnalysis` | the three analysis stages of one item with their RQ jobs | one transaction per stage, then the handover; recoveries; retries and TTLs of RQ |
| `AnalysisRuns` | the inside of the relevance and priority transactions | read, analyser, read again, write; `overtaken` remembers that a relevance run has overwritten a decision another one had committed |
| `NewsRows` | the rows of one intake under all their writers | composes `MetadataEnrichment` and `AnalysisRuns`: a run begins on metadata that is ready and loadable |
| `ScriptEvidence` | from an article to the facts its script is told with | `RecentContext`, `PlayerCandidates`, `Months`, `GameUrls`, `Usable`, `GameFacts`, `Deduplicated` are the functions of the code.  Facts are sets, as nothing depends on their order; recent news are in the order of the query (latest first, then by id), since the selector answers with indexes |
| `ScriptRun` | `ScriptGeneration` with the network part of a run | `ReadContext`, `FetchGames`, `Answer` between the claim and the write-back, while time goes on; `snapshot` is the evidence column |
| `ScriptJob` | the script jobs of one article in RQ | `Select` by the ranking; a run claims, meets a fresh attempt and returns `Retry`, or raises; `Die`, `GoStale`, `Due`, `Expire` |
| `NewsChain` | one intake from its metadata job to its script | composes `NewsAnalysis` and `ScriptJob`: the ranking lists what is analysed |
| `RankingPolicy` | `relevance_policy.py`, `domain/news/ranking.py` | decision, freshness, ranking score and order as arithmetic |
| `ScriptQueue` | `enqueue_ranked_news_scripts` against script workers | ranking, examination, enqueue, buckets |
| `NarrationQueue` | the two batch jobs, the narration jobs and RQ | job ids by attempt number, limits, retries (`QueueSpec`, `FairQueueSpec`) |
| `Scheduler` | `SchedulerService`, the lock, `main` | acquire, read clock, enqueue, release, wait, expiry, fail, crash, restart |
| `*_proofs` | theorems and their lemmas, see section 4 | |
| `MC*` | constants and symmetry for TLC | |

Conventions.  Definitions whose comment begins "Mutated form of" are wrong on
purpose: a definition of the model with a plausible mistake in it, kept to show
that the property named with it in `PROJECT.json` notices.  Nothing else uses
them.  A text, an audio file or a video is the number of the attempt that made
it.  Clocks are numbers; one process clock is assumed for all processes (one
host in `docker/compose.yaml`).  Database steps are split wherever READ
COMMITTED lets another transaction in and joined where a row lock is held.
`TypeOK` is stated in every stateful module to document its variables; where the
types matter to a proof, it is a theorem.

**Grace.**  `rq_job_timeout_seconds` is both the time after which RQ interrupts
a run and the age at which a claim may be taken over.  RQ interrupts with an
exception, which the jobs catch with `except Exception` and handle by writing a
failure, and kills the process a minute later.  So a run can still be at work
when its claim has become stale.  `Grace` is how long: 0 says a run is over in
time, 1 lets it outlive its claim by one unit.  Every run of a row protocol checks
`Grace = 1`, and every theorem about one holds for any `Grace`.  `NarrationQueue` and
`ScriptJob`, which are about job ids and retries, leave late runs out: there a claim goes
stale only when its run is over.

A late run of a script, and a narration run that loses its attempt between the
ownership check and the UPDATE, may write into an attempt that is not its own.
The code does not prevent it, so the models do not either.  The history variable
`overwritten`, which no action reads, becomes TRUE at that write, and what the code
promises only up to there says so with `\/ overwritten`.  No late run as such is excepted, only
one that has *written* into another's attempt.  Unconditional are the ranking score,
the facts of a script, the hash of the narration, the audio a video names, that
media and video rows are loadable, that READY means a finished video, and everything
about a video's own row.  Sections 6 and 7 say what happens after such a write.

## 3. The runs

| Run | Question | Properties |
|---|---|---|
| `MCScriptRun` | Do two script runs with crashes, retries, takeovers and late finishers keep the row sound, and tell what was known, no more and no less? | `RowStaysLoadable`, `LiveRunOwnsAttempt`, `RankingScoreIsFixed`, `GeneratedScriptIsFinal`, `KeepsLedger`, `NothingFromTheFuture`, `NoOutingMissed` |
| `MCVideoGeneration` | Does the video protocol, late runs included, implement the ledger and make READY mean done? | `ImplementsLedger`, `ReadyIffGenerated`, `RunsHoldTheirAttempts`, `RowsStayLoadable`, `ReadyIsFinal` |
| `MCMediaPipeline` | Is a READY production whole, and left alone, when both stages work on its rows and two narrators overlap and are late? | `StoredHashIsOfArtifact`, `ProductionStaysLoadable`, `ReadyIsComplete`, `VideoNamesCanonicalAudio`, `ProductionIsFinal`, `NarrationKeepsLedger` |
| `MCLostOwnership` | Does a narration run persist its result only while it owns the attempt?  It does not: the run ends with a counterexample | `OnlyOwnerPersists` |
| `MCArtifactStore` | Does a key hold one whole artifact across races and failures? | `NeverPartial`, `CreatedIsDurable`, `ReportsAgree` |
| `MCNewsDiscovery` | Are the articles of a page collected, registered once and given their job by one run, while discoveries and submissions race, wait for each other and abort? | `CollectsFirstComplete`, `OneIntakePerArticle`, `StoredUrlsResolve`, `EnqueuedByRegistrarOnly`, `NothingForgotten` |
| `MCMetadataRace` | Can the worker and an operator leave a row that cannot be loaded?  They can: the run ends with a counterexample | `MetadataStaysLoadable` |
| `MCNewsRows` | Do job row, metadata, decision and priority agree under all their writers, overlapping relevance and priority runs included? | `JobFollowsMetadata`, `PriorityMatchesRelevance` |
| `MCNewsChain` | Is an item analysed and its script written, whatever job ids are taken, while up to two runs die? | `NewsGetsAnalyzed`, `AbandonedScriptsEnd`, `ScriptsGetWritten` |
| `MCScheduler` | Is each slot enqueued once and the lock never lost to another's release? | `EachSlotOnce`, `OverlapOnlyAfterExpiry`, `NoTwoBucketsSkipped` |
| `MCScriptQueue` | Are the best candidates chosen, nobody left out but for better ones, each at the score of its row? | `BestAreChosen`, `RowsReachedTheBar`, `RetriesKeepTheScore` |
| `MCNarrationQueue` | Is every generated script narrated at last, one narrator at a time? | `OneNarrator`, `NoJobAhead`, `ScriptsAreNarrated` |

The largest is `MCNewsRows` with 2,374,486 distinct states, in about two minutes;
`MCScriptRun` and `MCMediaPipeline` have 1.7 and 1.3 million.

### Bounds

* Two workers per stage (three in the artifact store, where a third caller can
  find what two others raced for; one renderer beside two narrators in `MCMediaPipeline`,
  since `MCVideoGeneration` has two).  Every hazard above needs a pair: the run
  that holds an attempt and the one that takes over.
* `StaleAfter = 2` and `MaxTime` 3 to 6: an attempt can be started, go stale, be
  taken over and go stale again; the boundary instants `started + StaleAfter`
  and one unit to either side occur.  `MaxAttempts` 2 to 4 lets a takeover be
  followed by a retry.
* `MCScheduler`: one unit is 30 s; lock 1, interval 2, a bucket of 2, an iteration
  of at most 1.  `ResultTTL = 3` is the least value that satisfies the assumption
  of theorem `SlotsAreUnique` (`ResultTTL >= Interval + MaxRun`); with 2 the run
  finds a second job for a slot.  `MaxTime = 7` covers three whole buckets and
  the wait between two of them that is left out.
* `MCScriptQueue`: four articles chosen for the boundaries (a freshness that drops
  while waiting, a tie, the 48-hour limit, no date), limit 2, two buckets.
* `MCScriptRun`: a day is two ticks and the window three days, so that it spans a
  turn of the month; an article of the first half of day 0; seven games, at both
  ends of the window and outside, finished before the article, after it and past
  midnight, on both schedule pages, of other teams, with a pitcher listed twice;
  news before, after, stored late, too old, and two of the same instant, one more than the
  context may hold; a schedule page or box scores that are
  down.  `MaxTime = 4` lets a first attempt go stale and a second one run when the
  games of after the article are over.
* `MCNewsDiscovery`: two discoverers and one operator.  The two pages list the same
  articles in opposite orders, so that the runs can wait for each other; they hold
  repetitions, pictures, undated and badly dated anchors and one item more than
  `MaxItems = 2`.  The operator submits what the pages list, and links to refuse.
  Both collected sources are enabled here, although the catalogue pauses one.
* `MCNewsChain`: one retry per job, two script jobs at a time with two scores, and
  two runs that die: the second may be the one that took over from the first.  That the ranking waits for the analysis jobs to be gone
  (`StagesOver`) only bounds the states: they touch nothing the script jobs read.
* `MCNewsRows`: one worker, one operator, two relevance runs and two priority runs,
  scores to either side of each threshold.
* `MCNarrationQueue`: two productions and a batch limit of 1, so that one has to
  wait for the other; two failures, so that a production can use up its retries.
* `MaxFailures` and `MaxHostCrashes` bound how often things go wrong, not where.

`CHECK_DEADLOCK FALSE` appears where the system comes to rest (everything is
done and the clock has reached its bound).  `MCNewsDiscovery`, `MCArtifactStore` and
`MCScriptQueue` are checked for deadlock.

### Fairness

Liveness is checked in `MCNewsChain` and `MCNarrationQueue`.

* Weak fairness of the steps of RQ (a queued or scheduled job is started, a
  hash expires), of the batch, selection and recovery jobs, which the scheduler
  enqueues every few minutes, of the passing of time, and of a run, which its
  timeout ends at the latest.
* Strong fairness for a job that is queued again and again (the queue is first in,
  first out), for a batch job that is repeatedly possible, and for an analyser or
  a script model that is asked again and again and answers at last.

Nothing forces an operator, the metadata stage, a handover between stages or the
ranking to act, and that a process dies is never owed.  In particular
the liveness of the analysis rests on the recovery jobs alone.  The liveness of a
script is conditional, because the code gives no more: a row that a dead run has
left needs a job in line for it, and `ScriptsGetWritten` excepts the article that
has none (section 7).

## 4. The proofs

All theorems are checked by the proof system for every value of the constants that meets
the `ASSUME`s of the modules, any `Grace` included, and under the hypothesis each states.  Every invariant and
every action property of the passing runs is the conclusion of one of them.

| Module | Proves about | Theorems |
|---|---|---|
| `Generation_proofs` | `GenerationRow`, `AttemptLedger` | lemmas on the transitions of a row; `LedgerCorrect` |
| `MediaPipeline_proofs` | `VideoGeneration`, `NarrationAudio`, `MediaPipeline` | types, rows, READY, ownership, three refinements |
| `ScriptRun_proofs` | `ScriptGeneration`, `ScriptEvidence`, `ScriptRun` | types, rows, ownership, facts, two refinements |
| `MediaSupport_proofs` | `ArtifactStore`, `NarrationQueue` | the artifact of a key; one narrator, no job ahead |
| `NewsDiscovery_proofs` | `ArticleUrl`, `NewsCollection`, `NewsDiscovery` | registration, parsers, canonical URLs |
| `NewsRows_proofs` | `AnalysisRuns`, `MetadataEnrichment`, `NewsRows` | decision, priority, job and metadata |
| `ScriptQueue_proofs` | `RankingPolicy`, `ScriptQueue` | ranking, selection, scores |
| `Scheduler_proofs` | `Scheduler` | slots, overlap, coverage of buckets |

### The ledger and the generation rows

`LedgerCorrect`: an attempt has one holder at most and the result is the latest attempt's.
The lemmas of `Generation_proofs` say that the transitions stay in `Rows`, that claiming
and ending keep a row loadable, and that a flush over an undisturbed row is the new row.
The three protocols implement the ledger, each for its own reason:

* *Video* (`Refinement`, and `PipelineRefinement` with the narration in front): every step of
  the code is one of the ledger's, because the UPDATE compares status and attempt.
* *Script* (`LedgerIsKept`, `RunLedger`) and *narration* (`NarrationRefinement`): their UPDATEs
  compare nothing, so the ledger is not implemented outright.  `KeepsLedger` and
  `NarrationKeepsLedger` say that the write into an attempt that is not the run's own is the
  one kind of step that is not the ledger's: until the first of them every step is.

### Video alone

For any workers and timeouts.  `TypeCorrect`; `Invariance` of the inductive `Inv`,
which joins types, loadable rows, READY-iff-GENERATED and "every claiming run has a number
of its own, not above the row's, and the row's number only if the claim was its own".  The
last part is what `ReadyIffGenerated` lacks: the conditional UPDATE compares status and
attempt, and only distinct numbers make that comparison identify the run.  From it
`AttemptsAreExclusive`, `RowsLoadable`, `ReadyMeansGenerated`, `ReadyStaysReady`.

### Narration and video together

* `CanonicalNarration`: the audio row's hash is that of the stored file.  The
  invariant `NarrationIsCanonical` says it of the row and of every run that is on its way to
  the flush; the file is created once, so a step of another run cannot falsify it.
* `PipelineInvariance` of `PipelineInv == Undisturbed /\ (InOrder \/ overwritten)`.
  `Undisturbed` is what no narration run can break, however late: types, the invariant of the
  video protocol, `NarrationIsCanonical`, and `VideoAfterSource` (a video row names the
  artifact, and without one nothing of a video exists).  `InOrder` holds until a run has
  written into an attempt that is not its own.  Its `NarratorsOwn` speaks of the runs that own their attempt:
  the row has the start of their claim, what they have read is still there, and what they are
  about to write is an end of it.  A run may lose its attempt between any two of its steps;
  it then falls out of `NarratorsOwn`, and its flush, if it comes to one, sets `overwritten`.
  `SourceAfterNarration` says why the audio stage
  cannot disturb the video stage: a video exists only for a GENERATED narration, and
  nobody owns a GENERATED narration any more.
* `CanonicalSource` follows from `Undisturbed` alone.  `ReadyComplete`, `ProductionLoadable`
  and `PipelineReadyStays` follow from both: what they say of the video row and the files, and that the media row can be loaded, is
  unconditional; what they say of the audio row, and that a READY media row stays, holds until
  `overwritten`.

### Scripts and their facts

* `TypeCorrect` and `ScoreFixed` are unconditional.  The inductive `Inv == TypeOK /\ (Sound \/
  overwritten)` says that, until a late run has written into an attempt not its own: busy runs
  have distinct numbers, a run that is in time owns the row, an owner prepares an end of its
  own attempt, and the row is loadable.  Late runs are part of it: they keep their number,
  and since it is not the row's any more they are not owners.  `RowLoadable`,
  `LiveRunsOwn`, `ScriptOwnsAttempt`, `GeneratedIsFinal` and `LedgerIsKept` follow.
* `RunImplements`: runs that collect facts implement the protocol without them, so all of the
  above holds of `RunSpec` (`RunRowLoadable`, `RunOwnsAttempt`, `RunScriptIsFinal`,
  `RunScoreFixed`, `RunLedger`).
* `FactsAreTimely`, from the invariant that every fact a run holds or has
  stored is of news published by then or of a game whose shown end is not later;
  `ContextIsRecent`, since `Newer` orders recent news strictly and totally, so that every
  index of the list has exactly one candidate; `OutingsAreTold`, since the months of the
  schedule pages that are read span the window (`MonthAssumption`: months are numbered through
  the years and do not decrease).

### Store and narration queue

* For any number of processes, contents and failures of the host: `Whole`, `Durable` and
  `Agreement`.  The invariant says that what is linked has been synced before, and that a
  call between its link and its return still has its own content under the key; a hard link
  that never replaces a file keeps it so.  `Durable` speaks of a directory that stays: a call syncs
  the entry of its file in the directory, and nobody the entry of a directory just made.
* For any productions, limits, retries and failures: `QueueTypeCorrect`, `NarratorIsAlone`,
  `JobsAreDue`.  What the two properties lack to be inductive: a run only goes on in a started
  job, the batch has read no attempt beyond the next (`NoBatchAhead`), and an attempt beyond
  the first costs a failure (`AttemptsCost`), which bounds the numbers of the job ids.  That a
  speaking run's row is not stale is part of `OneNarrator`, and a claim needs a stale row.

### Discovery

* For any runs, pages, links and limits: `OneRegistrar` and `NoneForgotten`.  The inductive
  invariant gives every run the URLs it *holds* (inserted, or committed and not yet
  enqueued): no two runs hold the same one, what is held before the commit is not committed,
  what is held after it is committed and has no job.  That two transactions do not both insert
  a URL rests on the wait at the unique index alone; how the items were collected plays no part.
* `ParsersAreRight`: for any page and limit the loop of a parser collects what `FirstComplete`
  says.  The induction over the anchors is written out with a smallest counterexample
  (`SmallestOf`, `UpTo`), because the induction theorems of the library take an operator as a
  parameter.
* `FirstCompleteCollected`, `UrlsResolve`, `OneIntake` from the invariant `Origins`: every
  intake comes from an anchor of a page or from an accepted link, and `CollectorUrl` and
  `ResolvedUrl` agree where both apply.  Assumed: pages and paths are sequences, and no source
  of the catalogue is at a private host (`HostsAssumption`; the catalogue is a constant of the
  code, and the runs evaluate it).

### The rows of an intake

* `TypeCorrect`, `PriorityIsOfDecision` and, among all writers, `PriorityIsOfDecisionInRows`, for
  any number of relevance and priority runs that overlap in any way.  The invariant says which
  row each open transaction has read and, until a relevance run has overwritten
  the committed decision of another (`overtaken`), that the decision stands.  Redelivered,
  repeated and losing runs do not set `overtaken`; section 7 says what does.
* `JobTellsTheTruth`, with one enrichment run and one operator at a time (`OneWorker`: the job of an
  intake has one id and RQ gives a job to one worker, unless it takes a run for abandoned that
  still goes on; `OneOperator`: entering metadata is a command typed by hand).  More of
  them break it (section 7).  The metadata row
  itself may become a mixture (section 6), so the invariant speaks of its status alone: what
  each transaction may find changed since it has read, and with what job status it will end.

### Selection of scripts

`RankingIsTotal`: the sort key orders any articles strictly and totally, the undated and those
of equal scores included.  `TypeCorrect`; `BarIsReached` and `RetriesAreAccepted`, from the
invariant that a job's score has reached the bar and, if the row was known at the selection,
is the row's.  `BestAreSelected`: the candidates handed to the queue are in the order of the
ranking, and an article that qualified and has no row was left out only for `Limit` better
ones.  Its invariant says that the articles before the index of the loop are chosen or
have a row, and that rows do not go away.  For any articles, limits, dispatchers and time buckets.

### Scheduler

For any number of schedulers and kinds, `TypeCorrect` and:

* `SlotsAreUnique`, provided every `Interval[k] + MaxRun <= ResultTTL` (`HashOutlivesStall`; the
  default TTL is an hour, but it may be configured).  The invariant: a job was posted after
  its bucket began, and its hash is there until `ResultTTL` has passed; an iteration that still
  enqueues for the bucket has read its clock at most `MaxRun` ago.  The lock plays no part.
* `OverlapsAreLate`: until its lock has expired, an iteration holds it under its own token.
* `BucketsAreCovered`, provided an iteration takes half of the wait at most
  (`IterationsAreShort`: the wait is a minute by default, an iteration a dozen calls of
  Redis).  It is needed: in `MCScheduler` with `MaxRun = 2`, an iteration as long as the wait,
  TLC finds two buckets left out.  The invariant, while nothing fails: whoever waits has, at most a wait and an iteration ago,
  seen an iteration to its end or another one running, and who runs was covered when it began.

### Only model-checked

* All liveness: `NewsGetsAnalyzed`, `AbandonedScriptsEnd`, `ScriptsGetWritten`,
  `ScriptsAreNarrated`.  Fairness and ENABLED are beyond the prover here.
  `NewsAnalysis`, `ScriptJob` and `NewsChain` are there for it, so nothing of them is proved.
* `MetadataStaysLoadable` and `OnlyOwnerPersists`, which fail (section 6).
* Nothing is claimed, by a run or a theorem, for the row of a script or of a narration after a run
  has written into an attempt that is not its own, nor for decision and priority after
  a committed decision has been overwritten (section 7).

## 5. What is not modelled

Metadata extractors and the HTTP client, the clients of the language and speech models
and the renderer (network and parsing: their outcome is an input; redirects and
failed requests of a collector end a run and change nothing), the health API (reads
only), and the settings (their values are the constants).  Of the sources the
catalogue is modelled, the seeding of it and changes of a source's status are not.
Of the facts of a script the statistics and their wording are left out.  The text of
titles and links is a model value; how a link is split into its parts is taken as given.
A failure of Redis in `submit_news_url` is an aborted run: saved and not queued.
RQ's cancel, fetch and statistics calls.  In the modules of one
production the speech and video configuration never changes; several productions
meet only in `NarrationQueue`.  A database failure is a failed transaction; a
partial loss of the database is not considered.

## 6. Where the code and its words disagree: checked

`MCMetadataRace`.  `domain/news/article_metadata.py` rejects rows in which
"unavailable or failed metadata must not include article data" (line 258) or
"completed metadata must not include a failure reason" (line 252) is violated.  The
worker and `set_news_metadata` can both read PENDING; each flush writes the columns
that changed in its own session; the row ends with the status of one and the data of
the other, and every later read of it raises.

`MCLostOwnership`.  `process_news_narration_audio` promises "Persist failure only if this worker
still owns the same durable attempt" (`jobs.py:1135`) and "Persist GENERATED only if
this worker still owns the claimed attempt" (`jobs.py:1199`).  It compares the attempt of the row
it reads (`jobs.py:1141`), and nothing locks that row: another run may claim it
before the UPDATE, which does not repeat the comparison.  The trace: a narrator fails when its claim is just stale
and passes the check, another one claims the row, and the first one writes its failure
into the new attempt.  The UPDATE of a video does compare
(`news_video_generations.py:137`).

## 7. Further observations

Met while modelling and reproducible by a change of constants.  They are not runs.
Where a theorem has a hypothesis, the observation that goes with it is here.

* *Late script run* (`jobs.py:1465`).  A script run records its result without asking whether
  the row is still its own.  Once it has written into a later attempt, its completion
  time is before the start of that attempt, and "completed_at must not be earlier than
  started_at" (`domain/news/script_generation.py:329`) makes the row unreadable.
  `WellFormed(gen)` without `\/ overwritten` fails in `MCScriptRun`.
* *Lost narration* (`jobs.py:1141`).  After the write of section 6 the audio row can be
  FAILED, claimed anew or unreadable although its video is READY, and a narration claimed
  anew takes the media row of a READY production back to PROCESSING: the last conjunct of
  `ReadyIsComplete`, `WellFormed(audio)` and `ProductionIsFinal` fail in `MCMediaPipeline`
  without `\/ overwritten`.
  The video and its source do not suffer: the artifact under the key stays.
* *Stale media row* (`jobs.py:1598`, `jobs.py:1740`).  In `VideoGeneration` with
  `Grace = 1` action `RecordRaises` is reachable by the run that owns the attempt: the
  media row it read before its claim said PROCESSING, and a late run has recorded
  FAILED meanwhile.  The finished video is rendered again.
* *An existing artifact may not be durable yet* (`local_audio.py:84`).  A call that
  finds the linked file returns it although its writer has not synced the directory;
  a failure of the host in that moment loses it.  `CreatedIsDurable` is therefore
  about what the creating call reports.
* *A new directory is not durable* (`local_audio.py:77`, `local_video.py:58`).  `write` makes the
  production's directory and syncs the entry of the file in it (line 122), but not the entry
  of the directory in its parent: a failure of the host can lose a new directory with the
  artifact whose creation was reported, against "Durably store one audio
  artifact".  `created = {file}` without `directory` fails in `MCArtifactStore`.
* *Overlapping relevance runs* (`application/news/analyze_relevance.py:121`).  The status is
  checked on the object read before the analyser is called, and the UPDATE does not repeat it.
  Two runs that RQ delivers at once both decide, and the later commit replaces the decision,
  although "Relevance analysis can only transition from pending"
  (`domain/news/relevance_analysis.py:134`).  A priority rated for the first decision then stands
  beside the second: `PriorityMatchesRelevance` without `overtaken` fails in `MCNewsRows`.
* *Two operators*.  With two elements in `ManualWriters`, `JobFollowsMetadata` fails.
* *Aborted discovery* (`workflows/news_discovery.py:122`).  What a run had not
  enqueued when it died stays registered without a job; later runs see duplicates.
* *Recovery during the failure TTL* (`jobs.py:418`).  A recovery counts a duplicate
  and enqueues nothing while the hash of the failed job lives, by default a week.
* *Two intakes for one article.*  The Giants pattern admits `/news/123` and
  `/news/123/` (`giants_official_news.py:28`), and nothing makes these one canonical URL.
  The resolver keeps the parameters of a submitted link that are not tracking
  parameters (`manual_url.py:259`), which the collectors drop: hence the first
  conjunct of `OneIntakePerArticle`.
* *Undated Giants anchors.*  An anchor without a date in its card takes the first date
  of the list around all cards (`GiantsDate`).
* *A source that was enabled by hand.*  `submit_news_url` seeds the catalogue
  (`submit_news_url.py:103`), and seeding raises `InitialNewsSourceConflictError`
  (`seed_sources.py:57`) when a row differs from it: enabling a paused source in the
  database makes every submission fail.
* *Stranded scripts* (`select_news_script_enqueue_candidates.py:60`).  The selection passes over a
  row that is GENERATING, so one that a dead run has left needs a job that exists already.
  One death of a run whose job has no retries left strands the row for ever.  So do two
  deaths: the job in line has used its `Retry` up, another claims the stale row first, and dies.
  Hence "unless another run dies" in `AbandonedScriptsEnd` and the exception in
  `ScriptsGetWritten`.
* *Abandoned transactions.*  Two runs that wait for each other at the unique index
  are a deadlock that PostgreSQL ends by aborting one of them; the code has no retry
  for it.  `MCNewsDiscovery` lets any run abort anywhere, and states nothing about when.
* *Starved recoveries* (`jobs.py:392`, `jobs.py:484`).  The recovery jobs read the first
  `limit` pending rows and count those with a duplicate job id among them; enough rows
  whose failed job's hash is kept keep the later ones from being recovered.
* *Games past midnight* (`npb_game.py:125`).  The end of a game is the date in its URL
  with the time of day shown, so a game that ends after midnight is dated a day too early
  and may be told in a script of an article that appeared before it was over.
* *Result TTL*.  `rq_result_ttl_seconds` may be configured as 0; `SlotsAreUnique`
  needs it to cover a bucket and an iteration.

## 8. Plan

Done in this order: the row protocol with script and video, the ledger and its
refinement; narration and the pipeline; the stores; analysis and discovery;
scheduler; the two queues; their first proofs.  Then the URLs, the collectors and the
submissions with the waits of their transactions; the rows of one intake under all
their writers; the facts of a script; the script jobs and the chain from an intake to
its script; the proofs about the stores and the discovery.  Then the proofs of every
invariant and action property that the passing runs check, and the relation of all
three generation protocols to the ledger.  Last, the properties of scripts, narration and
analysis were restated and proved for runs that are late and runs that overlap, in place of
assuming them away, and the artifact store got the directories it makes.

Next, in order:

1. The analysis stages with their queue (`NewsAnalysis`, `ScriptJob`): they are checked for
   liveness only; their safety (one started run per job hash, no handover before its commit)
   is worth stating and proving.
2. The limits of the recovery jobs and of `prepare_news_video_jobs` over several items.
3. The batch of `prepare_news_narration_audio_jobs` with a row that cannot be loaded.
4. Seeding, and sources whose status changes while discoveries run.
