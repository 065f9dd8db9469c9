# SwiftLoad in TLA+

A verification development for SwiftLoad, a resumable multi-connection HTTP
downloader (`crates/swiftload-core`, with a command line in
`crates/swiftload-cli`). The engine's promise is narrow and hard: whatever
servers, disks, crashes and users do, a file published under its final name is
complete, and a download that was interrupted goes on from what is really on
disk. The modules here model the parts that carry this promise, TLC checks them
on small instances, and TLAPS proves the central theorems for every value of
the constants.

## The system

| part | state it keeps | operations | who it talks to |
|---|---|---|---|
| writer task (`task/writer.rs`) | `done`, pending chunks, bytes since the last checkpoint | Data, Sync, Finish messages; flush; durable checkpoint | bounded channel from workers and `download()`, the part file, the store |
| range record (`util/intervals.rs`) | sorted disjoint spans | insert, remove, truncate, rewind, queries, encode/decode | writer, plan, store |
| plan (`task/plan.rs`) | free list and live claims behind a mutex; each claim's atomic cursor, end, active | seed, request (with stealing), release, outstanding | workers, `drive()` |
| workers (`task/worker.rs`) | the claim being streamed, attempts | run, fetch_claim, stream_once | plan, writer, server, cancel and retire tokens |
| driver (`task/mod.rs`) | join set, retire tokens, governor, fatal error | download, drive, retire_down_to | everything |
| governor (`task/governor.rs`) | phase, target, ceiling, measurement windows | observe, endgame_target | `drive()` |
| identity check (`task/identity.rs`) | none | compare, choose_windows, finalize, validate_replacement_url | probe, part file, command line |
| probe and HTTP (`task/probe.rs`, `http/`) | none | probe, interpret, classify_status, parse_content_range, redirect rules | server |
| test server (`swiftload-testserver`) | the scenario of a route | serve, body_stream | probe, workers, identity check |
| store (`store/`) | one SQLite row per download, URL history, host profiles | insert, checkpoint, set_status, mark_clean, swap_url, resume_state | writer (through a sink), command line |
| part file (`fsx/`) | `<name>.slpart`, preallocated | open_part, write_at, ensure_space, finalize | writer, `download()` |
| command line (`swiftload-cli`) | none | get, resume, refresh-url | store, `download()` |

What is hard: every worker, the writer, the driver and two blocking calls per
checkpoint run concurrently; the mutex of the plan does not cover all accesses
to a claim; the process or the machine can stop between any two steps; channels
close and tasks are aborted while messages are in flight; a server can stop
early, stay silent or lie. `PROJECT.json` lists the hazards one by one, each at
its line, with the properties that would catch it.

What makes each part correct:

* writer: a record never claims bytes that are not durable; what a session
  believes is done is in the file; `finish()` reports every accepted chunk, and
  answers; a full queue moves again.
* range record: the span arithmetic is the arithmetic of sets of bytes, and the
  canonical form on which queries rest is kept.
* plan and workers: no byte falls between the free list, the claims and the
  tails being given back; exhaustion means completion; workers stop.
* driver: an undisturbed download completes; a stopped one is resumable; the
  last worker is never retired.
* lifecycle (store, command line, part file): only a complete file of one
  version is published; a row never claims more than its file holds; a crash at
  any point leaves a download that can be resumed.
* governor: it never exceeds its ceilings, never reacts to a rate limit by
  growing, and settles.
* identity: a replacement URL is accepted only on evidence about bytes that are
  on disk.

## The modules

| module | what it is | composed from |
|---|---|---|
| `Writer` | the writer task, page cache, store row, kills and power losses | implements `Progress` |
| `Progress` | abstract: a durable claim | |
| `RangeSet` | span arithmetic and its encoding | |
| `Segments` | the arithmetic of the plan | |
| `Claims` | abstract: what `drive()` may rely on from the plan and the workers | `Segments` |
| `ClaimPlan` | the plan and the workers, at the grain of single atomic accesses | `Segments`, implements `Claims` |
| `Concurrency` | abstract: what `drive()` may rely on from the governor | |
| `Governor` | the adaptive concurrency | implements `Concurrency` |
| `Drive` | `drive()` and the verdict of `download()` | `Claims`, `Concurrency` |
| `Shelf` | abstract: finished files and what is reported of them | |
| `Lifecycle` | commands, rows, part file, final names, kills of the process | implements `Shelf` |
| `Http` | headers, status classes, redirects, the probe's reading of a response | |
| `TestServer` | the adversarial test server: scenarios and responses | `Http` |
| `Identity` | does a replacement link serve the file that was begun? | `Http` |
| `Exchange` | one command's conversation with its servers | `TestServer`, `Identity` |
| `WriterProofs`, `GovernorProofs`, `ClaimPlanProofs`, `DriveProofs`, `LifecycleProofs`, `ExchangeProofs`, `RangeSetProofs` | theorems about the module in the name | |
| `SegmentsProofs` | lemmas about intervals | |

Each `MC*.tla` extends its module for TLC, and each `.cfg` next to it is one
question.

`Writer.tla` is the writer task with everything its promise depends on: the
bounded channel (`queue`), the buffer (`pending`), the record in memory
(`done`), the kernel's page cache and the disk under it (`cache`, `disk`), the
store row with the commits a power loss may bring back (`row`, `past`), and the
`download()` task that opens the part file, reconciles the record with it and
calls `finish()`. The program counter `wpc` names the await or the call the task
is at; a checkpoint is the two steps `SyncData` and `Commit`, and `Kill` and
`PowerLoss` may come between any two. A chunk is one block. The paranoid rewind
is applied on every resume: the command line clears the clean-shutdown flags
whenever it opens the store, before the flag is read (`main.rs:145`).

`ClaimPlan.tla` is the plan and the workers. The mutex is the variable `steal`:
it is taken for as long as a steal runs, and `Choose`, `Aim` and `Lower` are its
three reads and stores of the victim's atomics; `TakeFree`, `PushTail` and
`Retain` are single critical sections that wait for it. `release()` is
`Deactivate`, `ReadTail` (both without the mutex), `PushTail` and `Retain`. A
worker's slice is cut at the end it read and accepted later (`Chunk`, `Accept`),
so a steal can overtake it. Responses are their outcome: accepted, refused for
good, or worth a retry. `drive()` is left open: workers may be spawned, retired
and cancelled at any time, which covers every governor. A worker that `drive()`
aborts is one that takes no more steps. `seed()` runs before the
workers, one split per step, from every set of gaps a resume can find.

`Claims.tla` is what `drive()` can tell of them: what is unclaimed, each worker's
claim and whether the worker is idle, busy, leaving its claim or gone. A steal is one
step, everything between two deliveries is none, and giving a claim back and going on
are two, because in between nobody counts it as outstanding. `ClaimPlan` keeps it
(`ImplementsClaims`) under a mapping in which the claim of a worker in `release()` is
the one `ReadTail` has read (`GivingBack`), whatever a thief does to its end
afterwards. This is where the mutex counts: pushed back without it, a tail would
become unclaimed while a thief takes for granted that nothing is (the mutant
`MPushTail`). `Drives` is what a driver may do, and all that `Drive` does.

`Governor.tla` is `governor.rs`: one action per path through `observe()`. A
measurement window warms up, is open, or closes with some rate; a pause has
passed or not; a sample says whether the channel is full, how many errors came,
whether the probe token is ours and how many segments are left. The code's
`rate_limited` is part of it although `drive()` never fills it in.
`Concurrency.tla` is what it promises: a target between one and a limit that
never rises, every change of it announced. `Governor` keeps it under the mapping
target = `k`, limit = `ceiling` (`KeepsPromise`), so `Drive` is composed with the
promise instead of the governor's measurements.

`Drive.tla` is `drive()` and the end of `download()`: the join set, the retire
tokens in the order of their workers, the shared cancellation token, `live.conns`,
the tick in two steps (the governor's decision and the endgame check read the plan
at different moments), and then finish, verdict and publication. Its plan and
workers are `Claims`, whose variables and worker steps it uses as they are, and its
governor is `Concurrency`; both are shown to be what the detailed modules do. A
worker that panics (the join error of the code) is not modelled: nothing in a worker
does.

`RangeSet.tla` translates the operations on spans as operators on sequences,
next to the set of bytes they should denote, and drives them through every
sequence of updates. The other modules use sets of blocks; this module is why
they may. It also holds the encoding, digit by digit, with a small base in the run
and any base in the proofs. The loops of the code (the scans for gaps, the reader
of varints) are recursive functions over the round. A checkpoint that was cut short
is decoded too; that a damaged one may overflow a 64-bit position is left out.

`Lifecycle.tla` is a download across commands. `sess` is the running command
(`get`, `resume`, `refresh-url`, each continuing into `run()` and `download()`),
`rows` the table of the store, `part` the part file - does it exist, how long is
it, what is in each block: a version of the server's file or the hole that
preallocation leaves - and `published` the final names in the order `dedupe`
tries them. Every transaction of the store, the rename, the probe and the opening
of the part file are steps of their own, so that a kill can come between any two
of them; workers and writer are the one action `Fetch`, and `Checkpoint` copies
what was written to the row. All downloads have the same name in the same
directory, hence one part file: the case in which they can disturb each other.
One command runs at a time. `backed`, `died` and `trusts` are history: which rows
were recorded against the part file that is there, which lost a command to a
kill, and whether a command works from a claim that was not backed.
`Shelf.tla` is the abstract promise: a file is put under a free name and stays
there, and is reported only once it is there.

`Exchange.tla` is what one command and the servers say to each other: the
redirect loop of the probe and its reading of the response, for a refresh the
comparison of headers and then of windows of bytes, and then the claims, requests
and bodies of a worker, with retries. The servers are those of the test server
(`TestServer`), each a record of what its route does: honest, without ranges,
lying about ranges, without a length, compressing, with rotating, weak or no
tags, flaky, redirecting, expired. `Turn` lets the server behind a link change
its ways under way - another mirror, other ranges, another size, a body that
begins elsewhere than asked, or, while a worker is busy, successes without a body.
`Shrink` is what the other workers do to the claim.
A byte is the pair of a file's seed and an offset, so a block in the wrong place
and a block of another file both show.

## The runs

| run | question | bounds |
|---|---|---|
| `writer` | safety, refinement and liveness of the writer | 3 blocks, queue 2, batch 2, checkpoint every 2, rewind 1, 2 sessions |
| `claims` | is any byte lost, does exhaustion mean completion? | 4 blocks, segments of 2, 3 workers, chunks of 1 or 2 |
| `claims_live` | do workers stop, and is the plan what `drive()` takes it for? | 4 blocks, 2 workers, 1 retry |
| `rangeset` | is the span arithmetic set arithmetic? | all records over 8 bytes; varints in base 2 |
| `governor` | does the governor keep its promise, settle, and never climb back after a limit? | 8 connections, starting at 4; rates 0, 10, 11, 20; 3 stalls in a row cap |
| `drive` | caps, verdicts, and does a cancellation end the download? | 3 blocks, segments of 1, splits at multiples of 2, 2 connections, 3 workers in all |
| `drive_retire` | does one worker survive every standing down? Not always | 4 blocks, 2 connections, 2 workers |
| `lifecycle` | what do rows, part file and final names say of each other, and does resuming complete? | 2 versions of 2 and 1 blocks, 2 rows, 5 names, 1 kill, 1 failure, 1 replaced link for each row, 1 change of the part file by hand |
| `lifecycle_unbacked` | is a published file complete? Not always | 1 row, 2 kills |
| `lifecycle_mixed` | is a published file one version? Not always | 2 versions of one length, 1 interruption |
| `exchange` | are blocks where they belong, are links judged rightly, does every command end? | 7 blocks, 3 windows of 2, rewind 2, 2 redirects, 1 retry, the server changes once; the file was begun over a server with ranges or without |
| `norange` | are blocks where they belong without ranges? Not always | 1 claim, 1 server |

Why the bounds are enough. Three blocks give every coalescing case: adjacent and
apart; a block that is sent twice (`MaxOverlaps`) is left to the proof, which
covers any number of them. A queue of two fills, and holds a message behind
another. Two sessions let every record of the first, with every crash in it, be
the start of the second. Four blocks with a minimum segment of two units, aligned
to one, keep the code's ratio of 2 MiB to 1 MiB: a whole file can be split, a half
cannot, and a chunk of two can overtake a split. Three workers are a victim, a
thief and one that asks meanwhile; they are symmetric. The rates hold a gain too
small to count, one that counts, a loss and a stall, and the levels 1 to 8 hold
doublings, midpoints and a cap. In `drive` two connections with a third worker
are enough for a worker that leaves, one that stays and one that is spawned while
the first still has its connection; three blocks are seeded in two pieces, come in
two gaps, and leave a tail to steal (the only split is at 2, which keeps the instance
small; the proofs have every ratio). `ImplementsClaims` needs a thief and a victim; it
holds with three workers too, in a run too long to keep. Eight bytes hold four spans with gaps, so a middle span has
two neighbours on both sides.

In `lifecycle` two blocks are one that the rewind gives back and one that it
keeps; the file on the server is replaced once by a shorter one, before or after
a refresh (`lifecycle_mixed` has one of the same length); two rows share a part file; five names are as many
as a behaviour with these bounds can use. In `exchange` seven blocks leave
room for three windows of two that do not meet, for claims that begin at the
start and after a gap, and for a final span that is shorter than a window after
the rewind (a claim of nothing, as a `get` has, is left to the proofs: its gap is
the whole file, which only multiplies the states); the links hold every route of the test server that changes what is
said, the same with a decoy of the same size, and chains of redirects
within and past the limit.

Deadlock is not checked in the runs of `Writer`, `ClaimPlan`, `Drive`,
`Lifecycle` and `Exchange`: when a session is over, all workers have exited or
every download is complete there may be nothing left to do. The governor always
has a next sample, and `RangeSet` a next update; both are checked for it.

### Fairness

`Writer!FairSpec` is weak fairness of the writer task as a whole (the runtime
polls a ready task, and a call the kernel was given returns) and of the failure
of `finish()` on a channel whose receiver is gone (tokio wakes the caller).
Nobody is obliged to send, to crash, or to finish. `ClaimPlan!FairSpec` is weak
fairness of each worker: a chunk it waits for comes or the read-idle timeout
does, and the writer accepts a slice or is gone, which is `BackpressureEnds` of
`writer`. The wait for response headers has no timeout, so its progress is an
assumption about the server, kept apart in `ServedSpec`.

`Drive!FairSpec` assumes only that the task of `download()` runs: its ticker fires
and the writer answers `finish()` (`FinishAnswered`). Nothing is assumed of the
workers. `Governor!Spec` has no fairness: `Settles` is about a target that would
change for ever.

`Lifecycle!FairSpec` is weak fairness of the running command and of a user who
resumes what is not complete; failures, interruptions and kills are bounded, and
nobody is obliged to start a download or to replace a link. `Exchange!FairSpec` is
weak fairness of the command as a whole. That rests on the timeouts of the probe
and of body chunks, and on the same assumption about response headers as
`ServedSpec`.

### What disagrees with the documentation

Four runs show a state that a comment or a test of the code excludes.

* `drive_retire`: `retire_down_to` counts workers that were already asked to leave,
  so two calls can stand down the whole pool; unclaimed gaps then make the download
  Incomplete (the test at `mod.rs:857`: "at least one worker must survive or the
  download stalls").
* `lifecycle_unbacked`: a command that finds its part file gone forgets the progress
  in memory only (`mod.rs:247`). Killed before its first checkpoint, it leaves a row
  with the old ranges and a preallocated file, and the next resume trusts them and
  publishes zeros (`mod.rs:237`: "Trust the file, never the record"). A part file is
  gone after a kill between the rename and the status, or by hand; three `get`s of
  one name reach the same state without a kill. `HolesNeedStaleTrust` says exactly
  which downloads are exposed.
* `lifecycle_mixed`: a resume probes the link again but compares neither size nor
  validator with the row (`mod.rs:212`), and no request sends `If-Range`: a file
  replaced by one of the same length, between an interruption and the resume or
  merely between two requests, is continued (`docs/PLAN.md:778`, `errors.rs:27`).
* `norange`: without ranges the body of a plain GET is written at the cursor of the
  claim, wherever that is (`worker.rs:268`): a resume, a retry and a second worker
  all put the start of the file into a gap. `SegmentsBelong` is the part of the
  property that holds.

Further observations, which have no run of their own:

* The wait for response headers has no timeout (`worker.rs:258`), although
  `client.rs:48` says that stalls are caught by the per-read idle timeout. Without
  `ServedSpec`, `Terminates` fails.
* The probe out of the settled phase does not look at the backpressure of its sample
  (`governor.rs:434`), although the comment at 129 says of a stalled sample: "this
  blocks *growth* immediately". Two samples show it: an error burst, which
  leaves the governor in `Hold`, and, once the pause between probes is over, a first
  stalled one, on which the probe adds connections. `LimitsAreFinal` says what holds: once the stall has lasted, the level
  it lasted at is final, and what a probe adds later is never above it. A probe that
  does not pay may also settle above the level it has just measured
  (`governor.rs:363`).
* `release()` reads a claim outside the mutex, and a steal in between hands its tail
  out twice (`plan.rs:227`); both fetch the same bytes, and `NoByteLost` holds.
* A worker that was asked to stand down takes a truncated body for success
  (`worker.rs:372`); if nobody is left to take the rest the download is Incomplete,
  which `VerdictIsTrue` delimits.
* Rows left `active` by a kill are in no list that `get` consults (`store/mod.rs:271`);
  `StrandedOnlyByCrash` delimits it. The clean flag is cleared before anything reads
  it, so every resume rewinds: safe, and more careful than needed. `docs/PLAN.md`
  plans one transaction for a replaced link; there are three, and `HistoryComplete`
  says what a kill between them can cost.
* An expired link met by a resume's probe is a fatal error and ends as `failed`, not
  as `needs_attention` (`mod.rs:211`).
* `choose_windows` places windows of a fixed length without looking at span ends, so
  that a window may reach past its span (`identity.rs:210` says otherwise). It does
  no harm because the resume has given back at least a window's length
  (`NoFalseRefusal`); a final span shorter than a window has its last block unread,
  hence the condition in `AcceptedIsSame`.
* The probe calls a range answer honest if its `Content-Range` parses; where it starts
  is checked for the worker's responses only. A server that compresses in spite of
  `Accept-Encoding: identity` passes the probe as one without ranges and is refused
  by the worker (`worker.rs:313`).
* A read that fails behind the last block of a claim (a claim that a steal has cut
  short, with more of the body to come) is a failed attempt like any other: with
  attempts left the worker finds the claim done (`worker.rs:189`), without it the whole
  download fails although nothing of the claim is missing (`worker.rs:206`).
* Without ranges the end of a body is a success however short it was
  (`worker.rs:372`), so a server that answers with empty successes is asked again,
  without a delay and without counting an attempt, for as long as it does.
  `CommandEnds` names this as its one exception; without it TLC finds the loop. A
  download of unknown size has a claim without an end and loops the same way, even
  after a body that was whole.

## The proofs

All theorems hold for every value of the constants that the modules' assumptions
allow. Most of those only say that sizes and limits are naturals, positive where zero
is meaningless, and that links are scenarios of the test server, those of the file
that was begun being as long as it. Two say more: `DigitsSuffice`, that every position
has fewer digits than a varint may have (64 bits fit into ten digits of seven), and
`RewindCoversWindow`, that what a resume gives back is at least a window (1 MiB,
`config.rs:22`, and 64 KiB, `identity.rs:36`). A `THEOREM` is a
result, a `LEMMA` a step to one. In every module the argument is an inductive
invariant `IInv`, which TLC checked first.

`WriterProofs`. `TypeCorrect`; `Invariance`, and from it `CheckpointsAreDurable`,
`SessionsTrustTheFile`, `FinishTellsTheTruth`, `ResumeKeepsProgress` and
`ChunksAreNotDropped`; `Refinement`: `Spec => Progress!Spec`. `IInv` adds two
conjuncts to the properties. `Phases` ties the program counter to the data:
nothing is buffered while a checkpoint runs, and between the sync and the commit
all of `done` is on disk - without it `Commit` could not be shown to record only
durable blocks. `RecordHasFile` says that a record without a part file is empty,
which lets a resume believe the record; `Writer` does not delete part files,
`Lifecycle` does. The queue needs `NothingDropped` for every `Finish` in the
channel, because draining moves messages one at a time.

`ClaimPlanProofs`. `PlanTypeCorrect`, `NothingIsLost`, `ExhaustedIsDone`, for any
number of workers. `NoByteLost` is inductive next to the types and to `InFile`
(slices and splits are inside the file), and uses the mutex nowhere: a tail that
is handed out twice is no loss. That exhaustion means completion does need it:
`Stealing` says that a thief holds the plan while nothing is unclaimed, and
`StillThere` that what is unclaimed still has a worker that has not concluded
"exhausted". The lemma underneath (`SegmentsProofs`) is that the spans of a set
cover it; a set of naturals has a least member because the naturals are well-founded
(`LeastNat`).

`GovernorProofs`. `GovernorTypeCorrect`, `PromiseIsKept` (the step simulation by
which `Drive` may use `Concurrency` in the governor's place) and
`NothingClimbsBack`. The invariant is inductive as it stands, because it says
that the ceiling is at least the target; every action is shown to be a sound
decision (`Sound`) apart from what it learns (`Learned`). `NothingClimbsBack` needs
no more than that and one fact about every path through `observe()`: a state in which
something has limited the target to a level has its ceiling at that level
(`LimitLowersCeiling`). As the ceiling never rises again, neither does the target.

`PlanKeepsItsWord` is the refinement of `Claims`, step by step: each of the
accesses is a step of `Claims` or is not seen. It needs what `SeenInv` adds.
`Released` says what a worker in `release()` has read, and why it left its claim;
`Robbery` that whoever is about to lower an end has a victim that is still in the
list of slots, because leaving the list takes the mutex, and a split inside the
victim's claim.

`DriveProofs`. `DriveInvariance`, and from it `DriveTypeCorrect`, `CapIsRespected`
and `TheVerdictIsTrue`; and `DriveStaysOutside`, that `Drive` does to the plan and
the workers only what `Claims` lets a driver do. So the two meet in the middle:
whatever holds of `Claims` holds of the plan as it is written and of the plan as
`drive()` uses it. (They are not composed into one module: `ClaimPlan` has drivers of
its own, which start, retire and cancel at any time, and no aborts.) The
strengthenings: `Counted` (live workers are in the join set, which is what
`live.conns` counts), `Reasons` (the token is cancelled by a pause or a failure),
`Covered` (what was not fetched is unclaimed or in a claim), `Departures` (why a
joined worker left), `StillThere` (what is unclaimed still has a worker that has not
found the plan exhausted) and `Concluded` (a verdict was reached for its reason).
`CancelledComesToAnEnd` is what of `CancelEnds` can be proved: once the token is
cancelled every step of `download()` lessens `ToGo` (the stage it is at, and in it
the splits of `seed()` still to make or the workers still to join) in an order without
infinite descent (`NearerEnds`), and no step of a worker or of the user changes it. A
round of `seed()` counts as progress because it leaves one interval more
(`SeedRoundAdds`), which it does as long as no two overlap (`SeedsApart`).

`LifecycleProofs`. `LifecycleTypeCorrect`, `ClaimsAreBacked`,
`HolesTakeStaleTrust`, `FinalNamesArePaidFor`, `OnlyKillsStrand`, `KillIsNoticed`,
`HistoryIsKept`, and `LifecycleImplementsShelf`. `Session` says what a command
knows of its row at each step, `Backing` that backed rows have a part file,
`Trust` that without a kill, a change by hand and a second row whatever a resume
would start from is backed, `Offers` that a row outside the lists belongs to the
running command or to a killed one. `Once` counts final names together with the
one a row may still be due (`Due`): the count alone is not inductive, since a
rename uses up what a replaced link or a kill has granted.

`RangeSetProofs`. `StaysCanonical`, `DenotesTheCovered`, `QueriesStayExact` and
`ReloadsStayFaithful`: the whole of `intervals.rs` against set arithmetic, for a file
of any size. The inductive invariant is the record's promise itself, canonical and
denoting the covered bytes; the work is in the operators. `InsertIs`, `RemoveIs`,
`TruncateIs`, `RewindIs`, `ContainsIs`, `GapsAre` and `FirstGapIs` each give an
operation's result for every canonical record, `DecodesBack` and `TornClaimsLess`
those of the encoding. Loops need induction, which the library states for an
operator; here it is stated for a set (`Induct`, from the well-foundedness of the
naturals), and `LoopRuns` shows that a recursive function over rounds exists and
`LoopRunsTo` that an invariant of its rounds holds of it.

`ExchangeProofs`. `ExchangeInvariance`, `ExchangeTypeCorrect`, `BlocksAreInPlace`,
`AcceptedLinksServeTheFile` and `NoLinkIsWronged`. `InPlace`: kept blocks are in their place until a
worker has started, and ever after over ranges. `Streams`: the body that is read
began at the claim, so its next block is the one at the cursor, whatever the server
did since. `Compared`: the windows at both ends that are not waiting to be read
agreed with the link. For `NoLinkIsWronged` a second invariant, `FairlyJudged`, stands
on the first: a refresh writes nothing before it decides, so as far as a window may
reach from a kept block the part file holds what was written there - this is where
the rewind has to cover a window - and as long as the link serves the file as it
should, neither the headers nor a window speaks against it. `EveryStepCosts` is what
of `CommandEnds` can be proved: a measure (`Effort`: the phase of the command, what is
left to read or fetch, attempts, the answer, the length of the claim, changes of the
server) falls with every step, of the command and of anybody else, in an order that
has no infinite descent (`FewerEnds`). The one step that costs nothing is `AsksForNothing`, a
request to a server without ranges that answers with an empty success: a command
whose server changes its ways finitely often goes on for ever only by asking that
way again and again, which is the exception of `CommandEnds`.

Only model-checked: the liveness properties (`FinishAnswered`, `BackpressureEnds`,
`Terminates`, `Settles`, `CancelEnds`, `Completes`, `CommandEnds`), which are out of
the prover's reach; of two of them the measure that falls is proved. Every invariant and every action property of the runs that pass
is a theorem.

## Not modelled

* Time: a timeout, an interval or a back-off is a step that may come at any moment.
  The delays, `Retry-After`, the rate meters and the progress snapshots are numbers
  over time that no property here distinguishes.
* 64-bit saturation of offsets: files are far below it.
* File names (sanitising, Unicode, reserved names), redaction and the mark of the
  web: string handling and a best-effort attribute, with unit tests. Only `dedupe`
  is modelled.
* Two processes on one row or one part file. Nothing in the code locks them; it is
  a matter for the code before it is one for a model.
* Downloads of unknown size in `Exchange`, beyond the observation above. A worker
  that panics in `Drive`, and 64-bit overflow in a damaged record in `RangeSet`.
* Of the store: host profiles, `list` and deletion; of the command line: the
  commands that only print; the benchmark, which measures from outside.
* Truncation inside `open_part`: it never shrinks a file, so a server whose file
  became shorter leaves a longer part file; `Lifecycle` has the case, and the length
  of what is published is part of it.

## The plan

Done: `Writer`, `Segments`, `ClaimPlan`, `RangeSet`, `Governor`, `Drive`,
`Lifecycle`, `Http`, `TestServer`, `Identity` and `Exchange`, with the abstract
`Progress`, `Claims`, `Concurrency` and `Shelf`, and the proofs named above.

Left, in the order of what it would add:

1. Measures like those of `Drive` and `Exchange` for `Terminates` (bytes and cuts of
   the claims, then attempts, then the program counter; steals that the victim has
   overtaken hand bytes out again) and for `FinishAnswered`.
2. The writer's blocks as contents, so that `Lifecycle`'s `Fetch` and `Checkpoint`
   can be shown to be what `Writer` does.
3. Two rows with different names, and two processes, once the code defines what
   they may do.
