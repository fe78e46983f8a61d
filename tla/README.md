# conffy in TLA+

conffy transcribes and translates conference talks live. Workers turn the audio
of a talk into numbered captions and append them to Valkey streams, one per talk
and language; replicas of an API copy the streams to browsers. This directory
holds TLA+ models of that system, the TLC configurations that check them, and
TLAPS proofs about them. Paths below are relative to the repository;
`worker/`, `api/` and `bus.py` are under `src/conffy/`.

## 1. The system

| Part | State it keeps | Operations | Made correct by |
|---|---|---|---|
| Segmenter (`worker/segmenter.py`) | pre-roll, buffer, counters of silence and speech | `feed` per 32 ms frame, `snapshot`, `flush` | no speech lost, no audio twice, bounded utterances |
| ASR pipeline (`worker/pipeline.py`) | queue of utterances, next number, last partial | reader task, ASR loop, `run` | consecutive numbers, PARTIAL N replaced by FINAL N, nothing lost at the end |
| Translation stage (`worker/translate.py`) | queue of captions, context, closed flag | `submit`, `close`, `run`, one coroutine per language | order per language, no caption skipped silently, an end |
| Worker service (`worker/service.py`) | tasks of one talk, stop event | `serve`, `claim_next`, `run_session`, keeper, `_finish` | one producer per talk, failover, stop and shutdown take effect |
| Valkey bus (`bus.py`, `contracts.py`) | state, lease and streams of every talk | commands and three Lua scripts | lease semantics, guarded state writes |
| API: stop, start (`api/main.py`) | none | two handlers | a stop is final until a start |
| API: fan-out (`api/fanout.py`) | a hub per stream, a queue per viewer | `events`, `_loop`, cleanup | order, no gap, one reader per stream |
| API: registry, export | none | seed from a file, create, list, export | a session is created once, none is forgotten, no creation touches what runs; an export is in order |
| Audio source (`worker/audio.py`) | ffmpeg and its two pipes | the generator `ffmpeg_pcm` | no audio lost, a failure is no end, no process left behind |
| Model clients (`providers/`) | HTTP clients, a flag for a field the server may reject | `transcribe`, `translate` | the flag costs no caption, requests are bounded |
| Terminal tool (`worker/cli.py`) | the tasks of one talk | `main` | what a run of the service keeps, in one run |
| Load test (`loadtest/sse_clients.py`) | viewers, counters | `main`, `viewer` | every live talk watched, counters true |
| Pages (`web/`) | finals by number, one partial | event listeners | newest caption shown, stale partial dropped |

How they interact. The reader of a pipeline calls the segmenter and puts its
utterances on a queue; the ASR loop publishes captions through a callback of
`run_session`, which appends to the source stream and then submits the caption
to the translation stage; the stage publishes to the other streams. A keeper
task renews the lease and writes the state. Workers meet only in Valkey: the
lease says who runs a talk, the state says whether it should run, and a
successor reads the next number from the stream. The API writes states and
reads streams; browsers reconnect with the id of the last event they got. A
successor also takes over the clock of the talk from its last caption, and the
export sorts by that clock.

What is hard: workers that claim, lose, renew and release leases while others
do; a death, a hang, a SIGTERM or a failing command at every await; state read
in one command and used in a later one; a drain that goes on after the lease is
no longer renewed; numbers guessed from the length of a queue; a backlog read
while new entries already arrive; queues at their limit. `PROJECT.json` lists
these hazards with the line where each bites and the properties aimed at it.

## 2. The modules

| Module | Models | Extends |
|---|---|---|
| `Segmenter` | every branch of `feed` and `flush` | |
| `Reader` | ffmpeg, its generator, `_read`, with the segmenter | `Segmenter` |
| `AudioProofs` | the segmenter for every tuning, in the reader as well; an end is complete | `Reader` |
| `Pipeline` | reader, ASR loop, and the partial on the page | |
| `PipelineProofs` | numbering, what the page shows, completeness | `Pipeline` |
| `Translation` | the stage, and how `run_session` closes and drains it | |
| `Translator` | the stage with the HTTP client of its translator | `Translation` |
| `TranslatorProofs` | order, completeness, silence after the end; the client implements `Translation`; bounds on its requests | `Translator` |
| `Lookup` | `last_finals(.., 1)`: where a new run finds the end of the last | |
| `Captions` | abstract: what the streams of a talk promise | `Lookup` |
| `Sessions`, `MCSessions` | workers, leases, states, source streams, stop and start | `Lookup`, instance of `Captions` |
| `SessionsProofs` | types, one producer, numbering, stops, `Captions` implemented | `Sessions` |
| `Talk` | `run_session`, `_finish` and `cli.main` around `Translation`, run after run, with all streams | `Translation`, `Lookup`, instance of `Captions` |
| `Export`, `MCTalk` | the clock of the captions, and `all_finals` | `Talk` |
| `TalkProofs` | completeness, the end, the export, `Captions` implemented | `Export` |
| `Ranks` | the members of a set of positions in ascending order | |
| `RankProofs` | each member once, in order | `Ranks` |
| `Registry` | `save_session`, seeding, creation, stop and start against each other | `Ranks` |
| `LoadTest`, `MCLoadTest` | `sse_clients.py` against the API of `Registry` | `Registry` |
| `RegistryProofs` | creation, listing; viewers, counters and what is watched | `LoadTest`, `RankProofs` |
| `Fanout`, `MCFanout` | hubs, connections, browsers of one stream | `Ranks` |
| `FanoutProofs` | one reader, order, the cause of every gap | `Fanout`, `RankProofs` |

**Segmenter.** A frame is its index; the detector's probability is one of three
classes (speech, unsure, silence), the two thresholds of `SegmenterConfig`. An
utterance is the interval of its frames. Each action is one call of `feed` or
`flush`: a frame while idle, an onset, an extension, a cut. Variables: `mode`
(`_active`), `idx` (`_frame_idx`), `start`, the length of pre-roll and buffer,
and the two counters.

**Ranks.** Two places keep some entries of a sequence in their order: the last
FINALs for a new viewer (`FreshBacklog`) and the languages without repetition
(`Distinct`, a `dict.fromkeys`). Both are the kept positions, sorted: the kth is
the one with k kept positions up to it (`Ascending`). A fold would say the same;
but nothing can be proved of one here, and of this definition everything needed.

**Reader.** Audio is counted in units smaller than a frame, because chunks do not
end where frames do. `reader` is the await the task is at: in the generator
(`reading`, `waiting`, `closing`) or in `_read` (`between`). The difference
decides what a cancellation does: in the generator its `finally` kills ffmpeg;
between two chunks the generator is left suspended (`abandoned`) until the event
loop closes it (`Collect`). `Feed` takes a frame and one step of the segmenter.
The end marker that `_read` puts on the queue belongs to `Pipeline`, which in turn
knows of the audio only that it goes on, ends or fails.

**Pipeline.** One chunk of audio is one step of the reader, as in `_read`, where
every chunk ends with `sleep(0)`. The loop's variable `at` is the await it is
at. `expired` and `raced` stand for the moment between the timeout of
`queue.get()` and the resumption of the loop: asyncio runs the reader at most
once in it, so the queue may have grown by the time the partial is numbered.
Text, prompt and statistics are left out; a transcription gives text or not.
`shown` is the partial of `web/index.html`.

**Translation.** A caption is its number. `one[l]` is the coroutine of a
language; a coroutine left behind when `gather` raised goes on, as in asyncio.
A publication cancelled or failed in flight may have reached the stream; it
counts as applied at that moment. The stage is cancelled only after `close`: a
lost lease, the 15 s limit of the drain, or a shutdown.

**Translator.** What `Translation` says in one step (the translator answers, or
fails), the client does in several requests: with `reasoning_effort` while the
shared flag `effort` is set, again without it if the server rejects it, again
without context if the answer is far too long. `request[l]` is the request of a
language, `server` chooses once what kind of server it is. The refinement is the
identity: `Implements` is `FairSpec` of `Translation`.

**Sessions.** One action is the code between two awaits on Valkey. `pc` says
where a worker is in `serve`, `claim_next`, `run_session` and `_finish`;
`pipe`, `keeper` and `mt` are the tasks of `run_session`. `Beating` are the
phases in which the keeper runs, `Owning` also those of the drain and of
`_finish`. Only the source stream is kept: its FINALs and events, and of its
partials as many as can hide the last FINAL from a look-up (`PublishPartial`).
`stops` remembers what became of the last stop of the API: it `stands` until a
start handler writes, or is `overruled` when a run that failed writes its error
over it while another worker has the session in its hands. Sessions that
`claim_next` passes over for want of a configuration, or for a browser source, are
not among `Sids`. Time
enters in one place: a lease that is not renewed may expire, and while the
keeper runs it may not, unless the worker hangs (fault `stall`).
Faults: `crash`, `sigterm` (at every await), `valkey` (a command fails),
`stall`, `lostreply` (applied, reply lost, sent again by the client library).

**Lookup.** A successor continues behind the last FINAL, which `bus.last_finals`
looks for among the newest 500 entries of the stream, partials and events
included (`Scan`; bus.py:124). If none is a FINAL it returns nothing and the run
begins at number 0 and offset 0 (service.py:78-80). A `Lull` is a FINAL with `Scan`
entries behind it that are none. `Sessions`, `Talk` and `Captions` all use this
module, so that whatever holds "unless there was a lull" names the one case in which
the numbering of the code breaks without a fault.

**Captions.** The contract of contracts.py, "Stream messages", without workers,
leases or queues: a FINAL takes the next number, one worker speaks at a time, a
translation repeats a number of the source behind those its language has. Once
`disturbed` (a worker hung past its lease, a command was applied twice, the
publication of a translation failed) the promise is weaker: no number of the
source is skipped and a translation comes behind what it translates. The same
goes after a lull. Two modules
implement it from two sides: `Sessions` (many workers, the source stream only)
and `Talk` (one run at a time, all languages).

**Talk.** `Translation` leaves open who submits, closes and drains; here this is
`run_session` (`kind = "service"`), run after run, or `main` of the terminal tool
(`kind = "terminal"`), once. `Speaks` and `Submits` are the two halves of
`publish_source`, so that a cancellation falls between them; `emitting` is the
caption in between. `Closes` ends pipeline and keeper, with the outcome; the
drain is then complete, cut short or failed, and `_finish` writes its events one
by one. Any XADD may be applied twice (`SpeaksTwice`, `TellsTwice`,
`AnnouncesTwice`), and partials come between the captions (`Murmurs`). `stray` are the captions whose coroutines outlived a stage that failed:
they may publish in a later run. `Dies` is every way a run stops where it is.
Who may run is the business of `Sessions`: here one run follows another.

**Export.** The times of every number, those of the caption that was said last: an
utterance begins at the end of the last one or later, a run adds `offset`, and
`Resumed` reads that from the caption the look-up finds. `Exported` and `Before` are `all_finals`.

**Registry.** Each command of `save_session` is a step (`config`, `list`,
`exists`, `state`), for a replica that seeds its file as for a POST. `Validated`
removes repeated target languages. `granted` records what was confirmed, `torn`
what a crash, a failing command or a lost reply cut before it was in the set.
State writes of stop, start and workers go on meanwhile.

**LoadTest.** The listing reads the set, then each session by itself (`ReadsRow`);
a viewer asks, is open, and is refused, closed, broken or cancelled; `Leaves` is
its `finally`. `ReplicaDies` breaks the streams of a replica.

**Fanout.** One stream, one replica at a time. The id of an entry is its
position. Variables `current`, `task`, `last`, `subs` are `_hubs` and the fields
of `_Hub`; `pc`, `hub`, `queue`, `backlog`, `seen` the locals of `events`;
`lastId` is what the browser sends as `Last-Event-ID`. `ReplicaDies` sends every
browser to a fresh replica. Every entry of a stream is one that `publish` wrote: an
entry that `decode_message` cannot read would end the hub in `HubRead`, behind the
`try`, and is not modelled.

## 3. What is checked

Passing runs:

| Run | Bounds | Shows |
|---|---|---|
| `Reader` | 10 frames of 2 units in chunks of 1 to 5, soft limit after 5 frames, hard after 7 | utterances share no frame, every speech frame is in one, only blips are dropped; an end is complete and no failure; the end of ffmpeg gets to the reader, and ffmpeg never outlives it |
| `Pipeline` | 3 utterances of up to 3 chunks | consecutive FINALs in order; the number of a PARTIAL is that of its FINAL; the page shows no stale partial; nothing lost at the end of the audio; a partial never goes before a finished utterance; the run ends |
| `Translator` | 3 captions, 2 languages, 1 retry, every kind of server | no caption skipped, the drain ends; a rejected field costs no caption, the client implements `Translation` |
| `Talk` | 2 captions, 2 languages, 2 runs (or the tool), 1 fault, a look-up of 2 entries, partials among the first 2 entries | what is drained has been told in every language, nothing follows an end but a new run, subtitles of an export are in order and do not overlap unless there was a lull, the streams follow `Captions` |
| `Sessions` | 2 workers, 1 talk, a look-up of 2 entries, a source that says no more after 2 FINALs or events, 2 faults of any kind or API calls | one producer until somebody hangs, no hole, no number twice until a command is repeated or a lull hides the last, a stop stands through all that workers write, the source stream follows `Captions` |
| `SessionsLive` | the same, no captions, all faults | failover, stop, eviction of a worker that lost its lease, shutdown |
| `LoadTest` | 2 replicas with 2 sessions in their file, one POST at a time for 3 sessions, 2 viewers, 1 fault, 2 events | a session is created once and none is forgotten, no creation touches the state of a session that is confirmed; every talk is watched, without a fault no viewer is refused or broken off, counters and exit code are true |
| `Fanout` | 2 browsers, 3 entries, 3 hubs, which may fail, queues and backlogs of one | one reader per stream, nothing twice or out of order, every gap is one of a full queue or a cut backlog, everyone is served and catches up or is disconnected |

Why the bounds are enough. Reader: 10 frames hold an utterance ended by each kind
of cut, and a second one with its pre-roll; a chunk may end in the middle of a
frame and hold two. A reader that waits for a blocked ffmpeg waits until it is
cancelled (`FfmpegBlocks`), so `SourceEnds` speaks of an ffmpeg that has exited.
Pipeline: three
utterances put two behind one that is being transcribed; length 3 lets a partial
be taken twice. Sessions: a hazard involves an owner, a successor and at most
two faults (a crash after a shutdown, a repeated command after a hang); two
workers are enough for any of these, and two entries for a repeated number.
Talks interact only through the order in which a worker visits them, so one
talk is enough; the proofs hold for any number. Fanout: a hub and its
successor with one browser each; three entries put one into the backlog, one
into both backlog and queue, and one into the queue alone. Talk: two captions
are one at work in the stage and one that is queued, or published and not
submitted; two runs let coroutines of the first publish in the second; retries,
and a longer queue, are left to `Translator`. A look-up of two entries is the
smallest that a partial and an event, or two partials, hide a caption from without
each alone doing so; that the lull is reached is seen by dropping the excuse from
`SubtitlesInOrder` or `NoRepeat`, which then fail. Partials are only counted
where a look-up still sees a FINAL: those behind change nothing any more. Utterances have two lengths and one pause, so that a caption said again
at offset 0 may be shorter or longer than the first; the theorem has any. The
languages of `Talk` are interchangeable (`Symmetry`; its properties are invariants
and action properties). LoadTest: a race is between a seed and a POST, or two
replicas that seed; the third session is in no file. Tunables are small, but keep
the order of the real ones (for example `MinPartial` above one chunk, `LeaseTtl` 10,
`RenewEvery` 3, `DrainTimeout` 15).

Fairness. Every task of an event loop that can go on does; the keeper wakes; an
unrenewed lease expires; the event loop closes an abandoned generator; a process that died is started again
(`docker-compose.yml`); requests to models have a timeout; a Valkey command is
answered or its connection breaks. Nothing obliges audio to come or to end, a
viewer to connect, or a user to press a button. Faults are bounded, hence every
behaviour has a time after the last fault.

Runs that find a disagreement between a text of the repository and the code:

| Run | Text | What happens |
|---|---|---|
| `SessionsDrain` | docs/SCALING.md:118, one pod owns one talk | the keeper stops before a drain of up to 15 s, the lease lasts 10: without any fault a second worker claims the talk, and the first then writes its end over the new run |
| `SessionsStopIsFinal` | bus.py:31, writes never undo a stop | a run whose source failed drains past its lease, another worker takes over, the API stops the talk; the first writes ERROR without the guard over the stop, the guarded LIVE of the second then passes, and the talk runs on without a start and without a fault |
| `SessionsEndIsMarked` | service.py:8, source ends → ENDED | after a failed translation task `wait_for` raises out of the clean-up and `_finish` never runs |
| `FanoutSlowViewer` | docs/API.md:232, no gaps | overflow discards the oldest undelivered entry and still delivers the ones behind it; the viewer resumes after them |

Observed in the models, without a run of their own:

- A lull: a worker that takes over, or is started again, when the newest 500 entries
  hold no FINAL gives numbers from 0 again, with times from 0. Browsers that keep
  captions by number replace old ones, and the export, which keeps the last caption
  of a number and sorts by time, mixes the runs. docs/API.md:194 says "Numbering and
  the timeline continue after the last caption". A long utterance has some fifteen
  partials, so this takes long stretches in which every FINAL is empty, or a source
  that is started again and again and fails each time. `NoRepeat`,
  `SubtitlesInOrder`, `DrainedIsTold` and `Captions` except what comes behind a lull.
- `HubTailFails`: when the first command of a hub raises (fanout.py:48), `ready`
  is never set, and the hub stays in `_hubs`: its viewers and all later ones wait
  without keep-alives. `Served` excepts exactly these.
- `ResumeBacklog`: a browser that was away for more than `MAX_BACKLOG` entries
  misses those between the end of its backlog and the position of the hub.
- `PickSession`/`Acquire`: the state is read before the lease is taken, so a
  worker may run a talk again that has just been marked ended.
- With `stall`, a worker that hangs past its lease publishes a number its
  successor has used, until its keeper wakes: `NoRepeat` excepts it, `NoHole` does
  not.
- `Overrules`: the exception of `StopHolds` and `StopTakesEffect` is what
  `SessionsStopIsFinal` finds, and no more: an error over a stop that no other
  worker can turn into LIVE leaves the session finished.
- `SetupFails`: a model client that cannot be made leaves the talk LIVE, and the next
  worker meets the same error; `Failover` holds since a bounded number of faults leaves
  one worker that does not.
- `Closes` of `LoadTest`: a stream that the API ends (a slow viewer, a failed hub)
  is in no counter, and the exit code stays 0; sse_clients.py:33 calls `dropped`
  "connected, then lost before the end".
- `ConfigReplyLost`, or a crash between SET NX and SADD: the session is in no list,
  no worker finds it, and it cannot be created again (409). `NoneForgotten` names
  this as its one exception (`torn`).
- `SpeaksTwice`, `TellsTwice`, `AnnouncesTwice`: an XADD applied twice puts a caption
  or an end into its stream twice. The export has it once.
- `StrayEnds`: a coroutine that outlives its failed stage may publish a number
  behind newer ones of the next run, or after the end. `EndIsLast` and `Captions`
  except it (`disturbed`).
- Any failing Valkey command ends the talk as ERROR, whatever the source does;
  the worker of a stopped talk that dies within 3 s leaves it without an
  `ended` event.
- `CancelStage`: the drain is cut after 15 s, and what is still queued is never
  translated (docs/API.md:181 says that pending translations are flushed).
- `FfmpegBlocks`: stderr is read only after stdout has ended (audio.py:50). A source
  with more errors than the pipe holds stops ffmpeg, and the talk stays live
  without audio until it is stopped.
- `ReadFails` puts the end marker on the queue without a flush; a PARTIAL taken
  in that instant counts the marker and has a number one too high. Its FINAL
  never comes, so `FinalReplacesPartial` is not at stake.

## 4. What is proved

TLAPS proves, for every value of the constants that meets the named assumptions:

- `AudioProofs` (`ConfigAssumption`: no length in frames is zero, and the
  pre-roll is shorter than the hard limit): types, `UtterancesDisjoint`,
  `SpeechCovered`, `LengthBounded`, `TailKept`. The invariant `IInv` relates the
  counters to the frames: the buffer begins behind the last utterance, the
  silence counter counts frames at its end that are not speech, and every speech
  frame is in an utterance or in the buffer. Without these, "covered" is not
  inductive: a trim could cut into speech. `DroppedOnlyBlips` relates a counter to
  a cardinality: while an utterance is in progress, `speech` is the number of
  speech frames since its start (`Counted`), and that holds at an onset because
  a pre-roll never holds speech (`SilentPreRoll`).
  For the reader (`ReaderAssumption`: frames and chunks are not empty): every step
  of it is a step of the segmenter or none (`Refines`), so `SpeechCovered`,
  `DroppedOnlyBlips` and the rest hold in it too; and `EndIsComplete`, from the fact
  that less than a frame is left at every await (`LeftOver`).
- `SessionsProofs` (`ConstantsAssumption`): `NoHole` from `CoreInv`, under every
  fault. A worker that publishes knows that all numbers below its next one are
  in its stream (`NextCovered`); a successor that reads the stream knows it too,
  and streams only grow. `SingleProducer` without `stall`: whoever is `Beating`
  holds the lease (`Holds(Beating)`). `NoRepeat` without `stall` and `lostreply`:
  the next number of a producer is above all in the stream but those before a lull
  (`Above`, `Interrupted`), since what the look-up finds is the greatest behind the
  last lull. `StopHolds` is about histories of writes, and one step from ENDED is not
  enough: the invariant (`StopKept`) says that a standing stop is ENDED, which stops
  every guarded write, or an error and then every worker that has the session has
  written its last state. `ImplementsCaptions` from all of these. `OneOwner` is not
  proved: the timing of the code breaks it (`SessionsDrain`).
- `PipelineProofs` (`PipelineAssumption`: the audio of a PARTIAL is longer than
  one chunk): types, `FinalsConsecutive`, `FinalReplacesPartial`,
  `PageIsCurrent`, `NothingLost`, `FinalsFirst`, for any limits, pre-roll, first
  number and number of utterances. The promise of pipeline.py:15 is not
  inductive. What is (`PartialsFit`): a PARTIAL is of the next utterance that may
  become a FINAL and has the number that one would get, or is of an earlier one
  and has no greater number. It holds until only the end marker is left
  (`Closing`): from then on the guess counts the marker as an utterance and may
  be wrong, but no FINAL can follow it. `FinalsFirst` needs `IdleShape`: between the
  timeout of `get()` and the loop the reader runs at most once, so if it has
  queued an utterance, the next one is shorter than a PARTIAL.
- `TranslatorProofs` (`TranslationAssumption`), of the stage: types, `InOrder`, `NoneSkipped`,
  `QuietAfterEnd`, for any number of languages, captions and retries. The
  invariant says that the queue is exactly the captions behind `item` and then
  the end marker, that a language which may still publish has nothing as new as
  `item`, and that one that is done has accounted for `item`.
- `TranslatorProofs`, of the stage with its client: `ClientSpec => Spec` (`Refines`), hence `InOrder` and
  `NoneSkipped` with the client; `FieldIsNoError`; and `FewRequests`, from a budget:
  the requests made, one more while the field may be rejected and one more while
  there is a context to drop are at most three (`Budget`). It needs that a request
  without the field is only built after the flag was cleared, and that nobody sets
  the flag again.
- `TalkProofs` (`TalkAssumption`, `ExportAssumption`): `DrainedIsTold`, `EndIsLast`,
  `FollowsContract` and `SubtitlesInOrder`, for any languages, captions, runs and
  faults and any size of the look-up. The invariant (`TalkInv`) ties the streams to
  the stage. The source has no holes and all that was submitted (`Speech`); without a
  lull it has exactly that (`Exact`), and one caption more only while it is being
  emitted or after a run that did not end by itself, and its numbers never fall
  (`Placed`), so that what the look-up finds is the last. The queue continues where
  the stage is, or at what the run has found (`Ahead`); only a failed stage leaves
  coroutines behind (`Quiet`), so that without one, and without a lull, no language has
  anything as new as what it may still publish (`Behind`), and what the stage has
  passed is accounted for (`Complete`). `DrainedIsTold` needs `Exact`: behind a lull,
  numbers above the last one submitted are those of earlier runs. `EndIsLast` needs
  `Quiet` between the runs; `FollowsContract` needs `Speech` to say the next number and
  `Behind` to translate in order. `SubtitlesInOrder` adds `Clock`: every number has
  its times and no language has another, and without a lull they are one behind the
  other with the clock of the run behind them all (`Ticking`); a caption said again
  only moves the last one.
- `RankProofs`: for every set of positions, `Ascending` lists each member, once
  and in order (`AscendingSorts`). That there is a kth needs no induction: the least
  position with k members or more up to it (`LeastNumber`, from the order of the
  natural numbers being well-founded) has exactly k, and is one of them.
- `RegistryProofs` (`RegistryAssumption`, `LoadTestAssumption`): `CreatedOnce`,
  `NoneForgotten`, `CreationIsOver`, `OnlyFaultsFail`, `CountersAgree`,
  `EveryTalkWatched`, for any number of replicas, requests, sessions and viewers.
  Whoever has passed SET NX is alone with the session (`OwnersWrote`, `OneOwner`),
  has it listed before it goes on (`OwnersListed`), and only then is it confirmed
  (`Confirmed`). The counters are cardinalities of sets of viewers, one lemma per
  way to enter or leave one. `EveryTalkWatched` rests on `WatchInv`: while the
  listing reads session by session, what is owed is unread or has all its
  streams among the targets, and no target is of an unread session; and on
  `FirstOfEach`: the languages a validator leaves are those it was given, each once.
- `FanoutProofs` (`FanoutAssumption`): types, `OneReader`, `Ordered`,
  `GapsExplained`, for any number of browsers and hubs, any limits and any length
  of the stream. None is inductive alone. `HubsInv`: a queue that is filled is in
  the hub its viewer attached to, and a forgotten hub is nobody's; so the last
  viewer out of an old hub cannot take the new one away. `QueuesInv`: a queue is
  in order and holds nothing the hub has not read, and a drop signal is in no
  queue that is still filled. `BrowsersInv`: the backlog is newer than all the
  browser has. `SeamInv` is what makes it gapless: whatever a browser is due is
  in its backlog or queue, or denied, before any later id is; it covers the
  seam because a hub is ready only at a position that it knows (`Ready`), so that
  what is not in the queue is in the backlog, or behind the cut.
  `ShortStreamsWhole` adds the converse of the run `FanoutSlowViewer`: until a
  stream is longer than a queue (1000) or a backlog (5000), nobody misses
  anything. It needs that a queue holds no more entries than its hub has read
  (`QueuesSlim`). `NobodyWaitsInVain` is the part of `CatchesUp` that is safety: a
  connection that lacks an entry has something in its backlog or queue, or its
  hub runs, fills its queue and has entries to read (`Fed`); for a queue that is no
  longer filled holds the drop signal (`LeftSignalled`), and the hub in `_hubs` is
  never a cancelled one (`CurrentLives`). What is left to TLC is that the hub and
  the connection then go on.

Refinements: `Translator` implements `Translation` (checked with fairness by
`Translator`, its steps proved), `Sessions` and `Talk` implement `Captions` (checked
by the runs of these names, and proved: `CaptionsImplemented`, `Follows`), `Export`
implements `Talk` (proved). That both `Sessions` and `Talk` implement the same
contract is what joins them; no theorem speaks of their product.

Each proof first treats what an append does to a sequence, then one lemma per
action (or per group of actions that change the same variables), and combines
them in a step with `PTL`.

Only model-checked: liveness, which is out of the prover's reach: `SourceEnds`,
`NoOrphan`, `Drains` of a pipeline and of a stage, `Failover`, `StopTakesEffect`,
`ZombieEvicted`, `ShutdownCompletes`, `CatchesUp`, `Served`, and the fairness half
of `Implements`. Every invariant and every action property of a passing run is
also a theorem. Only proved: the types, `LengthBounded`, `TailKept`, `InOrder` and
`QuietAfterEnd` (which `FollowsContract` and `EndIsLast` check in the composed talk),
`FewRequests`, `ShortStreamsWhole`, `NobodyWaitsInVain`, and the facts about
sequences.

## 5. Not modelled

- Text: clean-up, prompts, glossary, subtitle formats; the settings, which are read
  once; the arguments of the terminal tool.
- nginx and container files, apart from the restart of a dead process.
- The loss of Valkey's own data, and streams trimmed at `MAXLEN`.
- The transcriber's client: one request without state.
- Two workers of one talk in all its languages: `Sessions` has the workers with the
  source stream, `Talk` the languages with one run at a time. They meet in
  `Captions`, not in one state space.
- Of commands that the client library sends again, SET NX and XADD are modelled. A
  state SET applied twice, the second time behind a stop, is not.
- Entries of a stream that `publish` did not write.
- Timeouts of the viewers of the load test.
- An XADD that is in a socket buffer while its sender is cancelled counts as
  applied at the cancellation or never.

## 6. Plan

Done in this order, because each relies on the ones before: who numbers captions
(`Sessions`), what becomes of speech (`Segmenter`, `Reader`, `Pipeline`), of a caption
(`Translation`, `Translator`) and of a stream (`Fanout`); then the contract
(`Captions`), the talk as a whole (`Talk`, `Export`), and how sessions come into being
(`Registry`, `LoadTest`). The proofs came in the same order. Left:

1. What joins the parts: that a stream which follows `Captions`, copied by `Fanout`,
   reaches the page in the order of its numbers. Today the two meet in the reader's
   mind: the id of an entry in `Fanout` is its position in `Captions`.
2. Two workers and all languages of a talk in one model, if the state space allows.
