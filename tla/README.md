# metriken: a verification development

TLA+ modules that model metriken, TLC configurations that check them on small
instances, and proofs that TLAPS checks for every value of their constants.
They follow a metric's value from the threads that write it, through its
exposition, replication and recording, to the reads and rates of an archive.

Paths are relative to the repository. `recorder.rs` is
`metriken-recorder/src/recorder.rs`; `group_builder.rs`, `snapshotter.rs`,
`frames.rs`, `route.rs`, `clock.rs` and `body.rs` are under
`metriken-exposition/src`; `sharded.rs`, `window_cell.rs`, `family.rs`,
`identity.rs` and `metadata.rs` under `metriken/src`; `writer.rs`,
`layers.rs`, `reader.rs`, `segmented.rs`, `scan.rs`, `catalog.rs` and
`buffer_pool.rs` under `metriken-storage/src`; `batch_rate.rs` and
`per_source.rs` under `metriken-query/src`.

## 1. The system

    producer threads            exposition                   recorder (a task)
    ----------------            ----------                   -----------------
    counters, gauges,   walk    group builders   frames     pump -> channel -> driver
    histograms, groups  ----->  passes, routes   ------->   scrapes, local      |
    families, registry          /stream, /snapshot          hook, detection     v
                                                            events         archive writer
                                                            to the caller       |
                                                                                v
                                              query engine  <----- readers    dendro
                                                                              archive

| Component | State it keeps | Operations | Interacts with | What is hard | What makes it correct |
|---|---|---|---|---|---|
| **Sharded counters** (`sharded.rs`) | the shard pool under a mutex; a lease and an id per thread; an atomic per slot and shard | `add`, `value`, `set_thread_shard`, thread exit | every writer thread; snapshots | threads start, share and exit in any order of their destructors; a reader sums while they write | no shard leased twice or lost; as many in use as threads at once; a read between the totals at its ends |
| **Metric values** (`windowed.rs`, `window_cell.rs`, histograms, `group/counter.rs`, `group/gauge.rs`) | a value, its window and a lock that the first write allocates; group entries with a sentinel | `set_with_window`, `load_with_window`, `add` | exposition | value and window are two writes; the lock may not be there yet; the sentinel is a number | a value is read with its own window; no add is lost |
| **Families** (`family.rs`) | a table of slots under a lock, a free list, a version | create a member, drop its handle, walk | the wide builder | slots are reused while a walk goes on | a handle owns its slot |
| **Slot identity, group metadata** (`identity.rs`, `metadata.rs`) | `live` under a mutex; `GENERATION`; per group a map and a version | `assign`, `release`, `retain`; `insert`, `remove` | the builders | the mutex is released before the groups are written | groups agree on an occupant; a uid never returns |
| **Metric registry** (`metriken-core`) | the static list; dynamic metrics by address | register, drop, walk | every exposition | an address is used again | a walk finds the living |
| **Group builder, long** (`group_builder.rs`) | versions, per-slot occupants, the next key | a build per pass | metadata stores | caches are believed while a version stands still | a row is about the occupant it names; a key names one |
| **Group builder, wide** (`group_builder.rs`, `snapshotter.rs`) | a skeleton: identity and schema | a build walks twice | families, registry | the second walk may find other members | values under their own labels |
| **Replication: passes** (`route.rs`, `clock.rs`, `body.rs`) | a pass per layout, the clock asked for; per subscription its index | wake, fetch, frame | builders; requests | requests of different clocks; a wall clock that steps | a pass once; `seq` is evidence of loss |
| **Replication: groups** (`frames.rs`, `StreamDecoder`) | schemas, keys and windows sent and received | frame, decode, stage | pump, writer | connections drop with frames in flight; keys are used again | every window written once, for the occupants it was about |
| **Recorder: streamed endpoint** (`recorder.rs`) | restarts, staged rows, the archive, the failure | tick, stream events, commit, stop | pump, hook, archive, caller | restarts before their rows; producer changes; stops in the middle | rows are read under their process; a good finish has them all |
| **Recorder: activation and hook** (`recorder.rs`, `probe.rs`, `detect.rs`) | slot state, tasks, what the hook said, the asks owed | detect, ask, retry, refuse | tasks under timeouts; the pump | answers that come after a restart | a reply is written of its own process |
| **Recorder: passes and stops** (`recorder.rs`) | the ticker, the command channel, `last_pass`, each endpoint's last frame | tick, scrape, local pass, patch, finish | endpoints under a timeout; streams; the caller | a command exits in the middle of a pass; ticks overrun; frames arrive late | a recording ends after the exit it stops for; a stop is taken in turn |
| **Recorder: events** (`Emitter`) | a queue before a bounded channel | `must`, `lossy`, `flush`, `hand_off` | the caller | the caller reads or leaves in the middle of a flush | order, no silent loss, a bound, everything told in the end |
| **Archive writer** (`writer.rs`, `occupants.rs`) | per group: columns, anchor, `described`, `seen` | stage, commit, seal, evict | dendro | what is cut must stay readable | every run decodes; rows have labels |
| **Identity layers** (`layers.rs`) | three lists of entries and what is shown | append, fold, merge | writer, people's edits | edits from outside, repetitions out of order | edits survive; declarations are read |
| **Readers** (`reader.rs`, `segmented.rs`, `scan.rs`, `catalog.rs`) | open state, row index, caches | open, hand over, query, scan | a live archive; the query engine | segments go, move and are numbered anew | a read returns what is there; a chunk keeps its word |
| **Caches** (`buffer_pool.rs`, `segmented.rs`) | an LRU with a byte count | get, put | readers | two fill one key | the count is what is held |
| **Query engine** (`metriken-query`) | accumulators of a batched evaluation | push, finish, flush | scans | what is forgotten early | the batched answer is the whole one |
| **Formats**, **charts**, **macros**, **model types** | none that outlives a call | convert, draw, expand | | | the copy reads like the original |

`PROJECT.json` lists these components with their files, says what is modelled
of each, and lists the hazards, each at its line, with the properties that
cover it.

## 2. Modules

A comment before a definition says which function it stands for, and
`PROJECT.json` maps each definition to its lines. History variables are
declared as such, and no guard reads one except to bound a run. Most modules
have a section of *variants*: an operation with a slip that this code invites.
No specification uses one; each property is refuted by one of them, which
shows that it can fail. Names that several modules would share carry a prefix
(`SSInit`, `SGNext`, ...), so that modules can be composed.

### Values in memory

`ShardPool` (`sharded.rs`). A step is one access to shared memory: the pool
under its mutex or one atomic of one shard. `id` and `lease` are the
thread-locals, with `Uninit` and `Destroyed`, since another destructor may
write before or after the lease's own. A slot's count in each shard is a
number that does not wrap.

`WindowedValues` (`window_cell.rs` and its users). One metric of a `kind`:
scalar, group entry, histogram, gauge histogram, or a histogram that is
exposed. A caller's `pc` is its place in `set_with_window` or
`load_with_window`. The n-th call to get the lock writes value n and window n,
so that a torn pair shows.

`GroupEntry` (`group/counter.rs`, `group/gauge.rs`). The compare-exchange loop
of `add` on one entry, modulo `Modulus`, with the sentinel that reads as never
written and arrays attached from outside. `met` remembers that a sum reached
the sentinel, which the code's docs except.

`Family` (`family.rs`). The table, its free list, count and version; `handles`
are what the program holds. Each operation runs under the table's lock and is
one step.

`Registry` (`metrics.rs`, `dynmetrics.rs`). The static list, then dynamic
metrics by address. Builds hold the guard, so it changes between them only.

`SlotIdentity` (`identity.rs`, `metadata.rs`). `Assign`, `Release` and `Judge`
are what a call does under the mutex; `Store`, `Bump` and `StoreNothing` its
writes to one group after another, version apart, since readers see it without
the lock. `raced` remembers the slots whose last calls overlapped: for those
the code promises nothing.

### Exposition

`LongBuilder` EXTENDS `SlotIdentity`: each group is the store of a metric the
builder walks, a step per version, listing and member. Kept between builds are
the versions read *before* the members, the occupants, the next key.

`WideBuilder` EXTENDS `Family` and `Registry`: the fold of the membership into
an identity, the decision, and the walk of values, slot by slot, while members
come and go. `undisturbed` marks a build no producer step fell into, and
`skeleton.names` recalls the dynamic metrics' names when the cached schema was
made, since the identity folds their positions only. The identity is the numbers the code hashes, in their order and counted as there,
since what they can be mistaken for is a question of `QuietBuildExact`.

`StreamPasses` (`route.rs`, `clock.rs`, `body.rs`). Time is ticks; `offset` is
the wall clock less the monotonic one. A subscription sleeps to its boundary,
reads the clock, fetches a shared or a new pass, and frames it under the
held index. Faults are clock steps, stalled tasks and failed passes.

`StreamedGroup` (`frames.rs`, the decoder and writer). One group end to end:
the producer's keys and latest pass, what a connection was sent, frames in
flight, what the decoder and the writer hold. A frame says by history who its
row is about, `outcome` what became of it. Connections drop with what is in
flight, processes restart and number occupants again, producers change, and so
does the group's form.

### The recorder

`EventDelivery` is what the recorder's events promise the caller: an exact
account of a prefix of the log. `Emitter` is the event path, step by step, and
implements it (`Delivery == INSTANCE EventDelivery WITH ...`, checked and
proved). An event is its position in `log`; `view` is what was read, a
`Lagged` of n as n zeros. An emitter call is not atomic, and the caller's
`Recv` and `Close` come between any two sends.

`StreamedSource`. The pump, the bounded channel, and the driver as a program
counter: a tick drains, applies restarts and commits; a stop does the same and
finalizes. A process is its epoch; the producer name its handshake gives may
be absent. `SpanOf` reads the epoch entries as `epoch_spans` does. dendro may
fail for good; a blocking task may panic and take the archive with it.

`ProbeHook`. The same endpoint from detection on: `detect_one` and the hook's
asks are tasks with their own steps (`Spawned`, `Sent`, done or timed out),
the driver looks at them a tick at a time. A reply is the process it was read
from; `told` keeps which process's reply was written of which epoch. An
endpoint may stream, be scraped or be refused, its process be replaced and be
unreachable at any time.

`DriverPasses`. The driver's loop over its three transports: the ticker, which
skips what it missed, outranks commands, and these the frames; a tick stamps
its pass, scrapes every endpoint at once under the timeout, takes the local
passes, drains the streams and activates what was detected; a stop may take
one pass more and wait. A source's last row is when it is stamped and when it
was read; a frame is the wall clock of its newest row or empty. `clock` is the
monotonic clock in ticks, `offset` the wall clock less it. Failures and
restarts are left to `StreamedSource`.

### The archive

`ArchiveWriter` (`writer.rs`). One group: `wal` and `segments` are dendro's
rows, `labels` the occupant stream. Sealing and eviction come between ticks.

`Layers` (`layers.rs`). Entries offered to any layer, edits from outside,
`append` with its drift and its skip of what would change nothing, the fold,
the merge, and what is derived for a legacy source.

`LiveReader` (`reader.rs`, `segmented.rs`, `catalog.rs`). A long table of a
live archive and its occupant stream: rows are appended, sealed, compacted,
evicted, and segment numbers used again after a restart, while a reader opens
(listing, labels, fold of footers, each its own step), hands its state to the
next, and fetches segments for a query, one at a time.

`BlockCaches` (`buffer_pool.rs`, `SegmentCache`). Two caches with byte
budgets; readers that miss decode outside the lock. A block's id, which the
code derives from its content, is a key.

`SplicedReads` (`segmented.rs`, `scan.rs`). A counter's series read whole, as
a stream, and by scans of chunks, several interleaved; columns are presented
under labels that a relabelling gives and may change hands; segments may be
gone. `asked` is the query. The order in which series are listed is not
modelled: series are a set.

`GridRate`, `RowCoverage`, `BatchedUnion` (`batch_rate.rs`, `per_source.rs`).
`RateAt` and `Runs` are the definitions over all samples; `Push` and `Finish`,
and the `RowTrack`, compute the same from samples handed over one at a time.
`BatchedUnion` joins the scans of a group's members, holds points until rows
decide, compares sources, and gives blocks away. `GridRate` and `RowCoverage`
are algorithms without state.

### Instances

`MC...` modules compose what belongs to one question, a `part` at a time: the
parts share no variable, `part` is chosen in the initial state and only that
part moves, so the states add up and do not multiply.

| MC module | Parts |
|---|---|
| `MCProducerSide` | `shards`, `windowed`, `entry` (of a metric's value); `passes`, `group` (of a stream) |
| `MCGroupBuilder` | `producers` (`SlotIdentity` alone), `long`, `wide` |
| `MCRecorderLive` | `events`, `endpoint`, `hook`, with fairness |
| `MCStreamedSource` | `rows`, `hook`, `passes` |
| `MCArchive` | `writer`, `reader`, `caches`, `declared`, `edited` |
| `MCArchiveReads` | spliced reads, batched unions |
| `MCEmitter`, `MCLongBuilder`, `MCWideBuilder`, `MCArchiveWriter`, `MCWindowedValues` | one module each, for the runs with a violation |
| `MCDriverPasses` | the passes alone, as `MCStreamedSource` takes them |


## 3. Runs

Deadlock is not checked in any run: a recorder stops, threads exit, and every
behaviour ends at its bounds.

| Run | Instance | Properties | Shows |
|---|---|---|---|
| `recorder_live` | channel of 1, cap 2, 5 emissions; 2 processes, 2 frames, 1 reconnect, 1 panic; 2 lives of a probed endpoint | `DeliverySpec`, `EventuallyAccounted`, `RestartsAreWritten`, `FailureIsReported`, `StartsWhenReachable` | the caller reads every event in order or that it was dropped, and what must arrive does; a restart with rows is written, a failed archive is told unless a patch's task took it along, an endpoint that answers is recorded or refused |
| `producer_side` | 3 threads, 2 shards, 3 adds; 3 callers, 3 sets, 2 reads, every kind; width 8, amounts 0, 1, 3, 4 writes; 2 subscribers, intervals 5 and 8, floor 8, time to 21, steps of -7 and 9; 2 occupants, 2 schemas, 3 keys, 4 windows, 2 in flight, 1 drop | `LeasesExclusive`, `NoShardLeaks`, `ReadBounded`, `PairedWithItsOwnWindow`, `ReadsWhatWasWritten`, `ReadsTheSum`, `NeverServedTwice`, `SeqIsEvidence`, `RowsWrittenExactly` | what a reader gets of a value several threads write; a pass once, loss shows in `seq`, rows end under their occupants and once |
| `group_builder` | 2 threads, 2 groups, 2 slots, 3 uids, 3 builds, `All` and `Slots`; a family of 2, 2 addresses for dynamic metrics under 2 names, 2 plain slots, 2 wide builds | `GroupsAgree`, `UidNeverReturns`, `ServesTheOccupant`, `KeyNamesOneOccupant`, `EveryHandleOwnsItsSlot`, `QuietBuildExact` | who a row is about while producers and builds overlap; what a wide build that nothing overlaps emits, a dynamic metric under the name its position had when the schema was made |
| `streamed_source` | 3 processes, 4 frames, 2 reconnects, 1 panic; 3 lives, 2 connections, 2 retries; a source of each transport, interval and timeout of 1, time to 4, 1 patch, every stop, 1 clock correction | `RowsReadUnderTheirEpoch`, `OneProducer`, `FinishCommitsAll`, `RepliesDescribeTheirProcess`, `EndsAtTheExit`, `StopIsTakenInTurn` | rows and replies belong to their process; a good finish lost nothing; a stop for an exit ends after it, and is not starved by ticks |
| `archive` | 2 occupants, 2 schemas, period 2, 6 time units; 2 tenants, 3 rows, 3 changes, 2 opens; 3 blocks, budget 3, 2 readers; 4 entries, 1 edit | `EveryRunDecodes`, `RetainsTheWindow`, `RowsAreLabelled`, `OpenIsAsFresh`, `QueryIsExact`, `AnswerIsTrue`, `CachesKeepTheirBudget`, `EditsSurvive`, `ReadsAsAllDeclared` | what sealing, retention, compaction and edits leave is readable, also by a reader that was open before |
| `archive_reads` | tables of up to 4 segments with overlaps, gaps and relabels; two sources of a counter | `ReadsAgree`, `ChunksKeepTheirWord`, `AnswersAsTheUnion`, `ConflictsAreFound`, `BlocksAreFinal` | reads by three paths agree; the batched rate is the whole one |
| `emitter_failed` | as above | `SentAsTheChannelHasRoom` **violated** | after a failure the ticker is off and nobody flushes what is queued |
| `long_builder_present` | 1 group, 1 slot, `Present` | `ServesTheOccupant` **violated** | a slot that was silent while its occupant changed is served as the old one |
| `streamed_source_finish` | 3 processes, 3 frames | `FinishWritesPendingRestarts` **violated** | a restart without a row keeps earlier ones from being written at a finish |
| `archive_writer_returns` | long form, 8 time units, occupants may return | `RowsAreLabelled` **violated** | an occupant that returns after a period away is written without labels |
| `exposed_histogram` | 2 callers | `ExposedPairIsNotTorn` **violated** | a histogram's window and buckets are read one after the other |
| `wide_identity` | 2 plain slots, then a family of 1, 2 wide builds | `QuietBuildExact` **violated** | two memberships fold to one identity, and a schema is reused for the other |

Each run with a violation quotes, under `findings`, the line of the docs that
the code departs from. `archive` and `producer_side` exclude by name what two of
them show: `Returns = FALSE` keeps occupants from returning after a period
away, and `PairedWithItsOwnWindow` leaves the kind `exposed` out. `group_builder`
has its family before its plain group: a family's version says where its members
end in the identity, which a plain group's does not.

### Bounds, and why they are enough

- *Events*: with a channel of one and a cap of two, five emissions fill both,
  merge two drops into one `Lagged`, and have one event to come after it.
- *Shards*: three threads on two shards are one more than can hold a lease,
  so one shares; one exits and its shard is leased again. Three adds put one
  on either side of a reader's load in each shard.
- *Windowed values*: three callers are the writer that allocates the lock, one
  that waits for it, and a reader that did not find it. Three sets and two
  reads let the second read go back, if it could.
- *Group entries*: modulo 8 with adds of 0, 1 and 3, four writes wrap, meet
  the sentinel and meet zero.
- *Slots*: two calls overlap in every order over two groups; three occupants
  allow A, B, A in one slot.
- *Builders*: three long builds are the one that fills the cache, the one that
  believes it and the one that finds it stale; a wide build reads twice, so
  two have every relation of four walks. One family of two slots reuses a
  slot during a walk. Two addresses let a dynamic metric move in the walk or
  give way to another between two builds.
- *Passes of an endpoint*: the floor is 8 and shared within 6, so that intervals of 5 share
  and intervals of 8 do not; time to 21 holds four boundaries of one
  subscription. A step of -7 is longer than its interval and one of 9 longer
  than the floor. Every request is for the wide layout: the layouts share
  nothing, and the turn of each is taken by the same code.
- *Streamed group*: a drop with two frames in flight loses a schema, its row,
  or both; three keys let a restarted producer reuse one.
- *Streamed source*: three processes are two restarts that wait at once, or a
  restart and a change of producer; four frames give each a row and one more;
  a channel of two makes the pump wait. `FETCH_ATTEMPTS` has its own value, 3.
- *Hook*: three lives and two connections let a reply of the first arrive in
  the third; two retries are spent and one is left.
- *Passes of the driver*: with an interval and a timeout of one, four ticks of
  time hold a tick that overruns, a command behind it, and a stop's own pass
  and wait; an exit falls before, into and after a pass. Beside a streamed
  source the instance asks for an exit only and leaves corrections out
  (`MCPassesNext`); beside a scraped one too, its producer is punctual.
- *Writer*: six time units hold two restatements with a period of two, and
  seals and evictions between them; the violation needs eight.
- *Reader*: three rows and three changes of their segments are a seal, a
  compaction or eviction, and a number used again; two opens, the second with
  what the first kept; a cache of one segment must evict.
- *Caches*: sizes of 1, 2 and 4 with a budget of 3 are one that fits, two that
  do not both, and one that never does.
- *Layers*: four entries over two epochs and two texts hold a declaration, its
  repetition, its contradiction and one entry more; an edit is a removal or a
  value.
- *Reads*: chunks of one and two segments over four have a chunk in front of,
  across and behind every overlap; steps of a relabelling put a column under
  one label before and another after. A label is held by one column at a time
  (`OneHolder`), and windows are not compared.

`MaxEmit`, `MaxAdds`, `MaxCalls`, `MaxReads`, `MaxWrites`, `MaxUid`,
`MaxBuilds`, `MaxWideBuilds`, `MaxNames`, `MaxTime`, `MaxReadings`,
`MaxFaults`, `MaxKeys`, `MaxWindow`, `MaxFlight`, `MaxDrops`, `MaxProcs`,
`MaxFrames`, `MaxReconnects`, `MaxPanics`, `MaxLives`, `Connections`,
`MaxGap`, `MaxRows`, `MaxChanges`, `MaxOpens`, `MaxQueries`, `MaxPuts`,
`MaxOffers`, `MaxEdits`, `MaxClock`, `MaxPatches` and `MaxCorrections` bound behaviours and have no counterpart in the
code (`MaxFlight` stands in for the socket). `ChanCap`, `QueueCap`,
`NumShards`, `Modulus`, `Floor`, `StreamCap`, `FetchAttempts`, `ChannelCap`,
`EnrichRetries`, `RestateEvery`, `Retention`, `CacheSize`, `Budget`, `Probe`,
`Side`, `Block`, `Lag`, `Width`, `Every`, `Timeout`, `Bound`, `Served` and
`StreamRoom` do, and are smaller here than there.

Threads, callers, subscribers, names and tenants are interchangeable where no
liveness property is checked, and symmetry is used there. Slots and groups
are walked in order and are not.

### Fairness

- `Emitter`: the driver task and the spawned task run (WF of a call's steps,
  of the hand-off, of the task's sends), and the interval ticks while the
  recorder runs. WF of `Recv` is the caller's part of the bargain and is named
  as such. Neither a stop nor a drop of the receiver is owed.
- `StreamedSource`: SF of `Tick`, since the select is `biased` and has the
  ticker before the stream channel, so events that keep coming cannot starve
  it; WF of the driver's steps; SF of `Drained`, because a producer sends one
  frame an interval and the loop over the channel must find it empty sooner or
  later. Nothing is asked of producers, pumps or the caller.
- `ProbeHook`: the interval ticks and a tick that began goes on; a detection
  and the first ask end, since each is under a timeout. An endpoint owes
  nothing: `StartsWhenReachable` is about one that stays reachable.

`MCRecorderLive` conjoins these, each guarded by its `part`: only one part
moves, so each conjunct is the condition of one module.

## 4. Proofs

All are for every value of the constants that satisfies the module's named
assumption: capacities, sizes and periods are positive numbers, sets of
threads are finite, and markers such as "no labels" or "nobody" are not among
the values they stand beside. One assumption is about time: a producer that
counts as punctual answers no later than the driver waits (`Delay <= Served`
in `DriverPasses`).

| Module | Proves about |
|---|---|
| `RecorderProofs` | `Emitter`, its refinement of `EventDelivery`, `ProbeHook`, `DriverPasses` |
| `StreamedSourceProofs` | `StreamedSource` |
| `MetricValuesProofs` | `ShardPool`, `GroupEntry`, `WindowedValues` |
| `SlotProofs` | `SlotIdentity`, `LongBuilder` |
| `WideBuilderProofs` | `Family`, `WideBuilder` |
| `ReplicationProofs` | `StreamPasses`, `StreamedGroup` |
| `ArchiveProofs` | `ArchiveWriter`, `Layers` |
| `ReaderProofs` | `LiveReader`, `BlockCaches`, `SplicedReads`, `BatchedUnion` |

| Theorem | States | Argument |
|---|---|---|
| `EmitterTypes`, `ViewIsExact`, `QueueStaysBounded` | the emitter's types, `ViewExact` (the account `DeliverySpec` checks), `QueueBounded` | What was read, then the channel, then the queue, then the event in a call's hand account for the emissions one after another: each entry begins where the last ended, and stands for one event or for a run of droppable ones. Appending, merging a drop, and moving the front of the queue keep this; so a read is exact when it happens. The queue's bound counts the capped, the events never dropped, and the notes between them. |
| `EmitterImplementsDelivery` | `Spec => Delivery!Spec` | Under that invariant an emission maps to `Emit`, a read to `Deliver` or to the `Report` of its count, a close to `Close`, and every other step to a stutter. |
| `LeasesAreExclusive`, `NoShardEverLeaks` | the pool's two invariants | One fact is needed beside them: a thread without an id never touched its lease, so the lease it is given can always be stored. |
| `ShardsFollowThePeak` | `InUseFollowsPeak`: as many shards were handed out as threads ever held one at once | The leases and the pool together are the shards handed out, counted without repetition, and a new one is handed out only while the pool is empty: then the leases are all of them and one more is the new peak. |
| `GroupsAgreeUnlessRaced` | `GroupsAgree` | Of a slot that is not raced one call writes at most, with what `live` holds, and every group behind it has it (`WrittenSoFar`). When the call is past the last group they all do. |
| `NoUidReturns` | `UidNeverReturns`, overlaps included | A minted uid belongs to one call (`OneCallEach`) and to one slot of a group (`OneSlotEach`), and the groups the call has not reached do not hold it and never did (`UidsAhead`). So a store neither brings one back nor leaves a second copy of the one it retires. |
| `RunsDecode` | `EveryRunDecodes` | `anchored` is the schema of the last row of the open segment, and there is none when that is empty (`AnchorKnown`). A row without a schema repeats the last row's, which decodes. |
| `WindowIsRetained` | `RetainsTheWindow` | `opened` is the first timestamp of the open segment (`OpenKnown`), so an eviction that does not seal cuts no unsealed row; rows are in order, so a segment that goes has no row inside the cutoff. |
| `RowsKeepTheirLabels` | `RowsAreLabelled`, if no occupant returns after a period away | An occupant seen less than a period before the last restatement was stated at it (`StatedInTime`, `SeenSince`); so every row has a label less than a period older than itself, and labels are kept a period longer than rows. |
| `RepliesDescribe` | `RepliesDescribeTheirProcess`, whatever lives, retries and connections | An ask names the epoch its reply will be written under. Before the recording is added no event moves that epoch; afterwards events do, and only the comparison in `retry_enrich` keeps a reply from the epoch of another process. The strengthening says, for each place a reply can be in, which epoch it is about. |
| `HandlesOwnTheirSlots` | `EveryHandleOwnsItsSlot` | The table and the handles are inverse to each other, the free list has no repetition and is exactly the slots without a handle, and the count the others: a slot taken from the list has no owner. |
| `AddsAreAllRead` | `ReadsTheSum`, unless a sum met the sentinel | The entry is the sum modulo the width or the sentinel with nothing written; an exchange succeeds on the value it was computed from, so the sum moves by its amount. |
| `PairsAreRead`, `ReadsAreCurrent` | `PairedWithItsOwnWindow`, `ReadsWhatWasWritten` | Only the holder of the lock is between its two writes. A reader that found the lock holds it and reads a pair, and one that did not gives the value no window; the latter began before the lock was there, when no call had returned, so nothing it may read is too old. |
| `ReadsAreBounded` | `ReadBounded`, an action property | A read that has come to a shard has summed no more than the shards before it hold now, and no less than its floor leaves for the others (`ReadInv`). The sums are recursive functions over the shards; what an add does to each of them is an induction over the shards, done with a set of those where it holds (`UpTo`). |
| `SourceOneProducer`, `SourceFinishCommitsAll`, `SourceRowsReadUnderTheirEpoch` | `OneProducer`, `FinishCommitsAll`, `RowsReadUnderTheirEpoch` | The parts of `SSInv`: what is in the channel is stamped above what was taken and belongs to one connection until the next `connected` (`Ordered`, `Chained`); the rows of the recording in hand are of the producer on record (`RowsNamed`); every row taken is in a recording or staged for one (`TakenRows`), and nothing is staged at the finalize of an archive that did not fail (`Ended`); the entries written, followed by the restarts that wait, are in order and the last one at or before each row is of its process (`Spanned`). |
| `PassesTurns` | `StopIsTakenInTurn` | The ticks taken while a stop waits and the commands still before it are together no more than those that were ahead of it when it was sent, and one tick (`InTurn`). |
| `PassesEndAtTheExit` | `EndsAtTheExit`, while clocks are not set back | The parts of `DPInv`: where the driver is in its stop (`Where`); what succeeded in a pass was read no earlier than the pass is dated (`Dated`); a producer that serves on time has a frame out, or the next due, within its bounds (`OnTime`); and once the wait is longer than those bounds the newest frame of each such source covers the exit (`Heard`), so the wait does not run out on it. |
| `KeysNameOneOccupant` | `KeyNamesOneOccupant`, overlaps and every membership included | Keys go up, and a key in the cache or in the walk was served for that slot and occupant (`KeysInv`): a new occupant is served under a new key, or under the one it was served under before. |
| `QuietBuildsServeTheOccupant` | `ServesTheOccupant`, if the metrics of a group have one membership and it is not `Present`, raced slots apart | The first metric decides: another serves a slot only where the first did not list it. So what is kept of a slot is what the first metric's metadata says of it, unless that was written since the version the build read (`BuilderInv`). A build nothing changed under reads the groups as they are, and by `GroupsAgree` they say who lives there. |
| `QuietBuildsAreExact` | `QuietBuildExact`, where families are walked before plain metrics (`FamiliesFirst`) and no plain slot is numbered as a dynamic metric's position (`DynamicsApart`) | A cached schema's identity is the fold of its places, and each family version in it is either old by now, or the schema has of that family exactly what is there (`Known`, `SkeletonInv`): this is what reading the version before the members gives. Of the dynamic metrics the schema has each position it was made of, under the name it had then. An undisturbed first pass folds the group as it stands under the versions of now (`FoldInv`), so an equal identity means equal places and no old version, and the schema is the group, dynamic names apart (`SchemaIsNow`). That equal folds mean equal places (`OneFoldOneGroup`) is what the hypotheses are for: run `wide_identity` shows a plain metric before a family whose slots are read as the family's position and version, and section 6 a plain slot read as a dynamic metric's position. |
| `StreamedRowsAreExact` | `RowsWrittenExactly`: under the occupants of its pass, by the schema it was encoded with, and once | The producer's account of what the connection was sent is the last frame in flight, or what the writer has when none is; each frame leaves to the one before it what it does not say itself, and the first to the writer (`GroupInv`). Windows go up along a connection and none is below the last one written, across drops and changes of producer (`OnceInv`). |
| `SeqShowsWhatIsLost` | `SeqIsEvidence`, an action property | The index a subscription holds is that of its last wake by the clock as it was or later, and the clock's offset only goes down while it is not stepped forward (`IndexesHeld`); so the next index is no further ahead than the intervals that elapsed. |
| `PassesAreServedOnce` | `NeverServedTwice`, while the clock is not stepped and the jitter fits in the margin | A subscription wakes within the jitter of a boundary, and the pass it was sent last is an interval older than the next boundary, but for the jitter of a wake and a fetch (`ServedInv`): with an interval of a floor or more it is too old to be shared. |
| `AnswersAreTrue` | `AnswerIsTrue` | The index knows segments and unsealed rows by their ends, which were rows of the table and stay so; the unsealed rows read again begin where they began, or the answer is "unknown" (`IndexOK`). |
| `OpensAreFresh` | `OpenIsAsFresh` | Segments are adjacent and only become coarser (`Follows`): one that is gone stays gone, and one that is there has its rows. So an entry is of the rows listed at its place or says gone for good (`EntryOK`), also one folded by an earlier reader; and a state is passed on only when all its series had labels, which later labels do not change (`Carries`). |
| `QueriesAreExact` | `QueryIsExact` | A query has read places 1 to `idx - 1`: its samples are of those places, in order, and each place whose segment is still there is read whole (`QueryOK`). An entry of the cache has the rows listed at its place (`CacheOK`), and the range test on an entry's ends excludes only segments without a row in the range. |
| `ProducersReadAsDeclared` | `ReadsAsAllDeclared`, whole and per epoch | Every entry that is kept was declared, and every one declared is kept or stamped no later than the latest that was skipped (`Corr`). So an appended entry wins under the same keys over both; one that repeats the last of all wins only where that one does; and one the fold would not show is outdone, under each of its keys, by one that was declared. |
| `EditsAreKept` | `EditsSurvive`, an action property, with its exceptions for the producer's name | What a source shows under a key is that of the last layer entry with it, or of the file's own metadata where there are none. Before its own entry an append records what was edited outside as a person's, or the whole of it when there were no layers, so that the fold shows what was shown; and of the entry's own keys it leaves those a person owns. |
| `CachesAreInBudget` | `CachesKeepTheirBudget` | The bytes of the first entries are a recursive function of how many they are: an entry taken out, put last or dropped changes what they add up to by its size (`BytesRemoved`, `BytesAppended`, `BytesDropped`). So the count is exact and its saturation is never met, popping ends within the budget or with nothing left (`PopUntilIs`), and the pool stays the tail of the keys used (`RestoredAreTheLast`). |
| `ReadsAgreeHolds` | `ReadsAgree`, where a label is held by one column at a time, as `ColumnRelabel` asks of an implementation | All three reads are the samples of a set of the columns' places, in order (`SamplesAt`). The loop of the whole read joins its pieces (`MergedIs`); the pieces a stream leaves out are empty, being of places that cannot present as the label; a scan has read exactly the planned segments before its next one (`GotFine`), reading on appends (`ReadingOn`), and a segment that is not planned has nothing that was asked for (`ReadingAll`). With one holder, the pieces share no sample. |
| `ChunksKeepTheirWordHolds` | `ChunksKeepTheirWord`, an action property | The planned segments a live scan has left start no earlier than what was promised, a series that ended has no segment left, and the last segment that can hold a silent one is behind its scan (`PromiseFine`). An interleaving keeps this since it reads the scan whose rest is the earliest, and gives no rest while one is unknown. |
| `ConflictsAreFoundHolds` | `ConflictsAreFound` | A row that one source has read and another, which has not ended, still can is held (`Compared`): what the other is past it has read, since it reads its rows in order (`PassedIsOver`), and what the rest of the joined scan starts after it no longer meets (`RestIs`). A member that ended did so with its scan, or as silent; then no row of it is left, or the read is abandoned (`ComparedSoFar`). Each loop of a chunk is a recursive function, and what it passes through is an induction over its turns (`TakeRowsIs` and the like). |

Type invariants are proved with these (`EmitterTypes`, `SlotIdentityTypes`,
`ArchiveWriterTypes` and the like) and are in no run. Each inductive
invariant was checked with TLC first.

Left to TLC:

- the liveness properties, which need fairness and `ENABLED`;
- two properties of `BatchedUnion` (`AnswersAsTheUnion`, `BlocksAreFinal`),
  with the algorithms that compute its points, `GridRate` and `RowCoverage`:
  these compute by folds and filters over
  sequences of data. The library's induction theorems take a predicate, which
  these provers cannot instantiate. An induction over numbers can be written
  with a set instead (`UpTo`), for a recursive function; `SelectSeq` and the
  folds are no such functions. What is proved about is therefore written
  without them: `LiveReader` and the caches say which one entry is to go,
  `Layers` takes the entries of a layer as a set, whose last one an order
  gives, `WideBuilder` says what a build emits by its order and its members,
  `SplicedReads` enumerates sets of places and times, and `BatchedUnion` writes
  its loops as recursive functions and what it holds to compare as a set. Of
  `FlattenSeq` the proofs use what one more piece adds to it.

## 5. What is not modelled

- Values, samples, histogram arithmetic, and the encodings of rows, columns,
  frames and footers. The modules say who a row is about, when it is and which
  of two it is, and a number is a number only where arithmetic is the point.
- dendro: its tables, seals and writer thread are modelled as the code uses
  them.
- In the driver: the conversion of Prometheus text and the storing of its HELP
  texts, and what a patch a caller sends says. An interval has one row, or
  none, and the errors of taking it apart (`passes`, `decode`,
  `stage_streamed`) are left out: all go where a closed archive's error does.
  At a change of producer the commit and `add_source` may fail, but not the
  finalizing of the recording that ends there. Every handshake has an epoch.
- In the long form: histogram groups, which are listed by their metadata store
  as a group under `Slots` is, and read no value of their own membership.
- In the writer: the schedules of samplers and the descriptor stream; the split
  of a seal past `max_rows` into segments, and when an occupant stream seals
  (its rows stay, by timestamp, until the later cutoff they are evicted at).
- In the reader: the eviction of occupant streams. Table rows go, the
  descriptions stay, so a series is listed without labels only where it was
  never described; that descriptions outlive rows is `ArchiveWriter`'s question.
- In the coverage of rows: the shortcuts over whole runs
  (`batch_rate.rs`), which decide as the row by row comparison does.
- In the readers: in-memory stores, overlays, and the merge of other files'
  tables.
- In the layers: union keys and entries without an epoch.
- The query language beyond the batched rate of a counter: its parser and its
  numeric functions are sequential, and the repository checks them against a
  reference implementation query by query (`metriken-query/src/conformance.rs`).
- Formats and conversions, charts, the derive macros and model types: pure
  functions of their input, or expansions at compile time.

The lines that the modules map to are therefore the stateful minority of the
code: tests, conversions and numeric code are the greater part of it.

## 6. Observed while modelling

What the code does beside what a comment or a reader might expect, apart from
the runs with a violation. No run is spent on these.

- Overlapping calls about one slot can leave groups that disagree for good:
  the groups are written after the mutex is released (`identity.rs`, the doc
  of `SlotIdentity` and `assign`). `raced` excludes them.
- `retain` judges under the lock and releases later: an occupant assigned in
  between is released although `keep` was never asked about it.
- A group whose metrics differ in membership can serve a stale occupant: what
  was read under one metric's version is believed under another's
  (`LongBuilder` with `Mixed = TRUE` shows it).
- A dynamic metric at a position of the walk that was another's when the cached
  schema was made is served under that one's name and labels
  (`fold_group_identities` folds the position of a single metric, and a
  histogram's kind, but not its name). `QuietBuildExact` says so: its
  `DescribedAs` gives such a value the name of then, and its run reaches it, by
  an address used again and by a second name.
- A slot of a plain counter group whose number is the position of a dynamic
  metric folds to the same identity as that metric does: with `PlainSlots =
  {3}`, `NumStatic = 2` and `Addresses = {1}` TLC finds a build that serves the
  slot's value under the schema of the metric. It is the confusion run
  `wide_identity` shows, between other members; the run and the theorem of
  `QuietBuildExact` keep the two numbers apart.
- The two walks of a wide build need not agree on which members are registered
  when they change in between; a comment there assumes they do.
  `QuietBuildExact` is about builds nothing fell into.
- The dynamic registry is keyed by a metric's address: a second registration
  under another name replaces the first, also where `DynPinnedMetric` says it
  may be registered several times.
- After the wall clock stepped back, the held interval index hides an interval
  that is lost until the clock has caught up; and a pass can be shared with a
  clock up to one and a half floors from its own.
- Set back between a pass and an exit, the wall clock makes that pass count as
  taken after the exit; `EndsAtTheExit` is about clocks that are not set back.
- An empty frame is dated when it is taken off the channel (`on_stream_event`);
  the doc of `await_frames` says it counts for a stop's wait when it arrived
  after the exit.
- A metadata patch whose task panics takes the archive along and marks the
  recorder failed, which disables the tick; its caller gets an error, and no
  `Event::Failed` follows (`patch`, `blocking`). `PatchPanics` is a step of
  every run of `StreamedSource`, and `FailureIsReported` names this exception.
- `StreamDecoder`'s doc says one per connection; there is one per endpoint.
  `RowsWrittenExactly` holds with that.
- The last failure of an enrichment clears what is owed, so the branch of
  `retry_enrich` for retries that are spent is never taken; an ask owed to a
  source that is refused stays owed and is never made.
- A compaction under an open reader makes its rows read as gone until it is
  opened again.
- `counter_streams` and the scans decide whether a series has windows by its
  first location; `counters` drops them when locations differ.
- An entry of a producer that is skipped in the layers as changing nothing may
  be overtaken by one stamped earlier that arrives later; the code documents
  this exception, and `ReadsAsAllDeclared` makes it.

## 7. What is left

1. `DriverPasses` with failures of the archive and with restarts, composed with
   `StreamedSource` rather than beside it.
2. A proof of the batched rate: first that `Push` and `Finish` compute
   `RateAt`, and the `RowTrack` `Runs`, for every sequence of samples.
3. Layers: union keys and entries of before epochs. Readers: overlays.
