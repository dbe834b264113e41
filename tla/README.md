# crosstick in TLA+

crosstick reconstructs L2 order books from crypto venues (Python ingesters), keeps
every message in Redpanda topics, derives a live BBO and a cross-venue NBBO from
them (a TypeScript gateway), and archives the topics as Parquet objects that batch
jobs read (Python materializer, silver, gold, research). This directory holds TLA+
models of the parts where order, failure and interleaving decide correctness, the
TLC runs that check them, and TLAPS proofs of what matters most.

    tlc -workers 2 -config MCGatewayConverges.cfg MCGatewayBook    # one run
    tlapm GatewayOutputProofs.tla                                  # one module's proofs

`PROJECT.json` lists the components, the runs with their properties, the mutants
that break each property, the source lines every definition translates, the
hazards, the findings and the theorems.

## Inventory

| Component | State | Operations | Interacts through | Hard because | Correct when |
|---|---|---|---|---|---|
| ingester base (`ingest/base_ingester.py`) | per-symbol context (state, last_seq, book, buffer), queue, epoch, `_produce_failed`, `_connected` | connect, reset, bootstrap, read, apply, periodic snapshot, heartbeat, watchdog, wind-down, backoff, shutdown | websocket in, snapshots / deltas / status topics out | six asyncio tasks interleave at every await; pipelined sends fail late; connections overlap with what outlives them | published messages rebuild the book without a silent gap; it always recovers |
| binance spot, futures (`binance.py`, `binance_futures.py`) | REST snapshot handoff, generation, sync point | bootstrap, buffer, apply snapshot, drain, gap-check | REST in the background | the snapshot races the stream and the reconnect | the local book is the venue's book at its sequence |
| coinbase, kraken | expected sequence; synthetic sequence, checksum, trim | in-band snapshot and deltas | websocket | a gap is only seen on a later frame; levels vanish without a delete | the live book is what the venue shows, and a reader of the topics can rebuild it |
| ingest process (`ingest/main.py`) | one or two ingesters, one producer | build, signal, gather, stop | signals, the container's restart policy | a signal at any await; two ingesters of which one may raise; a killed process says nothing | the last status is the true one; it stops when told to and otherwise always comes back |
| book (`book.py`, gateway `book.ts`) | two sorted maps, sequence (gateway: epoch) | snapshot, delta, trim, clear, best, crossed | called by ingesters, gateway, silver | | |
| aggregator (`aggregator.ts`) | book, pending deltas, applied tail, evicted mark, last BBO, per stream | applyBook, snapshot | two topics with no order between them, consumed from anywhere | reordering, restarted sequences, lost deltas, bounded memory | always a book of the producer, the latest when all is read |
| NBBO (`nbbo.ts`, `router.ts`) | legs, down venues, last tuple | onBBO, setVenueDown, snapshot | BBOs, status heartbeats, stream clock | clock is a maximum over topics; eviction and return | the NBBO is the best of the live venues |
| server (`server.ts`, `warmstart.ts`) | consumer offsets, drain gate, stream clock, last heartbeats | consume, seek, gate, evict, shutdown | Kafka, WebSocket clients | restart in the middle of a stream | derived output is never older than what was published |
| batcher (`batcher.ts`) | queues per topic, `queued`, `flushScheduled`, `sending`, `current` | enqueue, flush, settle, drain | kafkajs sendBatch | sends fail, are repeated, and race each other | per-topic order, bounded requests, nothing stranded |
| broadcaster (`broadcaster.ts`) | clients | add, broadcast, drop slow | sockets | | bounded memory |
| materializer (`service.py`, `bronze.py`) | buffers per partition, fetch position, committed offset, objects | poll, append, cut, PUT, commit, sweep, revoke | consumer group, object store | crash between PUT and commit; rebalance inside a batch | every record in exactly one object |
| silver (`silver/main.py`, `silver/dq.py`, `common/asof.py`) | one date's fold, reorder window, legs, writers | fold, rows per dataset, status transitions, NBBO, markers | reads bronze, writes silver objects | two files merged; bounded reordering, ties; partial and repeated builds | a complete date is a function of its bronze |
| gold (`gold/`) | accumulators per partition, budget, summaries | scorecard, grading, basis | reads silver, writes gold objects | batch boundaries; six scopes of a bound; a rerun over an older run's objects | a complete date is a function of its silver |
| research (`features.py`, `model.py`, `validation.py`, `main.py`) | feature matrix, splits, feature cache | build, split, fit, cache | reads silver beside the jobs | off-by-one in time is invisible; silver is rewritten under a study | nothing from the future; never a stale matrix |
| exporter, analytics, dashboard | last snapshot; files; widgets | | read what the others wrote | | |

## Modules

| Module | Models | State and actions |
|---|---|---|
| `SeqLoop` | a loop over a sequence | `Loop` of any body, and what holds of every loop |
| `DepthBook` | both books' levels | a side is a function from prices to sizes; pure operators |
| `Aggregator` | `applyBook` for one stream | the five Map entries of a stream as one record; `ApplyDelta` and `ApplySnapshot` are the two branches, with one operator per step (`Buffer`, `Take`, `ReplayTail`, `PruneTail`, `Drain`, `DeriveBbo`); its loops are `SeqLoop`s |
| `GatewayBook` | one stream end to end | the producer's history, the two topics, the gateway's two positions; `ConsumeSnapshot`, `ConsumeDelta`, `WarmStart` |
| `StreamView` | the gateway's promise | a view of some book the producer had, moving forward only |
| `GatewayPreseek` | the start-up of a restarted gateway | `Run` from the committed offsets, `Seek` to the plan |
| `NbboAggregator` | `nbbo.ts` and `emitNbbo` for one instrument | the class as a record; pure operators `OnBBO`, `SetVenueDown`, `EvictAll`, `Flushed` |
| `VenueNbbo` | `eachMessage` and `handleStatus` around it, `DrainGate` | one action per kind of message (`Consume`, `Skip`, `Trade`, `Status`); `Arm` is the plan's answer, `Straggle` the message whose handler was suspended while the seeks landed |
| `RestDepthSync` | `binance.py` and `binance_futures.py` over `base_ingester.py` | one action per stretch between two awaits of the reader, applier, fetch, snapshotter, sender and connect loop; `market` says which driver's rules hold |
| `LevelBook` | `ingest/book.py` | the set of levels; an operation that raises names its error in `raised` and leaves the book as the code does |
| `InBandSync` | `coinbase.py`, `kraken.py` | `driver` says which; `Receive` is `parse_message` of one frame with all its events; the records go to one `log`, cut by `Midnight` |
| `BookFold` | `silver/dq.py`'s fold | merge of the two topics, then `Folded`, record by record; the streamed and the in-memory driver |
| `IngestProcess` | `ingest/main.py`; `run()`, status, heartbeat, watchdog and backoff of `base_ingester.py` | one record of tasks and fields per ingester; one action per task between two awaits |
| `AsOf` | `common/asof.py` | the k-way merge by tick and the reorder window as folds |
| `SilverFacts` | row builders, status and NBBO of `silver/dq.py` | pure operators over `AsOf` |
| `GoldMarts` | scorecard, budget, basis | the accumulators, the row-by-row oracle, the ladder of bounds |
| `FeatureMatrix` | `features.py`, `model.py`'s rows, `validation.py` | one operator per family of columns; splits and embargo |
| `LakeJobs` | `silver/main.py`, `gold/main.py`, `lake.py`'s writers, the cache of `research/main.py` | objects by date and key; one action per object written, deleted or marked; each may fail or be killed |
| `LakePromises` | | what the lake jobs promise, over definitions of its own (`PointInTime`, `BasisInTime`, `Bounds`) |
| `EmitBatcher` | `batcher.ts` and the shutdown of `server.ts` | one action per callback; sends in flight as records, each topic of the broker as a sequence |
| `LatestValue` | what a reader of a compacted topic relies on | |
| `GatewayOutputProofs` | | theorems about `VenueNbbo` and `EmitBatcher` |
| `Materializer` | `service.py`, the keys of `bronze.py` | one coroutine, `pc` saying where it is suspended; a crash at any of them |
| `GatewayBookProofs`, `MaterializerProofs`, `IngestProcessProofs`, `RestDepthSyncProofs`, `InBandSyncProofs` | | theorems about the module of that name |
| `LakeProofs` | | theorems about `LakeJobs` and what `LakePromises` says of it |
| `MaterializerRebalance` | the rebalance listener | adds `OnPartitionsRevoked` and the failure of a flush whose buffer is gone |
| `MCGatewayBook`, `MCGatewayPreseek`, `MCVenueNbbo`, `MCInBandSync`, `MCLakeJobs` | | first books, quotes, levels, and the bronze and job scripts of the runs |

How they hang together: `SeqLoop` is instantiated with the bodies of `Aggregator`,
`LevelBook`, `BookFold` and `InBandSync`. `LevelBook` is used by `BookFold`, and that by `InBandSync`,
which so composes an ingester with the reader that rebuilds its book. `AsOf` carries
`SilverFacts`, that `GoldMarts`; `LakeJobs` runs these and `FeatureMatrix` over one
lake. `DepthBook` and `Aggregator` are composed with a producer by `GatewayBook`, and
`NbboAggregator` with venues and the drain gate by `VenueNbbo`.

Operators commented as faulty (`NoBookYet`, `FlushConcurrently`, ...) are not part of
any specification. Each is a plausible bug of the definition below it, and
PROJECT.json says which property notices it.

### What is abstracted

* Prices are naturals, sizes a small set, `0` no level. The gateway compares decimal
  strings exactly (`cmpDecimal`), so only the order matters.
* In `RestDepthSync` a level's content is the number of the venue update that wrote
  it last. Every write is distinct, so two equal books have applied the same writes.
* In `LevelBook` a level is there or not, so an update of a size alone is no change;
  which levels are missing or too many is what `InBandSync` is about. Kraken's
  checksum is the set of levels it covers: two different books never collide.
* `IngestProcess` knows of a frame only whether it is applied, ignored or asks for a
  resync. `FLOAT_MAX_EXP` stands for the 1024 doublings a float has.
* Sizes, prices and statistics of `GoldMarts` are exact naturals, the p99 is numpy's
  interpolation in hundredths; std, p50 and p95 are left out. A return in
  `FeatureMatrix` is the pair of values it compares.
* In `LakeJobs` jobs run one after another, as their schedule has them, beside at most
  one study. Bronze grows between jobs only. Reading the sources' fingerprint and
  building a matrix are one step each, with everything else possible in between.
* The order of rows with equal times is unspecified in `load_*` (an unstable sort):
  `NothingFromTheFuture` is stated for both orders of a tie.
* Timestamps, metrics and logs are left out, except the underrun counter, which is
  the code's own statement that a heal may be incomplete.
* Epochs are 1, 2, 3, ...: `_reset_contexts` makes them increase within a process
  (`max(epoch + 1, now)`). The gateway tests epochs for equality only. That
  nanosecond epochs lose their low bits in `JSON.parse` (256 ns at today's values)
  and could coincide after a backward clock step is not modelled.
* One stream, one symbol. Aggregator entries are keyed per stream and the code
  never reads another stream's, and the ingester's symbols share only the queue and
  the connection's end, which a fault already brings about at any time. Frames of other
  symbols appear in `InBandSync` as frames with no event, since coinbase counts them.
* `VenueNbbo` has one canonical instrument: the aggregator's Maps are keyed by it,
  and only `downVenues` is shared. What a book message does to its stream is
  `Aggregator`'s subject; here it makes some BBO or none, with any event time, so
  the three topics may be consumed in any order. Offsets count from the drain target
  (`0`; `1` is all that follows), since the gate compares with that only. Venues are
  numbered in the alphabetical order that breaks ties.
* `evictSilentVenues` takes venues down one by one, in the order of a Map. `EvictAll`
  says at once what is left afterwards, and `MCVenueNbbo` assumes
  `EvictAllIsTheLoop`: TLC compares it with the loop, in every order of up to three
  venues. Intermediate NBBOs of that loop, which no other code sees, are not states.
* The broker appends a partition's messages in order. A request kafkajs has given up
  on is assumed not to be appended later.

## Runs

| Run | What it asks | Bounds, and why they are enough |
|---|---|---|
| `gateway_converges` | any cross-topic order, two connections with restarted sequences, re-snapshots, a late start at every offset the plan may choose: `BookIsTheProducers`, `ReadToTheEndMeansCurrent`, `BboIsTop`, refinement of `StreamView` | 3 prices: enough for a book to cross, delete and refill. 2 connections are what a mixed-up epoch needs; 2 deltas each, so that one can be buffered and one superseded; tail of 2, its least size, so that it overflows; pending cap as large as the deltas there are: with overflow a gap is possible (see the hazards) |
| `gateway_heals` | one lost delta, 4 deltas, 2 re-snapshots: a crossed book, the rewinding snapshot, the replay, with and without overflow of the tail | one loss crosses the book; 4 deltas leave some on both sides of the snapshot and overflow the tail |
| `gateway_preseek` (violation) | the prefix a restarted gateway consumes before its seeks land | 3 deltas, one snapshot, nothing lost |
| `nbbo` | any order of BBOs, trades and heartbeats of either state, with any event time, before and after the gate is armed: who is out, what is published, when output is held, that it resumes | 2 venues, each with one book partition; 2 quotes with equal bid prices that the size decides, and different best asks; times 0 and 1 with a timeout of 0, so a heartbeat is as old as the limit or older; one message in front of the backlog's last, so that a partition can be half-way; undecodable messages in the backlog and behind it |
| `drain_gate` (violation) | the same, when the suspended message may be the target itself | |
| `rest_sync` | spot and futures: a 3-update venue of 2 prices, events of 1 or 2 updates, a REST answer up to 1 update old, one fault, one periodic snapshot, queue and buffer of 1: `BookIsTheVenues`, `SnapshotsAreTheVenues`, `NoSilentGap`, `EventuallySettled` | events of two updates straddle the snapshot; queue and buffer of one overflow at once; one fault ends a connection and what outlives it meets the next; the property is about a single recovery. 1.08 million states |
| `in_band` | coinbase and kraken: 4 levels, a window of 1, a checksum over 1, 2 frames of the venue, one lost, repeated or garbled frame or lost connection, one periodic snapshot, a midnight anywhere: `BookIsTheVenues`, `SilverRebuildsTheBook`, `FoldsAgree`, `EventuallyLive` | a window of one is left and re-entered by any update, and a second level of a side is outside it; two frames are a loss and the frame that reveals it. 760 thousand states |
| `ingest_process` | the two ingesters of binance-futures: `GoodbyeStands`, `ShutdownEnds`, `AlwaysBack` | one owns the status topic, the other polls; a queue of one is full at once, the second failed dial in a row overflows the backoff; two faults, so that a second one strikes while the first is being handled. 216 thousand states |
| `lake` | silver, gold and studies of 3 venues over 2 dates: `SilverIsBronze`, `GoldIsSilvers`, `NothingFromTheFuture`, `CacheServesSilver` | `Calm` runs every corpus once without a fault (an epoch storm inside and outside the reorder window, a rejected update, ties, a missing header, a one-sided book, downs); `Rough` reruns the jobs twice with late records, two faults or two studies. A window of 4 ticks is narrower than the corpora are long, so that legs expire and windows go stale. 147 thousand states; the state is records of objects, whose type says nothing, so there is no type invariant |
| `batcher` | per-topic order, nothing skipped or stranded, the compacted topic never goes back; 2 topics, cap 2, 4 messages, 2 appends | a batch splits a topic's queue, a remainder waits behind a send, a block is appended twice |
| `materializer` | every record in exactly one object, committed ones never rewritten, everything archived in the end; 2 partitions of 3 records over 2 dates, chunks of 2, one crash or shutdown | every cut occurs and the crash hits each await; two partitions show that a partition's cut leaves the other's alone |
| `materializer_rebalance` (violation) | one partition, one rebalance | |

Reached by hand-made mutants: each property of a passing run has one in PROJECT.json,
so none of them holds because its case never happens. `CHECK_DEADLOCK FALSE` stands
only in models that may stop: the venue may fall silent, the process may exit, the
bounds are used up.

### Action and liveness properties

`HealRestoresTheBook`, `HealKeepsProgress`, `CommittedObjectsStay` and
`OnlyRebuiltBooksSpeak` are about steps; `ImplementsView` and `LatestNeverGoesBack` are refinements.

`GoodbyeStands` is an action property too: once the final 'down' of a process is in the
topic, no status is appended until the next process has started.

Fairness is stated where a liveness property is checked.

* `RestDepthSync`: weak fairness of each task, since asyncio runs every ready task;
  the venue, the faults and the timer of the snapshotter have none. A suspended
  `send` is assumed to return (aiokafka's request timeout bounds it) and the REST
  call to answer (10 s client timeout). `EventuallySettled` admits the state
  BUFFERING with the snapshot at hand, because the code applies a snapshot on the
  next delta only.
* `InBandSync`: weak fairness of connecting, of sending a periodic snapshot and of
  taking a frame that is there. The last is written out as
  `<>[](up /\ net # <<>>) => []<><<Receive>>_vars`, whose premise is when `Receive`
  can take place. The venue owes no frame but the answer to a subscription.
* `IngestProcess`: weak fairness of every task of every ingester, of the producer's
  acknowledgements and of the process itself (gather, the producer's stop, the
  container's restart); none of the venue's frames, the faults or the signal.
  `AlwaysBack` rests on `restart: unless-stopped` of the compose file where the
  backoff overflows or one of two ingesters raises.
* `VenueNbbo`: the messages of a backlog exist in the log and are fetched, and a
  suspended handler goes on. The venues, the trades and the start-up owe nothing.
  `GateOpens` holds if the last message of each backlog decodes, which `Undecodable`
  says by leaving out `0`: `observe` is not called for a message that `decodeMsg`
  rejects, and the gate would wait for a later message of that partition.
* `LakeJobs` claims safety only.
* `EmitBatcher`: the setImmediate callback runs, a send settles (kafkajs request
  timeout and bounded retries), a resolved await resumes.
* `Materializer`: the coroutine runs on (weak). That a buffer which stays is due at
  the end of some cycle (its age only grows, `flush_interval_sec` is finite), and
  that records which are there are fetched in some cycle, is strong fairness, as
  these hold of a cycle and not at every moment.

## Findings

* **The warm-start prefix is not harmless** (`gateway_preseek`, `server.ts:396-398`).
  The gateway must call `consumer.run()` before it can seek. A delta consumed from
  the committed offset is buffered; the seek then delivers the latest snapshot,
  whose drain applies that delta and moves the book's sequence past deltas the
  gateway has not seen. When the seek replays those, the sequence guard drops them
  as duplicates, and the book lacks them until something heals it. The class header's
  order-insensitivity is over one topic read *in order*, which a seek backwards is not.
* **A message in front of the seeks can open the drain gate** (`drain_gate`,
  `warmstart.ts:166`). The gate is armed after the seeks so that no message of the
  old position reaches it (`server.ts:404-407`), yet `eachMessage` yields
  (`server.ts:331`) and may be suspended over both. Its message then reaches
  `observe`. The `engaged` set keeps a message past the target from draining its
  partition, but one *at* the target engages and drains it in the same call: output
  resumes while that book's replay is still to come. `GateHoldsTheOutput` proves that
  a message past its target never does.
* **A rebalance inside a batch breaks exactly-once** (`materializer_rebalance`,
  `service.py:87-89`). The listener drops the buffers while `poll_once` is suspended
  (in a PUT, for example). The loop goes on with the rest of its batch, which starts
  past the committed offset, and the consumer delivers the same records again: an
  object may hold a record twice, two may overlap, or a chunk is keyed past a hole
  that a commit then makes permanent. A flush listed as due whose buffer is gone
  raises instead. A smaller disagreement, which no property needs: the docstring
  calls the rewritten object identical, but a chunk cut again may be shorter or
  longer under the same key (`ExactlyOnce` holds all the same without a rebalance).

Behaviours met while modelling that no comment denies, or that a property excepts by
name:

* *backoff*: `base * 2**attempt` has no bound on `attempt`; after some 1024 failed dials
  it raises OverflowError out of `run()`. The restart policy covers it. Its cap of 30 s
  is longer than docker's 10 s of grace, so a process told to stop while it backs off
  is killed without a 'down'.
* *coinbase*: the expected sequence advances before the frame's events are decoded, and
  an event that does not decode is skipped: the book has a gap nothing reports
  (`blind`). A snapshot that is lost or garbled leaves the symbol in BOOTSTRAP until its
  first delta asks for a resync (`unanswered`). The second event of a symbol in one
  frame has the sequence of the first, and the book refuses it.
* *periodic snapshots* outlive their connection: one of the old epoch behind the new
  one's first resets the gateway's book and makes silver's fold raise (`late`). One that
  waits over midnight is dated to the new day (`SplitByMidnight`).
* *silver's fold* goes on applying deltas to an empty book after midnight or after an
  invariant error, until the next snapshot.
* *futures*: a quiet symbol whose REST snapshot ends exactly at the last event's `u` is
  not straddled by any event, so it resyncs until another update comes. When one
  ingester's `run()` raises, the other ends without a 'down'.
* *silver, gold*: a date that fails is said to leave nothing (`silver/main.py:408`), and
  leaves the objects written before the failure; a basis rebuild that fails leaves the
  older summary beside no series (`gold/main.py:128`). Markers are per dataset, not per
  date, so a backfill moves them back. A rebuild of a date whose status records have
  expired rewrites its NBBO without evictions. An object whose rows have become empty
  stays as it was.
* *research*: the fingerprint is taken before the build, so silver rewritten in between
  is cached under the old key (`torn`); the digests are remembered by size and mtime.
  `walk_forward` with a step below the test size tests dates twice, with a warning.

## Proofs

`GatewayOutputProofs` proves of `EmitBatcher`, for every set of topics, every cap and bound, and every
number of messages and resends:

* `OrderedPartitions`: `Spec => []PartitionOrder`;
* `NoMessageSkipped`: `Spec => []NothingSkipped`;
* `CompactedNeverGoesBack`: `Spec => LatestNeverGoesBack`, the refinement.

The assumptions are those of `EmitBatcher`: the cap is a positive natural and the
bounds are naturals. `PartitionOrder` alone is not inductive: that an appended block
continues its topic needs to know where the block came from. The invariant `Inv`
adds

* `Types`, the ranges of queues, sends and counters;
* `OneSend`, that `sending` says there is one send in flight, numbered by the last flush;
* `NothingSkipped`, that queue and send hold consecutive newest messages;
* `BrokerBehind`, that a topic holds no message newer than what was taken, and of
  earlier flushes none that the send in flight still carries.

`CutSequence`, `CutRun` and `TakeBatchCuts` say what a flush does to a queue: it
splits it in a front and a back. Each action has a lemma, one step per conjunct;
`OwnFlushKeepsInv` serves the four actions that call `flush()`. TLC checks `Inv` on
the run's instance too.

The same module proves of `VenueNbbo`, for every finite set of venues, all quotes, any timeout,
event times, partitions and backlogs:

* `TypeCorrect`, `DownFollowsTheLog`, `PublishedNbboIsTheBest`:
  `NbboSpec => []NbboTypeOK`, `[]DownIsWhatTheLogSays`, `[]PublishedIsTheBest`;
* `GateHoldsTheOutput`: `NbboSpec => OnlyRebuiltBooksSpeak`, under the hypothesis
  `StragglerFrom = 1` (a message suspended over the arming is past its target).

It assumes that venues are a finite set of naturals (their alphabetical ranks),
that every leg is a pair of natural prices and sizes, and that each partition
belongs to a venue. `PublishedIsTheBest` is not inductive: `emitNbbo` suppresses a
message by the tuple *computed* last, which while output is held is not the one
published. The invariant `VenueInv` adds

* `Tracks`, that `lastTuple` is the tuple of the live legs, or none without any;
* `Current`, that while nothing is held the published message has that tuple and
  names live venues only.

`LeastExists` (a strict order on a finite set has a least element, by the number of
elements before it) gives `BidWinnerWins` and `AskWinnerWins`: `compute`'s winner
exists and nothing beats it. One lemma for each of `OnBBO`, `SetVenueDown`,
`EvictAll` and `Flushed` says that it keeps the pair, and each action has a lemma.
For the gate, `GateInv` says that once it is armed a partition that is not pending has
been replayed, and that nothing is engaged while a message is still suspended.

`MaterializerProofs` proves, for every set of partitions and dates, every flush size,
batch size, log length and number of crashes:

* `ArchivedExactlyOnce`: `Spec => []ExactlyOnce`;
* `ChunksLieEndToEnd`: `Spec => []ChunksTile`;
* `CommittedNeverRewritten`: `Spec => CommittedObjectsStay`;
* `TypeCorrect`: `Spec => []TypeOK`.

The lake alone is not inductive: a PUT replaces what lies under its key, and only the
memory says what that is. The invariant `Inv` adds

* `Held`, that the chunk in flight, the buffer and the rest of the batch are one run of
  offsets from the committed offset to the fetch position;
* `Dated`, that chunk and buffer are of one date each, and shorter than a flush;
* `LakeFits`, that an object ends below the commit or starts exactly at it, that no two
  overlap, and that together they reach the commit;
* `Control`, what is empty or pending at each point of the coroutine.

So a chunk starts where the commit stands, and the one object its PUT may replace is an
uncommitted chunk of an earlier life of the process. It assumes the sizes to be positive
naturals and the bounds naturals. The rebalance is outside of it: there `Held` fails,
as the third finding shows.

`IngestProcessProofs` proves, for every set of ingesters, every queue size and any
number of faults:

* `TypeCorrect`: `Spec => []TypeOK`;
* `GoodbyeIsFinal`: `OneOwner` implies `Spec => GoodbyeStands`.

`OneOwner` says that at most one ingester of a process owns the status topic, which
`build_ingesters` ensures: with two, the 'down' of one could precede the other's 'up'.
That no message follows the 'down' needs more than the topic shows (`GoodbyeInv`): a
message awaited by `run()` stands in the producer's queue exactly while its ingester waits
for it (`InFlight`), there is one of these (`OneAwaited`), a 'down' is the last of the
queue, and an owner that parts has cancelled its heartbeat (`LeavesQuietly`). The
producer delivers in order, so an 'up' in flight is appended before the 'down' behind it.

`RestDepthSyncProofs` proves, for both drivers, every set of prices, all queue and
buffer sizes, event lengths, lags, faults and periodic snapshots:

* `LocalBookIsTheVenues`: `Spec => []BookIsTheVenues`;
* `PublishedSnapshotsAreTheVenues`: `Spec => []SnapshotsAreTheVenues`;
* `WhatWasSentRebuilds`: `Spec => []NoSilentGap`;
* `TypeCorrect`: `Spec => []TypeOK`.

The book alone is not inductive, since what is applied next comes from four queues and
a suspended task. The invariant `Inv` adds

* `Types`, that every event in the socket, the queue, the buffer or the applier's hands
  is one the venue sent (`Known`), and a REST answer no newer than the venue;
* `Published`, that the snapshots in the producer and the topic are of books the venue had;
* `Control`, that wherever the applier may go on, `last_seq` is the book's sequence.

The step that matters is `WrittenIsTheVenues`: an event that continues or overlaps a
book the venue had leads to the book the venue has behind it. `LatestIsLast` gives the
last of finitely many updates, by well-foundedness of the naturals, and
`ApplySyncedIsApplied` is the gap test of both drivers. It assumes the bounds to be
naturals, sizes and event lengths positive, and prices naturals.

That a reader who folds what was sent has the venue's book (`NoSilentGap`) looks at the
whole log. `Flow` adds that what the log, the queue and the sender's hands hold of an
epoch is one chain: each message is of the books around it (`Messages`), an epoch starts
with its snapshot (`Anchored`), nothing of it is missing between (`Whole`), and no later
message exists for an epoch that has ended (`Quiet`).

`SeqLoop` holds what the proofs of the gateway, the in-band ingesters and silver's fold
need to know of loops. `LoopStates` says for any body what a loop returns: the last of
a sequence of states, one for each element taken, each the body's of the one before. It
is proved once, by induction on the length of what is left in its set form, over any
body that is a constant operator, and instantiated with each body. An invariant of a
body is so an invariant of its loop. Two lemmas follow from it: whatever goes from the
first state to the next ones ends where the loop does (`LoopEnds`), and a loop over two
sequences goes on over the second where the first ended (`LoopOfTwo`).

`GatewayBookProofs` proves, for every set of prices and sizes, all histories of the
producer, any losses and any order in which the two topics are read:

* `Types`, `BboTheorem`: `Spec => []TypeOK`, `[]BboIsTop`;
* `HealKeepsProgressTheorem`: `Spec => HealKeepsProgress`;
* `BookTheorem`, `CurrentTheorem`: `[]BookIsTheProducers`, `[]ReadToTheEndMeansCurrent`,
  under the hypothesis `[]Roomy`;
* `HealTheorem`: `HealRestoresTheBook`, under `[]Roomy`;
* `ViewTheorem`: the refinement `ImplementsView`, under `[]Roomy /\ []Lossless`;
* `LogsFit` and `LosslessViewTheorem`: both hypotheses from the constants alone. A
  pending cap no smaller than `MaxEpochs * MaxSeq` never overflows, and with
  `MaxDrops = 0` nothing is lost.

`Roomy` says that the pending queue does not overflow: one that does drops deltas which
the book then never gets, so the others do not hold without it. That the book is the
producer's is not inductive. A delta is taken when it is *newer* than the book, not when
it is the next one, so nothing may be missing between; and a heal starts over from an
older snapshot, so what it has to put back must still be known. The invariant is

* `Shape`, that the topics hold the producer's own messages in order, and that the five
  entries of the stream fit what was read of them (`GoodTail`: the tail is what the book
  took last, behind what was shed);
* `Accounts`, that every delta read is in the book or waits for it;
* `Recalled`, that a heal replays every delta behind its snapshot, or the tail is marked
  as having shed it;
* `Truth`, that with nothing lost the book is the producer's of its number.

`Shape` needs no hypothesis. It assumes what `GatewayBook` and `Aggregator` assume:
bounds that are naturals, a tail of two or more, a pending cap of one or more.

`InBandSyncProofs` proves, for coinbase and kraken, any finite set of levels, any window
and checksum depth, and any number of frames, faults and snapshots:

* `TypeCorrect`: `Spec => []TypeOK`;
* `LiveBookIsTheVenues`: `Spec => []BookIsTheVenues`;
* `SilverIsFaithful`: `Spec => []SilverRebuildsTheBook`;
* `EitherFoldWillDo`: `Spec => []FoldsAgree`.

Here too the book alone is not inductive. Coinbase's handler trusts a delta it cannot
check, so `Counts` says that there is a history of the venue's books by which every
frame in flight leads from one to the next, and by which the expected number tells which
of them is the local one. Kraken's handler trusts its checksum, so `Windows` says that
what the frames show are windows of the subscribed depth; a checksum over fewer levels
than the window would let a wrong book pass, hence the assumption
`Depth <= CRC_LEVELS`. `Numbers` and `Live` are the ranges of the venue's numbers, and
that a LIVE book is not crossed and its record is in the log.

That silver rebuilds these books is a statement about the whole log, and about a fold
that takes its records in another order than they were sent: two topics, merged by epoch
and sequence, of one day. So nothing may be said by way of "the record before". `Told`
says that the log tells one story wherever it is read from:

* `Sound`: every delta makes its book out of that of a record it follows (`Succeeds`), and
  no record of the epoch has a sequence between theirs;
* `Agree`: an epoch's sequence stands for one book, since a periodic snapshot borrows its
  sequence from a book already told of (`Retold`);
* `Rising`: the deltas of an epoch come in order of their sequences;
* `Tip`, `Opens`: the LIVE book is the newest of the story, and a snapshot arrives only
  where one is awaited, so that only an epoch's first record is one of the venue's.

The fold is then followed record by record (`FoldedFolds`). Whatever row it is at, the
book is the one its last record names, or, after midnight and before any snapshot, a part
of it (`RecordIsNear`). The merge need not be shown to sort: `MergedInOrder` says that what it
yields is of the day and has every delta behind those the log has before it, and of a
record with a lower key than its predecessor's the fold makes no row.

That the streamed fold and the one which sorts its input agree is again about what the
fold refuses. `FoldRefuses` says that these are exactly the sequences in which a key falls,
or an offset of a topic does; `MergedHolds` and `SortedHolds` that merging and sorting lose
nothing, and that what they are given in order they leave so. So both drivers fold one
sequence where both topics are in line, and both refuse the day where one is not: the merge
passes a falling key on, and the sort makes falling offsets of it (`FoldsAreOne`). That a
refused day is one of a periodic snapshot sent late is the invariant `Filed`: otherwise the
epochs of the log follow each other, and the snapshots of an epoch rise in it, the one
that waits to be sent included.

`LakeProofs` proves, for every set of dates and instruments, every content of bronze, any
script of silver and gold runs, any number of faults, kills and late records, and any
studies beside them:

* `FeaturesAreOfTheirSilver`: `Spec => []CacheServesSilver`;
* `SilverIsThatOfOneRun`: `Spec => []SilverIsOneRun`: a date whose markers stand holds,
  object by object and nothing else, what one undisturbed run makes of its bronze
  (`RunOf`);
* `SilverIsBronzeWhereMerged`: `[]SilverIsBronze`, wherever the NBBO streamed out of the
  bronze at hand is the point-in-time one (`MergesInTime`);
* `GoldIsThatOfOneRun`: `Spec => []GoldIsOneRun`: a date whose gold markers stand has the
  scorecard, basis and summary of the silver beside it, and is called a breach exactly when
  that scorecard breaches the budget.

A silver run reads what it wrote itself: the NBBO is streamed out of the quote objects of
the date, and which symbols have any is found by listing them. So an object left by an
older run could become part of a new one, and an object whose writer was discarded could be
missed. The invariant `Inv` says why neither happens in a date that is marked:

* `Types`, `Grows`: jobs keep their shape, and what a date's bronze is due stays due as late
  records arrive;
* `NothingStale`: whoever wrote it and whether its run finished or not, no object of silver
  lies under a key its bronze would not fill;
* `AtSilver`, a conjunct for each stage of a run (`Starting`, `Folding`, `Writing`,
  `Reporting`, `Streaming`): what the run has passed is there with the rows of this bronze
  (`PairsKept`, `StatusKept`, `NbboKept`), and the rest is on its list;
* `Discarding`: what a writer on its way out may still publish is due, or gold's;
* `Grading`, the same for the stages of gold, by `ScoreKept`, `BasisKept`, `SummaryKept`;
* `SilverIsOneRun`, `GoldIsOneRun`, kept because every write to a date ends the history that
  `fresh` and `graded` are (`Rewrites`);
* `Served`: a key of the feature cache names the silver its entry was built of, unless it is
  `torn`.

`NothingStale` failed when it was first tried: a silver run that raised in the middle of a
partition could publish rows that an earlier date had left in `job.part`. The code cannot: its
batches are of the writers at hand. The model now says what these may have flushed (`Flushed`).
The assumptions are that an exchange trades an instrument under one symbol and is named by its
rank (`OneSymbolPerVenue`), that the scenarios are bronze and scripts (`ScenariosAssumption`),
and that late records leave no silver object without rows (`LateRecordsAdd`): bronze is only
appended to, so a partition, a topic or a quoted symbol that was there stays. TLC checks the
last of these over the scenarios of the run.

`MergesInTime` is a statement about data, a heap merge and a reorder window over one bronze.
TLC finds it true of every date that is fresh in the run `lake`; everything around it, the
failures, the repeated runs and the order of the writes, is proved.

In `EmitBatcher`, `BooksBalance` proves `Spec => []TypeOK`, whose conjuncts count what is
queued, in flight and dropped over all topics. A sum over a finite set is the community
module's fold, which picks its elements in any order; that the order does not matter
(`SumFunctionOnSet` of a set is that of the set without an element, plus the element) is
proved here from its definition, and then what each action changes, topic by topic. The
topics are assumed to be finite.

TLC has checked these invariants on small instances before they were proved: those of
`EmitBatcher`, `VenueNbbo`, `Materializer`, `IngestProcess` and `RestDepthSync` on the
instance of their run, `Told` and `Filed` on that of `in_band`, the parts of `LakeJobs`'
one on that of `lake`, and the others of `GatewayBook` and `InBandSync` on smaller ones.

Only model-checked: the liveness properties (no proofs under fairness), and what the lake's
algorithms make of one date's data. In `SilverIsBronze` that is the reorder window and the
merge under the NBBO (`MergesInTime`); in `GoldIsSilvers` the batched accumulators against
the row-by-row oracle, the ladder of bounds, and the basis against its point-in-time form;
in `NothingFromTheFuture` the as-of joins, windows and splits. These are inductions over
sequences of rows, merges and sorts.

## Not modelled

* The broadcaster: a set of subscriptions and a bounded send queue per socket. What it
  sends is the aggregators' last value; how long a socket takes is I/O.
* Digit-by-digit comparison of decimal strings (`decimal.ts`), JSON, Avro-like schemas
  and data contracts: data, with no state and no step.
* Prometheus metrics, the lag poll, the recv-clock canary, log lines.
* The token bucket: it delays subscriptions and REST calls, which may take any time
  already.
* Trades, liquidations and mark prices in the ingesters: passed through, nothing is kept.
* Estimators, bootstrap, placebo, information shares and reports of `research`: float
  statistics out of TLC's reach, over the matrix and the splits that are modelled.
* Exporter, capture and replay, dashboard: readers of what others wrote, whose last
  state is replaced at each turn.
* Kafka's elections, the object store's own failures other than a failed call, and the
  venues beyond the frames they send are environment. YAML validation ends a job before
  it starts.
* The NBBO's ages and crossed flags, and the pending cap of the aggregator: with it a gap
  is the code's documented choice, and the runs buffer every delta there is.

## What is left

1. `IngestToGateway`: `RestDepthSync`'s topics read by `Aggregator`, in particular the
   old connection's periodic snapshot behind the new one's first. Its parts are checked
   on their own; composed, the state space needs smaller bounds than either has now.
2. A run of the gateway in which the pending cap bites, with a promise for a book behind
   a gap: that the next snapshot ends it.
3. The data halves of the lake's promises for any corpora: `MergesInTime` first, since the
   rest of `SilverIsBronze` is proved, then the accumulators of the scorecard against their
   oracle and the point-in-time join, which is a merge by time stamps of two sequences.
