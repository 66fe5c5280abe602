# A verification project for Nereus

Nereus receives SNMP traps over UDP, decodes and enriches them with MIB data,
removes duplicates and groups related events, stores them in SQLite and notifies
webhooks. This directory holds TLA+ models of that program, TLC configurations
that check them on small instances, and TLAPS proofs of what matters most.
`PROJECT.json` maps every definition to the lines it models.

    tlc -config MCNotifier.cfg MCNotifier.tla      # check a run
    tlapm NotifierProofs.tla                       # check a proof module

## The system

| component | state | operations | what is hard about it |
|---|---|---|---|
| listener (`internal/listener`) | socket, handler channel, `running`, counters and maps | `Start`, `Stop`, reader goroutine, `handlerWorker` | unlocked statistics, a channel closed under its sender, a restart with the old channel |
| event processor (`internal/events`) | task queue, workers, result channels, statistics | `ProcessEvent`, `ProcessEventSync`, retries, `Close` | timeouts that race results, retry goroutines that outlive `Close`, a retry that meets its own traces |
| correlator (`internal/correlator`) | recent events, rules, groups | `ProcessEvent`, acknowledging a group, cleanup | a sliding window, rules visited in random order, groups that only a cleanup would end |
| storage (`internal/storage`) | batch, database, two workers | `StoreEvent`, `StoreEventImmediate`, flush, retention, updates, `Close` | failing transactions, three flushers, crashes, a cleanup without the lock |
| notifier (`internal/notifier`) | task queue, workers, header maps, statistics | `Start`, `SendNotification` and its filters, retries, `Stop` | a full queue, tasks owned by sleeping goroutines, maps that posts share, shutdown |
| HTTP client, retry, breaker (`internal/infra`) | circuit breaker, statistics | `SendWebhook`, `Retry`, `RecordSuccess/Failure` | callers share the breaker and are admitted once per call |
| configuration reload (`internal/infra`) | timer, flag, configuration, components, history | watcher, `TriggerReload`, `handleReload`, registration | bursts, concurrent triggers, failing components |
| MIB manager (`internal/mib`) | files, MIBs, OID tree, caches | `LoadAll`, watcher, `ResolveOIDDetailed`, `ResolveNameDetailed` | bounded and expiring cache, files that change while they are read, one lock |
| application (`internal/app`) | components, context, statistics | `Initialize`, `Run`, `handleTrap`, `Shutdown` | the order of starts and stops under load |
| metrics (`internal/metrics`) | server, collector, counters, health, readiness | `Start`, `Stop`, handlers | who sets what, and when; two goroutines that `Stop` waits for |
| BER decoder (`internal/mib`), validator (`internal/listener`) | an offset into one datagram | the functions of `SNMPParser`, `ValidatePacket` | lengths a sender claims, signs and widths |
| types, command line | none | | |

A trap goes from the listener's reader through the handler channel to a worker,
which decodes and validates it. Its callback `handleTrap` calls the event processor on the worker's own
goroutine: the MIB manager enriches, the correlator classifies, the storage
inserts. Then `handleTrap` reads the event back and offers it to the notifier,
whose workers post it through the HTTP client. The reloads run beside that path.

What makes each part correct:

- listener: an accepted packet is handled once; `Stop` ends and empties the channel;
- decoder: it never leaves the datagram, an intact trap is decoded to what was sent, a cut one is refused;
- event processor: each caller gets one result, a true one; a task has one owner; a late
  name is not given to another varbind;
- correlator: a duplicate is suppressed exactly within the window; groups partition events;
- storage: an event is in one place; `Close` and the retention lose nothing they should keep;
- notifier: a task has one owner, bounded attempts, one end; statistics agree;
- breaker: opens at its threshold, lets few late requests through, recovers;
- reload: one at a time, whole configurations only, no change forgotten;
- MIB manager: bounded cache, fresh and closest answers, changes loaded in the end;
- application: no worker uses a component before its creation or after its close, and no
  goroutine of the metrics outlives its `Stop`; all traps accounted for.

## The modules

| module | models | state and actions in the code |
|---|---|---|
| `Outbox` | the promise of a queue with retries for one task | abstract: refused or accepted, tried within a budget, ended once, failed only with the budget spent |
| `Notifier` | `notifier.go` | `queue` is `taskQueue`, `at`/`job` a worker's place in `processTask`, `sleeping` the goroutines of line 786, `call` the loop index of `SendNotification`; `complete` and `writing` are the header maps of lines 892 to 900; `PassesFilters` is the loop over filters and conditions |
| `NotifierProofs` | | theorems about `Notifier` |
| `Webhook` | `SendWebhook`, `Retry`, `CircuitBreaker` | `cb` is the breaker, `pc` a caller's place in `SendWebhook` and `Retry`, whose critical sections over the statistics (two each) are steps of their own |
| `EventProcessor` | `events.go` | `queue`, `at`, `sleeping` as above; the result channel of a task holds at most one result |
| `EventProcessorProofs` | | theorems about `EventProcessor` |
| `Correlator` | `correlator.go` | `recent`, `groups` and the rules; `cur` holds the mutex while rules are visited in any order |
| `CorrelatorProofs` | | theorems about `Correlator` |
| `EventStore` | the promise of the storage for each event | abstract: waiting, written with all that wait, stored until the retention, lost only by a crash while it waits |
| `Storage` | `storage.go` | `batch` is `batchQueue`, `table` the rows; every flush is one transaction that may fail |
| `StorageProofs` | | theorems about `Storage` |
| `Listener` | `listener.go` | `reader` and `at` are program counters; an increment of a shared counter is a load and a store |
| `ListenerProofs` | | theorems about `Listener` |
| `Reload` | the reload half of `infra.go` | `at` is the place of each goroutine in `handleReload`, `inProgress` its flag |
| `InfraProofs` | | theorems about `Webhook` and `Reload`, the two halves of `infra.go` |
| `MibManager` | loading, watching and resolving in `parser.go` | each operation under the lock is one step; `cache` is `oidCache`, `changing` the path the watcher sleeps for |
| `BerEncoding` | the senders | reference definition: the encoding of a trap, with short and long lengths; recursive functions where BER repeats |
| `Decoder` | `SNMPParser` in `parser.go`, `PacketValidator` and `processTrap` in `listener.go` | `offset` is the parser's, `at` the field it expects; what was parsed is kept as the place of its bytes, and `Packet` computes the values |
| `Enrichment` | `enrichEvent` in `events.go`, over `Decoder` | `lookups` are the goroutines that ask the resolver, each with its channel; `named` says whose answer each varbind was given |
| `MibProofs` | | theorems about `MibManager`, `Decoder` and `Enrichment` |
| `Metrics` | `metrics.go` | `server` and `collector` are its two goroutines, `stopping` the place in `Stop` |
| `Application` | `app.go`, over `Metrics` | `comps` gives each component's life, `stop` is the place in `Shutdown`, `at` a worker's place in `handleTrap` |
| `ApplicationProofs` | | theorems about `Application` and `Metrics` |

Each module states its constants' assumption, its variables with what they stand
for, `TypeOK`, `Init` (`Reload` and `MibManager` say `ReloadInit`, `MibInit` and so on, as
a proof module extends each together with another), the actions in the order of the code, the fairness and at
the end the properties. The invariant that keeps the books of a module is a
conjunction of named parts with `TypeOK` first (`TasksAccounted`, `CallsAccounted`,
`ResultsAccounted`, `GroupsAccounted`, `PacketsAccounted`, `BatchAndRowsSound`,
`ReloadsAccounted`, `CacheSound`, `EveryTrapAccounted`, `DecodeSound`). A definition called a *faulty variant* is a plausible
wrong form of the definition after it: with it in place the property it is paired
with in `PROJECT.json` fails, which shows that the property depends on the code. Three more
variants break the other part of a property of two parts (checked with TLC as well): `CacheKept`
in the place of `CacheCleared` breaks `AnswersCurrent`, `NobodyAwaited` in that of `GoroutinesGone` breaks
`LivesRespected`, and `LeavesNever` in that of `Leaves` breaks `ShutdownEnds`.
`Notifier` implements `Outbox` under a mapping that gives a task the status
`pending` while the queue, a worker or a sleeping goroutine has it, and so does
`EventProcessor` for a queued event (`KeepsPromise` in both). `Storage` implements
`EventStore`, whose place of an event is `waiting` in the batch and `stored` in the
table (`KeepsEvents`). `Application` extends `Metrics` and composes the components by
their life cycle; the others meet at their interfaces: `Decoder` is what a worker
does between `Listener`'s receive and its callback, `Listener` knows of it only which
packets are malformed or invalid and ends where `handleTrap` begins; `Enrichment` extends `Decoder`
with what a worker of the event processor does first with a packet that was forwarded,
and sees of the resolver that an answer comes at any time or never; `EventProcessor`
takes that as one step, as it always ends (`TrapEnds`), and sees of the correlator the hashes it remembers and of the storage
whether an insert succeeds, `Notifier` sees of `Webhook` the verdict.

## The runs

| run | shows | bounds |
|---|---|---|
| `notifier` | one owner, exact statistics and answers, no post after the close; tasks end, `Stop` returns, `Outbox` is implemented | 2 events, 3 webhooks (one disabled, one that retries and shares default headers, one that filters), 3 filter rules with every operator, 2 workers, 1 queue slot |
| `webhook` | threshold exact, late requests bounded, one verdict per call, the two statistics agree up to the callers between them, nil means answered; calls return | 2 callers with 2 calls, 2 attempts, threshold 2 |
| `events` | one owner, at most one result, a true one, statistics; every task answered, `Close` returns, `Outbox` is implemented | 2 queued and 1 direct event, two of one hash, 1 worker beside the direct caller, 1 slot, 1 retry |
| `correlator` | deduplication equals its definition over the history, groups partition, what passes is classified | 3 events of 2 traps, windows of 1 in 4 instants |
| `listener` | packets in one place, counters never too high, `Stop` drains and returns | 4 packets (one malformed, one invalid), 2 workers, 1 slot, 2 starts |
| `storage` | stored once through failures and a crash, batch bounded, `Close` loses nothing; batches are written, `EventStore` is implemented | 2 batched and 1 immediate event, batch of 2, 1 crash |
| `reload` | one reload at a time, no torn configuration, exact history; a reload ends | 2 components, 2 triggers, 3 versions |
| `mib` | cache bounded, answers closest, fresh, counted and forgotten on reload; the last change is loaded | 4 OIDs (3 that are cached), cache of 2, 4 lookups in 3 instants; 2 required files, both watched, 2 writes of 3 kinds of content |
| `decoder` | no step outside the datagram, memory paid for by bytes, an intact trap is decoded and judged as sent, a cut one is refused, a late answer names nothing but its own varbind; every datagram ends, and every goroutine that got an answer | 8 traps in 2 encodings, every prefix of them, every byte of those below 55 bytes replaced by each of 15 values, 2 densest datagrams; 3 sources; every lookup answered in time, late or never |
| `app` | no worker uses a component outside its life, no goroutine of the metrics outlives its `Stop`, traps accounted, `Shutdown` returns | 3 traps, 2 workers, 1 tick, metrics on or off |

Each run checks the safety and the liveness properties of its module over the same
states, without symmetry. Two of each kind of actor are enough for every race the
code has: all of them are between two goroutines, or one goroutine and a shutdown.
In `events` the second goroutine that processes is the direct caller; its liveness
with two queue workers is not checked, its safety with any number is proved. Queues have
one slot so that they are full, empty and closed in short behaviours; retries are
limited to one so that first, repeated and last attempts differ. In `storage` two
batched events may fill a batch, or leave it half full when one of them comes after
a flush. In `decoder` integers are two bytes wide instead of eight, counters one
instead of four, lengths two instead of four: every rule about signs and widths has
its edge there, and TLC's own integers do not overflow. `LengthBytes` is below four
so that a claimed length stays an integer of the build's 64 bits, as it does in the
code, and at least two, as the lengths of a datagram may need. In `mib` three cached OIDs, one of them used twice, are what an eviction
needs to choose between entries. Times are small integers; windows of one in three
or four instants have a before, an edge and an after. The bounds `MaxCalls`,
`MaxStarts`, `MaxTime`, `MaxEvents`, `MaxCrashes`, `MaxVersion`, `MaxLookups`,
`MaxWrites` and `MaxTicks` only limit how often the environment acts. The cfgs say
`CHECK_DEADLOCK FALSE` because these finite workloads end, and because a panic ends
the process.

In models with a fatal error (`panic`) nothing happens after it, and the passing
properties are about the behaviour up to there.

## Where the code and its words disagree

Two runs find such a disagreement; each checks one property, and `findings` quotes
the line it states.

| run | property | what the code does |
|---|---|---|
| `events_retry` | `NotItsOwnDuplicate` | a retried event is taken for the duplicate of its own first attempt |
| `listener_stop` | `GracefulStop` | the reader sends on the channel that `Stop` has closed |

The modules state more properties that the code does not have, each with the words
it takes them from. With one in the place of the properties of the module's
cfg, TLC finds it violated (with the changes named in brackets):

| module | property | what the code does |
|---|---|---|
| `Notifier` | `GracefulStop` | a retry goroutine asleep across `Stop` sends on the closed queue |
| `Notifier` | `HeadersHaveOneWriter` | two workers fill in the default headers of one webhook in one map |
| `EventProcessor` | `CloseIsSafe` | the same in the event processor |
| `Listener` | `MapsHaveOneWriter` | two workers write the statistics maps at once |
| `Webhook` | `ProbeHalfOpens` | the breaker never becomes half-open: the first probe's success leaves it open |
| `Decoder` | `StringsBounded` | the check of a string's length never applies: the decoder gives bytes, the check asks for a string |
| `Decoder` | `IntactIsDecoded` (`Messages <- WideArcs`, `Datagrams <- WideDatagrams`) | an object identifier that begins with 2.40 or more is decoded "into dotted notation" (parser.go:1652) as another one |
| `Webhook` | `SuccessIsReported` | an attempt that succeeds after a failed one reports the earlier error |
| `Correlator` | `GroupSizeBounded`, `GroupsWithinWindow` | groups are neither limited nor ended |
| `Correlator` | `SameTrapIsDuplicate` (two communities) | the same trap under another community is no duplicate |
| `Reload` | `ChangesApplied` | a change within `MaxReloadFrequency` is forgotten; with `HasManager = FALSE`, as the application starts it, no reload ever reads the file |
| `Reload` | `SettingsKept` | a reload resets all settings but two |
| `Reload` | `RegistrationIsSafe` | components are registered while a reload iterates over them |
| `MibManager` | `NoChangeMissed` (`Required = {f1}`) | a file changed between loading and watching keeps its old content |
| `MibManager` | `ObjectsResolve` | the objects of a parsed MIB reach neither the tree nor the name tables |
| `MibManager` | `NameLookupReturns` | `ResolveNameDetailed` waits for the lock it holds |
| `Application` | `BecomesReady` | nothing ever sets the readiness status |
| `Application` | `HealthIsTold` | health is good although the notifier is not started |
| `Application` | `FailuresExported` | the exported failure counter stays 0 |
| `Application` | `EverythingStarted` | the notifier is never started |
| `Application` | `AcceptedIsHandled` | `Shutdown` cancels first, and accepted traps stay in the channel |
| `Application` | `GoroutinesEnded` | `Shutdown` does not stop the MIB watcher |
| `Application` | `HangupDoesNotStop` | SIGHUP ends the service |

## Fairness

Weak fairness on the steps of each goroutine that the Go scheduler runs, of
timers that fire and of HTTP requests, which have a timeout. None on the
environment: no arrival, call, signal, file change or crash has to happen.
A `select` with several ready cases picks at random and may for ever ignore a
ready `ctx.Done()`; over a finite workload the other cases run out, so the weak
fairness of leaving is justified. The collector of the metrics chooses among a tick
and the done context at every turn, for ever: leaving has strong fairness, for a
choice at random does not ignore one case each time. In `Decoder` a worker runs
`processTrap` to its end; in `Enrichment` timers fire and a goroutine that has an answer
runs, but nothing is assumed of the resolver. `Storage` assumes strong fairness of a tick that
commits: the database does not fail at every tick for ever.

## What is proved

Each proof module states the strengthening `IInv` of what it proves, shows that it
holds initially and that every step keeps it (a lemma per part, a case per action),
and derives the theorems from it. TLC checked each `IInv` as an invariant of the
component's run before it was proved; not `SentInv` of the decoder, whose layout is
chosen among all there could be, and of which the run checks what follows from it. The constants are any that satisfy the named
assumption; where a set is assumed finite, it is because a property counts its members.

`NotifierProofs` (`NotifierAssumption`: finitely many workers and events):

- `TypeCorrect`: the types, and that `ActiveWorkers` never falls below zero. For
  that `TypeInv` adds that a busy worker holds a task and that the counter is the
  number of busy workers.
- `Invariance`: the inductive invariant `IInv`. That a task has one owner
  (`OnePlace`) is not inductive: a task that enters the queue must have been
  nowhere before, so `Fresh` says that a task whose turn in `SendNotification` has
  not come has left no trace, and `PostsExact` ties the posts to the counter in the
  task and says that a sleeping task was posted. `ClosedIsQuiet` keeps workers from
  posting after the close.
- `OneOwner`, `PostsBounded`, `QuietAfterClose` follow.
- `EveryTaskAccounted`: `TasksAccounted`. `BooksOK` needs `OnePlace`, for a task
  that is recorded must not have ended before; `AnswersOK` says what the two local
  variables of `SendNotification` know after each webhook.
- `Refinement`: `Spec` implements `Outbox`. `IStep` shows each step to be a step of
  `Outbox` or a stutter; a dropped retry is a `Drop` because a sleeping task was
  posted, a post stays within the budget by `PostsExact`.

`EventProcessorProofs` (`ProcessorAssumption`: finitely many events and workers):

- `Invariance`: `OneOwner` as above; `ResultOK` says that nothing has happened
  to an event that was not accepted, and that a task somebody has is without a result; `RowsOK` says at each place of
  an event's way whether it has its row; `TriesOK` ties the attempts of the queue to those
  that were made; `StatsAgree` is inductive with these.
- `EveryResultAccounted`: `ResultsAccounted`, with one result for each task.
- `EveryResultTruthful`: `ResultIsTruthful`. By itself it says nothing of a task
  that sleeps; `RowsOK` does: it has no row yet, so a retry cannot insert a second.
- `Refinement`: `Spec` implements `Outbox` for every queued event.

`StorageProofs` (`StorageAssumption`; the schema, cmd/schemas/config.cue:211,
demands a batch of one or more):

- `Invariance`: `IInv` says of each event (`Spot`) that its entry in the batch, its
  row, its removal and its loss exclude each other, and that it has one of them
  exactly if it was taken; the batch repeats nothing (`Distinct`) and no two rows
  have one event (`OneRow`). Without them a flush could write twice what it finds once.
- `EveryEventOnce`: `StoredOnce`; the sum of copies is one of four cases by `Spot`.
- `CloseKeeps`: `CloseLosesNothing`, from `LateOK`, which says it already between
  the flush of `Close` and its end; `BatchAndRows`: `BatchAndRowsSound`.
- `Refinement`: `Spec` implements `EventStore` for every event: a flush stores what
  waits of all events at once, a crash loses only that.

`ListenerProofs` (`ListenerAssumption`: finitely many packets, and at least one
worker, as the schema has it, cmd/schemas/config.cue:61):

- `EveryPacketAccounted`: `PacketsAccounted`. That the unlocked counters are never
  too high needs `CountOK`: what a worker has loaded and not stored yet is at most the
  number of packets counted, its own not among them.
- `EveryStopDrains`: `StopDrains`, from `StopOK`: under a live context a worker
  leaves only behind a closed and empty channel, to which nobody sends any more. With no
  worker at all it would be false.

`InfraProofs`, about `Reload` (`ReloadAssumption`; any triggers, components and versions):

- `ReloadsCounted`: `ReloadsAccounted`; `NeverTorn`: `NoTornConfiguration`. Their
  conjunction is inductive: versions stay ordered because only one goroutine is inside.

`ApplicationProofs` (`ApplicationAssumption`: finitely many traps and workers), about
`Application` with the variables and steps of `Metrics`:

- `LivesAreRespected`: `LivesRespected`. `LifeOK` says what is in use from the end of
  `Initialize` until the listener is stopped, `WorkersOK` that no worker is left when
  `Shutdown` goes on from there, `MetricsOK` what the two goroutines of the metrics may do
  at each place in `Stop`.
- `TrapsCounted`: `EveryTrapAccounted`. `OnePlace` and `CountOK` say more: received
  are exactly the traps that are not on their way to the first counter, the exported
  counters agree, and the exported failures stay at zero.

`MibProofs`, about `Decoder` and `Enrichment`, for any datagrams, any limits and any widths (`DecoderAssumption`):

- `StaysInside`: `DecodeSound`. `InsideDatagram` alone is nearly inductive, as each
  parse function checks the end of an element before it moves there; that each
  varbind has cost seven bytes (`VarbindsPaidFor`) is not: `Paid` says for every
  field the parser may expect how many bytes it has passed at least.
- `EnrichedStaysInside`: the same of `EnrichSpec`, each step of which is a step of the
  parser and validator or leaves their state alone.
- `NamesStayOwn`: `NamesAreOwn`, which is inductive with its types: the lookup the
  worker waits for is the last one started, and no answer but that one's is read.
- `SentIsDecoded`: `DecodedAsSent`, for every set of traps within `Sendable`: integers and
  arcs that fit the words of the code, a first byte of an object identifier that its
  decoder can take apart, and fewer than 2^16 bytes. An agent's traps are of that kind but for
  names from 2.40 on, which the code decodes to other names; TLC evaluates that the
  traps of the run are. The proof has four parts:
  1. Recursion. No library theorem says that a recursive function exists without an operator as
     a parameter. `SetInduction` is induction over a set of numbers, and
     `RecursionDefined` gives the function for a recursion along a decreasing measure,
     both with sets and functions only. The lemmas named `...Defined` apply it to
     each recursion of `Decoder` and `BerEncoding`.
  2. Values. `SignedDecoded`, `UnsignedDecoded` and `OIDDecoded` say that the bytes of an
     integer and of a name are decoded to it, by induction along the encoder's recursion
     (`ContinuedRead` does a single arc); `ValueDecoded` puts the types together.
  3. Places. `ElementRead`: an element that lies at the offset is opened and complete, with
     the content it was made of. `Layout` says where each part of an encoded trap lies,
     and `LayoutExists` that all of them lie somewhere, the varbinds one after the other.
  4. The walk. `Intact` is the inductive invariant: the offset is the place of the part
     that is expected, and the parts before it have been read as they were sent. Without
     the places it is not inductive, since the parser ignores two of the lengths and would not
     notice that it reads on elsewhere. `IntactStep` has a lemma per parse function, and
     `IntactAtEnd` concludes. A truncated datagram is refused by the first step
     (`TruncatedIncomplete`), as its outer length is cut off or declares more than there is.

`InfraProofs`, about `Webhook` (`WebhookAssumption`: finitely many callers; any attempts and thresholds):

- `Invariance`: `IInv` says that the breaker agrees with its count and is never
  half-open (`BreakerOK`), where a caller may be at each count of attempts
  (`AttemptOK`), that late attempts in a hot period are attempts (`LateOK`), and
  that nil follows an answer (`AnswerOK`).
- `EveryCallCounted`: `CallsAccounted`. `SendWebhook` and `Retry` keep one statistic each
  and count in critical sections of their own, between which `GetStats` may read: the two
  differ by exactly the callers that are in between (`Entering`, `Succeeding`, `Failing`).
  `CountedOnce` is inductive with the types: each of these steps moves its caller
  into one of the sets or out of it as it moves a counter (`StatsCounted`, `Sizes`).
- `ThresholdExact`, `HotBounded`, `NilIsAnswered` follow.

`MibProofs`, about `MibManager` (`MibAssumption`: OIDs are sequences of arcs; any OIDs,
files, size and expiry):

- `CacheStaysSound`: `CacheSound`, which is inductive once the cache is known to be a
  finite map (`CacheIsMap`). `RoomIsMade` is what the bound rests on: as the cache was
  never more than full, `cleanupCache` has one entry too many at most, and some entry
  has the fewest hits (`FewestExist`). `ClosestIsLongest` says that the search upwards
  from an OID ends at the longest known node above it.
- `AnswersStayCurrent`: `AnswersCurrent`. `CacheChanges` lists what a step may do to the
  cache; a hit needs a fresh entry, a reload empties it, and an eviction is one of
  `RoomIsMade`.

`CorrelatorProofs` (the constants' assumption and finitely many groups are all it takes):

- `GroupsAreAccounted`: `GroupsAccounted`. The sum over the groups is defined by a fold, and
  no library theorem says what a fold computes without an operator as a parameter. The
  lemmas from `SmallestSet` to `SumParts` do: a smallest finite set that breaks a
  statement does not exist, so the sum is the one function that has the recursion, and
  what a step adds to one group it adds to the sum.
- `DeduplicationIsExact`: `DedupExact`; the invariant says that each hash remembered is
  that of its last arrival, and that what is not remembered is outside the window.
- `EventsAreClassified`: `PassedIsClassified`; while the rules are walked, each rule is
  visited or still to be visited, and what a visited rule has done stays.

Only model-checked: all liveness, which needs fairness and `ENABLED`.

## What is not modelled

The text of MIB files (a file is too large, without a MIB name, or a version with
named objects), payload templates, the queries of the storage, configuration parsing,
`UpdateConfig` of the notifier, the processor and the correlator, which nothing calls,
the values of system metrics, the text of the uptime, name tables, and the command line. The kernel, the
database, the endpoints and the Go runtime are modelled by what the code sees of
them. `loadNotifierConfig` never reads filter rules, so that a filter has no effect
in the program as it is built, whatever docs/configuration.md:133 shows; the run
gives the notifier rules to check what the code does with them. Of `statsUpdater` nothing is promised: a tick that
meets the done context may collect statistics of a storage that is closed (app.go:619-648);
the query then fails, its error is dropped and the last statistics stay. MIB files in subdirectories are loaded and
not watched (`Watched`); in the run both files are watched, as no event of another one reaches the
watcher. `hazards` in
`PROJECT.json` names the ones no property covers, with the reason.

## Plan

The order puts the delivery path first, then what feeds it, then what surrounds it.
The first five steps are done, and the ninth.

1. `Outbox`, `Notifier`, `Webhook` with their proofs: delivery.
2. `EventProcessor`, `Correlator`, `Storage`, `Listener`: the way of a trap.
3. `Reload`, `MibManager`, `Application`: what surrounds it.
4. `BerEncoding`, `Decoder` and `Enrichment` with their proofs, `Metrics`: what the first three took as given.
5. Abstract specifications as refinements: `EventProcessor` of `Outbox`, `Storage` of
   `EventStore`; the notifier's filters and header maps.
6. `Delivery`: `Notifier` with its posts made by `Webhook`, for an event accepted by
   the notifier and a breaker tripped by another webhook; 1 event, 2 webhooks,
   2 workers. Abstract specification: `Outbox` again.
7. `Ingest`: `EventProcessor` over `Correlator` and `Storage`, with an abstract
   specification that a trap becomes one row, a counted duplicate or an error.
8. The partial failure of `AcknowledgeGroup`; requests that fail validation; an
   abstract specification of the reload (one current version), as a refinement.
9. Theorems about every safety property of the passing runs.
