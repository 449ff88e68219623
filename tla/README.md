# TLA+ models of log-it

Specifications of log-it (package `logger`), model-checked with TLC on small
instances, and theorems about them proved with TLAPS for every value of the
constants.

log-it is a structured logger for Go. What is hard about it is, first, its
concurrency: a logger that many goroutines share, an asynchronous writer with a
bounded channel and a shutdown protocol, writers built out of writers that fail
one by one, and answers (`Sync`, `Fatal`, `DroppedCount`) that are promises
about what other goroutines have done. And, second, what an entry is in the
end: fields from five places under one precedence, maps that callers, loggers
and goroutines share while they are merged, enriched and redacted in place, and
formats that must read back as what was logged whatever bytes it has.

Contents: [the system](#the-system) ·
[modules and how they follow the code](#modules-and-how-they-follow-the-code) ·
[runs](#runs) · [bounds](#bounds) · [fairness](#fairness) ·
[proofs](#proofs) · [findings](#findings) ·
[what is not modelled](#what-is-not-modelled) · [plan](#plan)

## The system

| Component | State | Operations | Interacts with |
|---|---|---|---|
| Logger (`logger.go`, `pipeline.go`) | `closed`, `minLevel`, `writeErrors` (atomics); `mu`; `out`, sampler, middleware, hooks, fallback (fixed at `New`) | `Trace`..`Fatalw`, `With`, `SetLevel`, `Sync`, `SyncWithTimeout`, `WriteErrors` | calls middleware before and `out`, fallback and hooks under `mu`; FATAL syncs `out` and exits the process |
| Slog bridge (`slog_handler.go`) | none of its own | `Enabled`, `Handle`, `WithAttrs`, `WithGroup` | a second way into `writeEntry`, with its own copy of the checks |
| AsyncWriter (`writer_async.go`) | channel `ch`, `done`, `once`, `dropCnt` | `Write`, `Close`/`Sync`, `DroppedCount`; the goroutine `drain` | callers meet `drain` through the channel; `drain` alone writes to `dest`, `Close` syncs it |
| FanOutWriter, FilteredWriter (`writer_fanout.go`, `writer_filtered.go`) | the list of writers; a level each | `Write`, `Sync` | no lock: relies on the logger's mutex |
| Samplers (`sampler.go`) | a counter, or a window and a budget, per level | `Sample` | called by log calls of all goroutines outside `mu` |
| Default logger (`global.go`, `context.go`) | `defaultLogger`; slog's default | `SetDefault`, `ReplaceDefault`, `Default`, `FromContext` | two stores, one after the other |
| TestHandler (`logtest/logtest.go`) | `records` under a mutex | `Write`, `Records`, `Len`, `Reset`, assertions | a destination tests read from |
| Levels, environment (`level.go`, `env.go`) | none | parsing, ordering | read once, at construction |
| Fields, errors, redaction (`field.go`, `errors.go`, `redact.go`, and `With`, `mergeFields`, `writeEntry` in `logger.go`) | a field map and extractors per logger; maps of callers, shared by reference | `With`, `WithContextExtractor`, merge, resolve, enrich, place, redact | run on the caller's goroutine before `mu` |
| Formatters, encoder (`formatter.go`, `encode.go`) | a pool of buffers | `Format` | run before `mu`; the buffer returns to the pool after `out.Write` |
| Options (`options.go`) | the logger under construction | `New` and its options | each applied to what those before it left |
| Timing, terminal | none | durations, one ioctl | |

The behaviours that are hard to get right, and harder to test:

- **Checks made before the lock.** A log call reads `closed`, then `minLevel`,
  asks the sampler, assembles the entry and runs middleware, all before it
  takes the mutex (logger.go:269-394). `Sync` may run to completion in between.
- **Shutdown seen from several sides.** `Logger.Sync`, `Fatal` and a direct
  `Close` all end in `AsyncWriter.Close`, which waits for `drain`; the first
  two wait with the logger's mutex held.
- **Messages between two states.** A `Write` of the AsyncWriter stands at its
  `select` while another goroutine closes the channel; its bytes sit in a pooled
  buffer that is overwritten as soon as it returns.
- **Timeouts.** `SyncWithTimeout` leaves its goroutine behind, and may be
  retried while that goroutine still syncs.
- **Partial failure.** A writer, sink, hook or middleware fails, panics or
  hangs; each case has its own path, and the mutex must be freed on all of them
  but the last.

- **Maps shared by reference.** `mergeFields` returns one of its arguments when
  the other is empty, and redaction edits nested maps in place, on the goroutine
  of the call.
- **Keys that meet.** Reserved keys move under `fields.`, errors add `_type` and
  `_chain`, key maps rename: any of these may land on a key that is taken, and Go
  visits maps in any order.
- **Handlers derived from handlers.** slog handlers, and loggers made by `With`,
  form trees whose nodes must not see what was given to their siblings.

`PROJECT.json` lists these as hazards, each at its line, with the properties
that would catch them going wrong.

What makes each component correct:

- *AsyncWriter*: what `Write` accepts reaches the destination whole, once and in
  order; the rest is counted or refused by a closed channel; `Write` never
  waits; `Close` returns to nobody before everything accepted is written and
  the destination synced; every `Close` returns.
- *Logger*: one goroutine at a time in the writers; hooks see what was written,
  in that order, unless the fallback panics; a failed write is counted and rescued; nothing admitted that
  was called after `closed` was set or below every level in force; FATAL exits
  on a flushed writer; every call returns; an answer of `Sync` covers what was
  written before it was asked for.
- *Logger over AsyncWriter*: order is kept end to end, entries are accounted
  for, shutdown through the logger costs at most one entry per goroutine, and
  waiting for `drain` under the mutex cannot deadlock.
- *Sinks*: what a sink misses is in the fallback, once; `Sync` reaches every
  sink and reports real errors; filters pass only their levels.
- *Entries*: every key has the value that takes precedence, a reserved key the
  logger's own; a listed key never reaches the formatter with its value, nested
  maps included; nothing a caller passes is changed, except that.
- *Slog handler*: a record has the attributes of its own handler and no other's,
  at a level that is not above its own.
- *Options*: the logger is as its options say, whatever their order; none of the
  middleware is dropped by a later option.
- *Formatters*: the line reads back as the entry.
- *Samplers*: one in N exactly, whatever the interleaving; a window spends its
  budget exactly.
- *TestHandler*: a phase sees only its own records; a snapshot never changes.
- *Default logger*: a logger that is replaced is handed to one caller only.

## Modules and how they follow the code

| Module | What it is |
|---|---|
| `LossyBuffer` | the abstract promise of an asynchronous buffer |
| `AsyncWriter` | `writer_async.go`; implements `LossyBuffer` |
| `AsyncWriterProofs` | its invariants, its refinement and the count of its messages, proved |
| `Logger` | `logger.go`, with the checks of `slog_handler.go`, over a writer that may answer anything, panic or hang |
| `LoggerProofs` | its invariants, proved |
| `AsyncLogger` | the two composed: `Logger` with an `AsyncWriter` for `out` |
| `AsyncLoggerProofs` | the composition is a `Logger` and an `AsyncWriter`, its `Sync` is a flush, no entry vanishes in it, order survives it and a shutdown costs at most one entry per goroutine, proved |
| `Sinks` | FanOutWriter over FilteredWriters, with the logger's fallback and benign-error rule |
| `Fields` | `With`, extractors, merging, LogValuers, errors, reserved keys and redaction, over a heap of shared maps |
| `SlogHandler` | the tree of slog handlers and what `Handle` makes of a record |
| `SlogHandlerProofs` | that a record has what its own handler was given, proved |
| `Options` | `New`, every option, levels and environment |
| `OptionsProofs` | that a logger is as its options say, proved |
| `Formatting` | the three formats, byte by byte, with key maps; in `MCFormatting` by themselves |
| `FormattingProofs` | that lines read back as what was logged, proved |
| `Samplers`, `TestHandler`, `GlobalLogger` | the small stateful helpers |
| `HelpersProofs` | the invariants of these three and of `Sinks`, proved |
| `EntriesProofs` | what an entry is made of, that maps are kept and that redaction holds, proved; and that the theorems about slog handlers, options and formats hold of `MCEntries` |
| `MC*` | instances for TLC: symmetry and values of function constants; `MCHelpers` and `MCEntries` hold several components that share nothing side by side, and a behaviour is of one of them |

**Granularity.** A step is one atomic operation of the code: an atomic load or
store, a channel operation, the taking of a mutex, a transition of a
`sync.Once`, or one run of user code (a middleware chain, the hooks, a call of a
destination). A call is a `…Call` step that begins it, its steps, and a return
to `"idle"`; `pc` says where each goroutine is. What a goroutine does to memory
nobody else can see belongs to the step before or after it.

**AsyncWriter.** `Write` is `WriteCall`, then at the `select` one of `WriteSend`
(there is room), `WriteFull` and `WriteDrop` (the default branch, and the
increment of `dropCnt` after it) or `WriteClosed` (the panic of a send on a
closed channel, recovered with zero results). A message is one slice: `Slice`
says what is sent, `Bytes` reads it back when `drain` writes it, and the caller
overwrites `buf` with its next call, so that a shared slice would be noticed.
`drain` is `DrainRecv`, `DrainWrite`, `DrainExit`. `Close` and `Sync` are one
function: `CloseFirst` wins `once` and closes the channel, `CloseFinish` passes
`<-done` and syncs the destination, `CloseLater` is everybody else, released by
`once.Do` when the first has finished. The destination's sync answers nil, an error
or panics: then `once` is done all the same, and the panic leaves `Close` (ret
`"panic"`). `DestHang` makes the call of the destination under way last for ever.
`issued` is the history of all `Write`s, so that one without a fate shows.

**Logger.** The 24 level methods come down to `LogCall` and the two paths
`internalLog` and `SlogHandler.Handle`, which make the same checks in different
orders (`AfterLevel`): `closed`, level, sampler; or `Enabled`, `closed`, no
sampler. `MiddlewareCall` and `MiddlewareReturn` are the chain, which may drop
the entry or panic out of the call. `Lock` to `RunHooks` are the locked part of
`writeEntry`: `WriteOk` or `WriteErr`, then `CountError` and
`Fallback`, then `RunHooks` with the deferred unlock, or for FATAL
`FlushReturn` and `Exit`. Each call of user code under the mutex may panic:
`WritePanic`, `FallbackPanic`, `FlushPanic` in the final sync, and the hooks, which
are recovered one by one. The first three leave the call through the deferred
unlock (`PanicIn`, and `panicked` remembers on which entry), so neither hooks nor
the exit behind them are reached. The panic is assumed to be recovered by whoever
made the call, as an HTTP handler does; if it is not, the process ends and no
property has anything left to say. `Sync` is `StoreClosed`, `LockSync`, and
`SyncReturn` or `SyncPanic`. `SyncWithTimeout` is `TimedCall`, which
starts a helper that runs `Sync` and sends its result on a channel of one, and
`TimedReturn` or `TimedOut`; the timer may expire at any moment. Nothing recovers a
panic in the helper: it ends the process (`crashed`). After `Exit` or a crash
nothing moves (`Running`). Entries carry no fields: no property depends on them.

**AsyncLogger** adds no rule of its own: each action is the conjunction of a
step of `Logger` with a step of `AsyncWriter` where the code calls from one into
the other, or a step of one while the other stands still. `Closers` are
goroutines that call the writer's `Close` directly. A final sync that panics in the
destination leaves the writer closed and the logger open, so that every later entry
is lost: `LossBounded` is for executions without one.

**Sinks** has no goroutines, as the logger's mutex makes writes and syncs take
turns (`OutSerialized` of `Logger`); its steps are the underlying writers, any
of which may refuse an entry or fail to sync.

**Fields.** `heap` holds the maps that outlive a call: those of callers, those
nested in them, and those a logger made. `With` is `MergeFields` on references,
so that a logger without fields of its own keeps its caller's map, as the code
does. A log call is three steps: `Log` or `LogContext` assemble the entry
(`Precedence`: the logger's fields, then what the extractors that do not panic have
gathered, `Extracted`, then the call's; then
`Resolved`, `Enrichments`, `Placements`, in the order of `writeEntry`),
`RunMiddleware` redacts the entry and every map it reaches (`RedactReach`), and
`Write` has it encoded. Where the code iterates over a map and keys may collide,
any of the values may stay (`AnyWriter`). That the formatter may fail, its ERROR line
and the locked write are not here: `Fields` ends where the formatter reads the entry,
and the rest is `Logger`'s. A key is the sequence of the parts it
was made of, so that a user's `err_type` and the one derived from `err` are the
same key. A goroutine's redaction of a whole entry is one step: Go forbids what
lies between two concurrent accesses of a map, and that they happen at all is
what `MapsExclusive` says.

**SlogHandler** keeps the arrays behind slices apart from the handlers that hold
them, because handlers derived from one another could share one. **Options** is
one action per option, applied in any order and number. **Formatting** has a
state per entry: values grow byte by byte, so an invariant over its states is a
statement about every entry within the bound. A loop of the code over the bytes of a
value is the helper `Walk`: what one turn appends (`Escape`, `Shown`) and where the next goes on
(`After`, `Past`). Readers of the formats (`ReadJSON`, `ReadLogfmt`) are the reference
they are checked against; they know only the rules of the format. **Samplers** separates the `Add`
of EveryNSampler from the verdict on what it returned; RateSampler decides
under a mutex and is one step. **TestHandler** models arrays, because `Reset`
keeps the array of the records, and its assertions search a snapshot taken
earlier. **GlobalLogger** separates the two stores.

**Faulty variants.** An operator `X_Fault` just before `X` is `X` with a
plausible bug (a dropped guard, a missing copy, an early unlock). They are
referenced by nothing; `PROJECT.json` names for each property one that, put in
the place of `X`, makes TLC find the property violated.

## Runs

| Run | Question | Shows |
|---|---|---|
| `Async` | Is the asynchronous writer a lossy buffer, and does it keep moving? | `Intact`, `CloseFlushes`, `Accounted`, `QuietAfterSync`; it implements `LossyBuffer`; `CloseReturns`, `AcceptedHanded`, and `WriteNeverStalls` even with a hung destination |
| `LoggerSafety` | Is the locked part of the logger right under log calls, `Sync`, timeouts and retries, when writer, fallback or sync panic? | `OutSerialized`, `HooksFollowWrites`, `FailuresAccounted`, `ExitFlushed`, `SyncCovers` |
| `LoggerLive` | Does every call return, whatever user code does, and while levels change? | `Admitted`, `CallsReturn`, `FatalExits`, `HelperEnds`, `TimedSyncReturns` |
| `Compose` | What do the two together promise? | `OrderKept`, `Flushed`, `EntriesAccounted`, `LossBounded` |
| `ComposeLive` | Do log calls go on when the destination hangs and the buffer is full? Can a FATAL entry that waits for `drain` with the mutex held deadlock with others that shut down? | yes: `NeverStalled`; no: `FatalEndsProcess` |
| `Helpers` | Samplers, sinks, test handler and default logger, side by side | `OneInN`, `WindowExact`; `NoSilentLoss`, `RescuedOnce`, `AllSynced` when sinks fail one by one; `PhaseOnly`, `SnapshotStable`; `HandedBackOnce` |
| `Entries` | Is an entry what was logged? | `EntryRight`, `ListedGone`, `MapsKept` with two goroutines on shared maps; `Handled` for every tree of four slog handlers; `Configured` for every sequence of three options; `Encoded` for every entry of three bytes |
| `AsyncDocs`, `FieldsDocs`, `SinksDocs`, `SlogDocs`, `FormatDocs` | Does the code do what its comments say? | it does not: see [findings](#findings) |

Deadlock is checked in `SinksDocs`. The others say `CHECK_DEADLOCK FALSE`
because the system really may stop: when a destination hangs, `drain` and whoever
waits for it stop with it, and with every message of the instance written and
the writer closed there may be nothing left to do; the samplers, helpers, options
and entries use up their bounded calls. That nothing stops for any other reason is what the
liveness properties say: each ends in "or the destination hangs" where waiting
for the destination is the cause, and the three that must hold in spite of it
(`WriteNeverStalls`, `NeverStalled`, `TimedSyncReturns`) do not.

## Bounds

Every bound is a constant of a configuration; no definition is replaced.

- *Messages and entries.* `Async` has three messages over a channel of one:
  with one in `drain`'s hand, one queued and one refused, every fill level
  occurs, and the third is written by a caller that reuses its buffer.
  `Compose` and `ComposeLive` have three entries over one for the same reason: in
  `ComposeLive` one is in the hand of a `drain` that hangs, one fills the channel and
  the third meets it full, so a `Write` that waited for room would wait for ever. Each
  message is written once; that identifies it in the histories.
- *Goroutines.* Two contend for the mutex, the channel or the `once`; a third
  closes the writer in `Compose`. In `LoggerSafety` two helpers allow a retry
  while the first sync is still under way. A race of more goroutines is a race
  of two among them as far as these properties go, and the theorems have no
  bound.
- *Levels.* 2 (INFO) and 5 (FATAL) in `Compose`; `LoggerLive` has FATAL alone under
  `minLevel` 4 or 5, so that a level change decides about an entry that came
  through slog, where FATAL becomes ERROR. `LoggerSafety` has FATAL under `minLevel` 4:
  a plain call is then a FATAL entry and one through slog an entry that does not exit.
- *`LoggerLive` and `ComposeLive`* are smaller than their safety runs and use no
  symmetry, which liveness checking does not allow. `ComposeLive` is restricted to two
  applications (`ApplicationSpec`). One only logs, by the plain methods: a flush waits
  for the destination by design. In the other one goroutine logs FATAL
  entries, another calls `Sync` and a third closes the writer: either of the two that
  flush may be the one in `once` or the one that waits for it, or for the mutex.
- *Samplers.* `N` = 3 and eight calls wrap the counter twice. A second of three
  ticks and a clock of nine hold three windows; `MaxCount` exceeds the budget.
- *Sinks.* Three filtered sinks, one without `Sync`, and entries of each kind: one whose
  nested level misleads a filter, one plain, one that is not JSON. `NoSilentLoss` is
  about the plain ones and sinks without a filter; the other two kinds have properties of
  their own, which fail in `SinksDocs`.
- *Entries.* Two goroutines share two maps of callers, one with a map two deep
  inside, so that redaction has a level to miss; the other has a reserved key, an
  error, and the keys these are moved to or derive. Three loggers give a parent,
  a child and a sibling or grandchild. Four slog handlers give siblings with a
  common parent, which is where a shared array would show; three options give one
  between two of a kind. Three bytes of message and field, out of eleven that include
  a quote, a backslash, a line break, a space, `=`, ESC, `[`, the halves of a
  two-byte rune and the first byte of a longer one, give every pair of neighbours an
  escaping rule looks at, and runes cut off at the end; `AllEncoded` has no bound. Keys are
  a byte each, a line break among the users'. The key
  map sends one key to a user's and one to a free one. Escape sequences inside one another
  take five bytes: `FormatDocs` has six, of four different ones.
- *Helpers.* Arrays up to `MaxLen` = 4 hold all records, so growth, reuse after
  `Reset` and a full array all occur.

Not bounded: `dropCnt`, `writeErrors`, `destSyncs` are naturals that the number
of messages limits; wrap-around of the 64-bit counters of the code is out of
reach of a run of the program.

## Fairness

- *Goroutines run.* The Go scheduler is preemptive and runs every runnable
  goroutine: weak fairness on the steps of each call under way, of `drain` and
  of the helpers. No fairness on beginning a call, on a level change or on the
  timer expiring before an answer; the timer does expire, as a goroutine in
  `await` has only `TimedReturn` and `TimedOut` to take.
- *The mutex is fair.* `sync.Mutex` hands itself to a waiter that has been passed
  over for a millisecond (starvation mode): strong fairness on `Lock` and
  `LockSync`, which are enabled again and again while others take turns.
- *Destinations and user code return unless they say so.* A call of the
  destination that never returns is a step (`DestHang`, `OutHang`), not the
  absence of one: a property that excuses hanging names it, and a property that
  does not holds with it. Middleware and hooks return or panic.
- After `os.Exit`, or the crash of a helper, nothing is fair: all conditions are under
  `Running`.
- In the composition the same holds, step by step: `Runs` for whatever a goroutine is about
  to do in the logger or the writer, `Locks` for the mutex, and the closers once they have
  called `Close`. `DirectClose` and `DestHang` may never happen.

## Proofs

TLAPS checks every leaf of the proofs; there is no step left unproved and no
axiom beyond the named assumptions of the modules:
`Capacity` is at least one (`NewAsyncWriter` replaces anything else), callers and messages
are different things, levels are in range, goroutines and helpers are different
goroutines, options are Booleans, filters and levels are in range, a sampler's `N`, budget
and window are positive (its constructors replace anything else), `MaxLen` is a natural,
`None` is no logger, and maps of different origin are different, their keys are sequences
and extractors return maps of callers or nil, levels of slog records are integers,
middleware is a sequence of names, keys of a line are bytes, the four core keys come in a
fixed order, users' keys are not core keys (`Placements` of `Fields` moves those), and a key
map renames core keys only (`FormattingAssumption`). `ShutdownLoss` speaks of cardinalities and says that
`Goroutines` is finite; nothing else does.

| Theorem | States, for any number of goroutines, messages and any capacity |
|---|---|
| `TypeCorrect`, `LoggerTypes` | `Spec => []TypeOK`, for the writer and the logger |
| `Integrity` | `[]Intact`: whole, in order, no gaps, no doubles |
| `CloseIsFlush` | `[]CloseFlushes`: a returned `Close` or `Sync` means all accepted is written |
| `SyncIsFinal` | `QuietAfterSync`: nothing after the final sync |
| `Refines` | `Spec => ImplementsBuffer`: the writer is a lossy buffer |
| `Serialized` | `[]OutSerialized`: mutual exclusion in writers and fallback |
| `ExitIsFlushed` | `[]ExitFlushed`: nothing between the sync of a FATAL entry and the exit |
| `HooksInOrder` | `[]HooksFollowWrites`: hooks see what was given to the writer, in that order, but for the entries the fallback panicked on |
| `OnlyAdmitted` | `[]Admitted`, on both paths |
| `AnswersCover` | `[]SyncCovers`, retries and late answers included |
| `FailuresSettled` | `[]FailuresAccounted`: each failed write counted and rescued once, in order |
| `IsLogger`, `IsWriter` | the composition implements `Logger` and `AsyncWriter`, and inherits the theorems above |
| `NothingUncounted` | `[]Accounted`: every message that `Write` was ever called with has one fate or is under way, and the drops are counted |
| `SyncIsFlush` | `[]Flushed`: an answer of the logger's `Sync`, or an exit on FATAL, means all accepted is delivered |
| `NoneVanishes` | `[]EntriesAccounted`: each entry given to the writer is accepted, dropped and counted, or lost to a closed channel |
| `EachGivenOnce` | an entry is given to the writer at most once, and `given` holds only logged entries |
| `OrderSurvives` | `[]OrderKept`: the destination receives entries in the order they were given, none twice |
| `ShutdownLoss` | `[]LossBounded`: a shutdown through the logger costs at most one entry per goroutine, unless a final sync panics |
| `NothingLost`, `EachRescuedOnce`, `SyncReachesAll` | `NoSilentLoss` (flat JSON, and all entries for sinks without a filter), `RescuedOnce`, `AllSynced`, for any number of sinks and filters |
| `GivenMapsKept` | `MapsKept`: no map that was passed in changes, but by redaction of an entry that reaches it |
| `EntriesRight` | `[]EntryRight`: an entry is what its layers come to, for any maps, loggers and extractors, shared or not; of user keys that an error's derived keys overwrite it says so |
| `RedactionHolds` | `[]ListedGone`: what is encoded has no listed key's value at any depth, for maps of any nesting |
| `JSONReadsBack` | a JSON line has no control characters, and reads back as the entry, for keys and values of any bytes |
| `LogfmtReadsBack` | a logfmt line reads back as its values in the order promised, unless a value has a backslash or a key is a space or equals sign |
| `TextLineIs` | whatever the bytes: a text line has no line breaks but those of keys and of the values at time, level and file; of a value it strips the escape sequences, unless one has an ESC inside, and leaves no ESC if each opens a sequence |
| `EntriesEncoded` | `[]Encoded`: the three above, with their exceptions, whatever the key map, and renaming loses no value unless two keys meet |
| `RecordsHandled` | `[]Handled`, for any tree of handlers, attributes and groups, and levels up to ERROR |
| `LoggerConfigured` | `[]Configured`, for any options in any number and order |
| `FirstOfN` | `[]OneInN`, for every `N` and any interleaving |
| `WindowsKeepBudget` | `[]WindowExact`, for every budget and window |
| `PhasesApart`, `SnapshotsStay` | `[]PhaseOnly`, `[]SnapshotStable`, for any number of records, snapshots and resets |
| `ReturnedOnce` | `[]HandedBackOnce`, for any number of goroutines and loggers |

*AsyncWriter.* `TypeOK` is inductive by itself. `Intact` speaks of `Pending`, what
the destination would read now; because slices are private copies that is
`inHand \o ch` (`PendingContent`), and `InOrder`, `accepted = handed \o (inHand \o
ch)`, is inductive: a send appends on the right, a receive and a write move the
borders (`SendAppends`, `ReceiveMoves`, `WriteMoves`). `CloseFlushes` does not
follow from it alone: one must know how far shutdown has come. `Shutdown` says
that `drain` has exited only with nothing left (`ExitedEmpty`), that exactly one
caller is inside `once.Do` and the channel is closed from then on
(`FirstIsAlone`), and that nobody has returned or synced before `drain` is gone
(`FinishedDrained`). The refinement needs one more invariant, `SelectFresh`:
messages at the select have met no fate yet and are all different, or the buffer
could see one offered twice. `BufferStep` then matches each step with `Accept`,
`Drop`, `Lose`, `Deliver`, `BeginClose`, `EndClose` or a stutter.

`Accounted` compares the Writes ever issued with those that are settled or in flight, and
counts them, so its invariant, `CountInv`, adds that the sets are finite;
each step then adds one element or takes one away (`AddOne`, `TakeOne`). A
caller that leaves the select takes one message out of the flight because no other
caller has the same (`SelectFresh` again), and `dropCnt` lags behind `dropped` by
the callers between the `default` branch and the atomic add.

*Logger.* `OutSerialized` is not inductive: it says nothing of who holds the
mutex. `HoldersOnly`, that whoever is in a locked part holds it, is, and carries
the rest. `ExitInv` adds that the process exits from `"exit"` and that the writer
is synced there: nobody else can write, as that takes the mutex. `HooksInv` says
exactly which entries the hooks have not seen: the holder's, between its write and
its hooks, and those on which the fallback panicked. `AdmitInv` says what a goroutine has established at each point of
its path, that `floor` is never above the level in force while the call is on
its way, and that an entry can be late only once `closed` is set. `CoverInv`
follows an answer from the helper through its channel to the caller: wherever it
is, the sync it reports came after the mark, and a helper that still works for a
call that timed out belongs to no later call. `FailInv` gives the one failure that
is not settled yet to the goroutine that is about to settle it, of which
`HoldersOnly` allows one.

*Composition.* `LoggerSide` shows that each joint step is a step of the logger or
leaves it alone, `WriterSide` the same for the writer, which needs the logger's
type invariant: what is handed to `Write` is an entry. `SyncIsFlush` needs both
sides. `FlushInv` says that wherever an answer of `Sync` is (a caller's hands, a
helper's, its channel), or a process about to exit, the writer's `once` is done;
it is inductive because answers arise only from `Close` returning. The writer's
own `Shutdown` and `InOrder` do the rest. `NoneVanishes` ties the two states
together: `PassInv` says that the entry of a goroutine in its `Write` is the one its
caller offers at the select or has just seen dropped, so the entry has met its fate by
the time `given` has it. Its count of drops is the writer's.

`LossBounded` counts goroutines against entries. Only a goroutine that found `closed`
unset and is still on its way (`FoundOpen`) can lose an entry to a closed channel, and it
leaves `FoundOpen` when it does: so `LossInv` bounds `lost` and `FoundOpen` together. None joins
later, because the channel is closed only after `closed` is set or while a FATAL entry
holds the mutex for good (`ShutInv`). `OrderKept` says that `handed` embeds into `given`. It
holds because the writer's `InOrder` and one more fact do: `accepted` embeds into `given`
followed by the entry of the mutex holder when that has been accepted already. The
embedding is extended at its end and never rebuilt (`WithinBoth`, `WithinLonger`), and that
nothing is handed over twice is `EachGivenOnce`.

*Sinks.* `NoSilentLoss` and `AllSynced` say nothing about the middle of a write or
sync; `Served` and `Synced` do, sink by sink. `RescuedOnce` needs `Known`: an
entry under way has been refused by no sink yet, because it is written once.

*Fields.* `MapsKept` comes down to one fact about `writeEntry`: its assembly writes to no
map that outlives the call (`AssemblyKeepsMaps`), because where it does not copy there
is nothing to resolve or enrich. For `ListedGone`, redaction must not lose its way while
it edits the maps it walks through: what it replaces is what it does not descend into, so
the maps reached are the same before and after (`OpenOfRedacted`, `ReachKept`), another
goroutine's redaction of some of them included. `CleanInv` says that the entry and all it
reaches are clean from then until it is encoded; callers may change their maps only
while no call is under way. `Reach` is the least set closed under nesting, so no bound on
the depth is needed.

`EntryRight` compares what the code merges map by map with the layers a call was given.
`Stack` says that a map is what the layers come to; `MergeFields` puts one stack on
another, by reference or by copy (`StackedOn`, `Merging`), and the fold over the
extractors is such a stack as well (`ExtractedStack`). The invariant is `PersistInv`:
each logger's map is the stack of what `With` was given on the way to it, unless it is a
map that its caller may still change. A call's map is then the stack of its layers
(`CallStack`), and enrichment and placement are followed key by key (`Enriching`,
`Placing`): keys are sequences, so what `_type`, `_chain` and `fields.` make of them
can meet other keys in the ways `EntryRight` allows and in no others.

*Slog handlers and options.* `Handled` needs `HandlersOK`: the slice of a handler is its
array, whole, and what it was given. That no two handlers write to one array is why it
stays so. `Configured` needs `ConfigInv`, the account of the options given: an option changes one
setting, and leaves the latest option among the others where it was (`AmongGrows`).
`MCEntries` joins these parts with the fields and the formats; a behaviour of `MCSpec` is one of the
part that it began with, so what holds of a part holds of the run.

*Loops.* What a fold comes to is proved without the induction theorems of the library,
whose parameter is an operator: a set of naturals that is not empty has a least element
(`Least`, from well-foundedness), so a loop that goes wrong goes wrong at a first step
(`Upward`, `Downward`). `Iter` in the proofs is the function behind a fold, `Loop` its
equations, one element at a time; `Flat` is that of `FlattenSeq`, `Walks` that of `Walk`.

*Formats.* Two loops have to agree that know nothing of each other: one writes a value,
the other reads a line. `Reads` says that a reader comes from one state to another along a
piece of a line, and pieces put together take it through both (`ReadsOn`): so the line is
read escape by escape (`ReadsEscape`), string by string, pair by pair. The writer's loop is
followed from the end of the value back (`WholeOf`), since what it puts together from a
position on is given by what it does from later ones. Where that loop stands, no rune begun
at an earlier byte reaches across (`Clear`, `ClearAfter`), so a byte it takes alone belongs to
no rune. For logfmt a quoted value is
followed byte by byte, with what has been read of it a prefix (`UpTo`) of the value. For
text the loop skips; that what it skips are the bytes an escape sequence covers and no
others needs that sequences lie apart (`Apart`, `SkipsCovered`), which values with an ESC
within a sequence do not give: `TextRight` leaves them out, as `stripANSI` and a terminal
end such a sequence at different bytes.
`EntryIs` is the invariant: an entry has its core keys and a user's, with values of bytes,
and under the core keys but the message what the program puts there; a
key map that lets two keys meet keeps the bytes (`RemappedTyped`). Line breaks of a text
line are traced back piece by piece (`TextBreaksAreRaw`): sanitizing leaves none, so one that is
there stands in a key or in a value that is not sanitized. Which ESCs are left of a value
is a matter of where the loop stops to copy (`StripsAll`).
`MCEntries` calls the entry's value `values`: `SameEncoded` shows, operator by operator,
that its instance of `Formatting` is that of the proofs.

*Helpers.* A snapshot reads an array at or below the length it was taken with, and the
handler appends to another array (`Elsewhere`), since `Records` copies: that is
`SnapInv`, and `PhaseOnly` is inductive with it. Default loggers: `GlobalInv` counts,
for each logger that was ever used, the callers that have it coming back and those that
had it. EveryNSampler: those that have passed are the first of each `N` numbers handed out,
less the numbers whose goroutine is still between the `Add` and its verdict (`EveryInv`).
RateSampler: of the times at which entries passed, those in the current window are the
last `min(count, PerSecond)` (`RateInv`).

*Model-checked only.* Liveness, which the provers here do not reach, and what rests on
`ENABLED`. Every invariant and action property of the passing runs is proved.
`SubsequentOnly` and the other properties under [findings](#findings) do not hold. TLC has
checked every proved property, too, on the instances above.

## Findings

Places where the code does something other than a comment or doc says. Each sentence of
the docs is a definition, named below. One run per component looks for a state in which
*all* of its component's sentences are broken: its property says that one of them
holds (`SinksAsDocumented` and the like), so one counterexample refutes each.

1. **`AsyncWriter.Write` never returns `ErrWriterClosed`** (`AsyncDocs`: `ClosedWriteReported`).
   writer_async.go:45 promises it for a closed writer. The deferred `recover`
   swallows the panic of the send and leaves the results at `(0, nil)`.
2. **Middleware is not serialized** (`FieldsDocs`: `MapsExclusive`). pipeline.go:24 says
   middleware runs under the logger's mutex; `writeEntry` runs the chain
   before it takes the mutex. Redaction edits nested maps in place, so two
   goroutines that log the same nested map, one that `With` was given among them,
   write it at the same time, which the Go runtime ends the process for.
3. **A benign sync error hides real ones** (`SinksDocs`: `RealErrorsReported`). `isBenignSyncError`
   looks for a substring of the error text, and FanOutWriter joins the texts of
   its writers: one sink on a terminal hides the failed fsync of another.
4. **Filters are misled by nested levels** (`SinksDocs`: `OnlyAtOrAbove`). `extractLevel` takes
   the first `"level":"` in the bytes; in a map field that sorts before
   `level` it finds the field's.
5. **`WithGroup` reaches back** (`SlogDocs`: `SubsequentOnly`). slog_handler.go:80 says subsequent
   attributes are prefixed; `Handle` puts the handler's final group before all of
   them, those given before `WithGroup` included.
6. **A filter above INFO drops lines that are not JSON** (`SinksDocs`: `TextPassedThrough`).
   writer_filtered.go:47-48 says that such entries are passed through unchanged;
   `extractLevel` answers INFO where it finds no level.
7. **Plain fields are overwritten by those an error derives** (`FieldsDocs`: `PlainKept`).
   errors.go:14 says that non-error fields are passed through unchanged; `enrichErrors`
   writes `err_type` over a user's field of that name.
8. **`StdLogger(FATAL)` logs at ERROR** (`SlogDocs`: `StdLevelKept`). slog_handler.go:145-146 says
   it routes writes at the specified level; `slogLevelToLevel` knows nothing above ERROR.
9. **Stripping escape sequences can leave one** (`FormatDocs`: `TextNoEscapes`). formatter.go:122-124 says
   that sequences are stripped; the loop goes over the bytes once, and what it leaves may
   be one again: ESC, ESC `[` `m`, `[` becomes ESC `[`.
10. **A text line may be several** (`FormatDocs`: `TextOneLine`). formatter.go:58 says that the entry is a
    single line; keys, and the values of time, level and file, are not sanitized.
11. **A logfmt line may be several** (`FormatDocs`: `LogfmtOneLine`). formatter.go:188 says that it is a single
    line; a line break in a value is put between quotes as it is, and one in a key stays, too.
12. **logfmt with a backslash does not read back** (`FormatDocs`: `LogfmtReadable`). formatter.go:178 says that the
    format is compatible with the systems that read it; quotes are escaped by
    backslashes, and backslashes are not.

Other observations made while modelling, without a run of their own because
nothing in the repository states the contrary outright, or because the model
shows them directly:

- An entry whose call passed the `closed` check may be written after `Sync` has
  returned (`Admitted` bounds which ones, `LossBounded` how many).
- `Fatal` returns to its caller when the logger is closed, middleware drops or
  panics, or the writer panics; once an entry reached the writer it does exit
  (`FatalExits`).
- Errors of the destination behind an AsyncWriter reach neither the fallback nor
  `WriteErrors`: `drain` discards them.
- While `Sync` waits for a hung destination it holds the mutex, and log calls that
  passed the `closed` check wait with it (`NeverStalled` says "until somebody
  flushes").
- A FATAL entry that meets a full buffer is dropped, counted, and the process exits
  without it. `EntriesAccounted` counts it and does not call it wrong: no doc does.
- A panic of the fallback skips the hooks, and on a FATAL entry the exit; so does a panic
  of the final sync, after which the logger is open over a closed AsyncWriter and every
  entry is lost without an error (`FatalExits` and `LossBounded` name the exceptions).
- Two bursts around a window's boundary pass twice the budget within a second
  (`WindowExact` is about one window).
- Concurrent `SetDefault` calls can leave slog's default naming another logger
  than `Default` (two stores, global.go:25).
- `With` on a logger without fields keeps the caller's map: later changes of the
  caller show in the logger's entries. Hooks get that map too, before top-level
  redaction.
- A user's field that lands on
  `fields.<key>` next to a moved reserved key survives or not by map order
  (`AnyWriter`).
- A reserved key that is listed for redaction escapes it once it has moved under
  `fields.`; slices are not searched; LogValuers inside nested maps are not
  resolved, and one that gives up another more than eleven times is logged as is.
- A filter needs `WithLevelKey` when a key map renames `level`.
- A key map that renames onto a user's key (Datadog's `level` to `status`) loses one of
  the two (`Remapped`).
- `WithHooks` given twice keeps the last set only, unlike `WithMiddleware`
  (`Configured`). `WithAutoFormat` decides by a FanOutWriter's first writer.
- The slog path calls no context extractor.
- `AssertLogged` reads the records again for its message after its verdict.
- `WriteErrors` is incremented and the fallback written inside the lock, before
  the hooks: hooks see failed entries as well (`HooksFollowWrites`).

## What is not modelled

- *Encoding of values that are not strings* (numbers, times, nested maps, slices, what
  falls back to `encoding/json`), a formatter's error and the ERROR line that stands in for
  the entry then; the colours of TextFormatter; keys of more than a byte. They are per-type translations without state, which unit tests reach; a model of them
  would repeat the code.
- *The bytes of an entry in the concurrent modules.* An entry is a value there; the
  places where its bytes matter are modelled: the pooled buffer
  (`AsyncWriter.Bytes`), the bytes a filter reads (`Sinks.ExtractLevel`).
- *event_id, caller and stack trace*: their keys are in `Fields`, their values are
  opaque. Identifiers are drawn before the lock, so their order is not the order
  of entries; nothing promises that it is.
- *A hook that logs through the same logger* locks a mutex its goroutine holds and
  blocks for ever; hooks here return or panic. Middleware other than redaction is
  user code: in `Logger` it keeps, drops or panics.
- *A panic of the destination in `drain`* ends the process, and nothing after it
  is promised; so does one of user code that the goroutine that logs does not recover.
- *A fallback that hangs* holds the mutex for good, as a writer that hangs does.
- *Terminal detection* is one ioctl per platform, whose answer is a constant of
  `Options`. The package doc and interfaces have no behaviour.

## Plan

Done, in this order: `LossyBuffer` and `AsyncWriter` with its proofs, `Logger` with
its proofs, `AsyncLogger`, `Sinks`, the helpers, the refinement, `Fields`,
`SlogHandler`, `Options`, `Formatting`, the proofs of `Sinks`, the composition as
an implementation of both its parts, the counts of messages and entries, the proofs of
the helpers and of `MapsKept` and `ListedGone`, order and loss in the composition,
what entries, records of slog and configured loggers are, that lines read back, and panics
of every call of user code under the mutex.

Next:

1. *Formatting*: numbers and nested maps, against the reader of JSON.
2. *Fields over Logger*: the entry of `Logger` with its map, so that hooks and
   middleware of one module see the maps of the other.

Runs are kept few and each asks one question; small components are checked side by
side in one run.
