# TLA+ project for new_era (RFID reader client and ERP bot)

The repository holds a Go client for ST-8508 style UHF RFID readers (TUI, SDK,
LAN discovery, reader protocol) and a bot that matches the tags a reader
delivers against the open stock drafts of an ERP and submits them. This
directory holds TLA+ models of the parts where goroutines, retries and lost
answers make the code hard to test, the TLC runs that check them on small
instances, and TLAPS proofs of the central properties for every value of the
constants.

## 1. Inventory

| Component | Code | State it keeps | Operations | What is hard about it |
|---|---|---|---|---|
| EPC matcher | `internal/gobot/service`, `cache`, `erp` | EPC cache (own RWMutex); under `s.mu`: `scanActive`, `queued`, `inflight`, `recentSeen` with a TTL, counters; the bounded channel `queue` | `HandleEPC`, `AddDraftEPCs`, `RefreshCache`, `SetScanActive`, `enqueue`, `worker`/`processSubmit`, `refreshLoop` | every operation is several critical sections; a read of the cache or of `scanActive` is stale when used; ERP answers arrive late or never; the queue fills up |
| Reader manager | `internal/gobot/reader` | `running`, `cancel`, `done`, status | `Start`, `Stop`, `scanLoop`, `connectAndStart`, `consumeTags`, `finishStopped` | Start and Stop from several goroutines against the loop's own exit; a parent context that ends by itself |
| Command surfaces | `internal/gobot/ipc`, `httpapi`, `telegram`, `cmd/rfid-go-bot` | Telegram offset and chat list | `scan_start`, `scan_stop`, `epc`, `draft_epcs`, `status`, `turbo` | two pieces of state (scanActive, the reader loop) set by two calls; three surfaces that do it in different orders; the context handed to the loop |
| SDK client | `sdk` | inventory run (`inventoryOn`, `cancelInv`, `inventoryDone`), counters, bounded event channels | `Connect`, `StartInventory`, `StopInventory`, `inventoryRun`, `inventoryTxLoop`, `consumePacket`, `emit*` | an old run's goroutines against a new run's fields; antenna rotation; dropped events |
| Reader transport | `internal/reader` | TCP session, packet and error channels | `Connect`, `readLoop`, `Disconnect`, `SendRaw` | reader goroutine closing channels against Disconnect and reconnect; packets dropped on a full channel |
| Reader protocol | `internal/protocol/reader18` | none (pure) | `BuildCommand`, `ParseFrames`, `ParseInventoryG2Tags`, CRC | byte-wide lengths, resynchronisation over noise, frames split over packets |
| Discovery | `internal/discovery` | worker pool of one scan | `Scan`, probes, scores | worker pool and channel closing under cancellation |
| TUI | `internal/tui` | one Bubble Tea model: screen, connection plan, inventory flags; bot sync goroutines | `Update` and its handlers, `bot_sync` | results of commands that outlive the state that asked for them; start and stop frames sent by separate goroutines; bounded ingest queue |
| Sidecar launcher | `cmd/st8508-tui` | the bot's process | `startBotSidecar`, `waitForBot`, `terminateProcessGroup` | two waits on one process, termination by escalating signals |
| Tools and data | `cmd/scancheck`, `internal/regions`, config, rendering | none | | |

How they interact: a reader delivers tags to the SDK (inside the bot, started by
the reader manager) or to the TUI, which forwards new EPCs over the IPC socket;
both end in `HandleEPC`. ERP webhooks end in `AddDraftEPCs`. Scan commands come
over IPC, HTTP and Telegram and touch two things, the flag `scanActive` of the
matcher and the loop of the reader manager. The manager drives one SDK client
per attempt, and the SDK drives one transport session.

What makes each part correct:

- *Matcher*: one submit session per EPC; every reservation in `queued` has one
  owner; a match is given up only in the ways the code lists; a draft closes
  only for a tag that was read; an open draft of a tag in the field closes.
- *Manager*: one loop at a time, fields that describe it, every Stop returns.
- *Surfaces*: flag and reader agree between requests; a stop stops both.
- *Transport*: the session in the client is the one being read; it goes when its
  connection is closed.
- *SDK*: an inventory lasts until it is stopped or fails; its channel is closed
  once; StopInventory returns.
- *Protocol*: a frame that arrives whole is found once, however its bytes are
  cut into packets and whatever noise lies beside it; its tags are counted once.
- *Discovery*: a scan ends, also when its context does; its list is complete and
  names each endpoint once.
- *TUI*: what the screen says of scan, plan, connect and reading is so, through
  messages that outlive the state that asked for them; the one session that is
  read is watched; a connect comes to its end.
- *Bot sync*: the bot's scan state follows the TUI's (not modelled, section 6).

## 2. Modules

| Module | Models | Notes |
|---|---|---|
| `EPCService` | `service.go`, `cache/store.go`, `erp/client.go` | request goroutines, the refresh ticker, workers, ERP, clock, restarts |
| `EPCServiceProperties` | | invariants and action properties |
| `EPCServiceLiveness` | | fairness, liveness properties, a smaller environment for TLC |
| `DraftClosing` | what the matcher promises the ERP | abstract specification |
| `EPCServiceRefinement` | | the mapping from matcher to promise, with histories of the EPCs read and the drafts opened |
| `ReaderManager` | `gobot/reader/manager.go` | Start, Stop, scanLoop |
| `ScanControl` | scan start and stop of `ipc`, `httpapi`, `telegram`, `main.go` | EXTENDS `ReaderManager`: handlers are the only callers of its operations |
| `ReaderTransport` | `internal/reader/client.go` | Connect, Disconnect, readLoop, and Reconnect of the SDK and the TUI |
| `TuiSession` | `internal/tui`: `Update` and its handlers, `commands.go` | EXTENDS `ReaderTransport`: the TUI's connect and disconnect commands are its callers |
| `InventorySession` | inventory part of `sdk/client.go` | fields, run, transmit loop, a link that fails |
| `ReaderProtocol` | `internal/protocol/reader18` | bytes, checksum, frames, both inventory payloads; no state |
| `TagStream` | read loop, packet channel, `consumePacket` of the SDK, `packetMsg` and the inventory tick of the TUI | EXTENDS `ReaderProtocol`: from bytes to tags, target and antennas |
| `Discovery` | `internal/discovery/scanner.go` | targets, worker pool, scores, list |
| `Folding` | | facts about `FoldLeft` for every operator, the induction the loops of the code need |
| `*Proofs` | | theorems of the module named; `EPCServiceProofs` has those of the refinement too, `ScanControlProofs` those of `ReaderManager`, `InventoryProofs` those of `InventorySession` |
| `MC*` | | symmetry and bounds for TLC |

Operators prefixed by a comment "Fault:" are not used by any specification. Each
is the operation that follows it with one plausible mistake; substituted for the
operation, it breaks one property, which shows that the property depends on that
line of the code.

### State and actions against the code

*Atomicity.* Go code between two operations on shared state is one step with the
second of them. A section of a mutex that calls nothing shared is one step. In
`EPCService`, `collectReplayCandidates` calls the cache, which has its own lock,
while it holds `s.mu`; its section is therefore several steps, `mu` names the
holder, and every other section of `s.mu` waits for it. A channel operation, a
cache call and an ERP call are steps of their own.

*EPCService.* `cache`, `scanActive`, `queued`, `inflight`, `recentSeen`, `queue`
carry the names of the code. `stale` are the entries of `recentSeen` older than
`RecentSeenTTL` (`Age` moves an EPC there; `gcRecentSeenLocked` drops them).
`pc/op/arg/scan/todo/cur` are the local variables of a request goroutine,
`wpc/hand/attempt/reply` those of a worker. `drafts` and `late` are the ERP's:
a submit whose client timed out may still be executed.

*ReaderManager.* A value of `Loops` is one goroutine of `scanLoop` with its
context and its done channel. `cancel` and `done` name the loop they belong to.
`finishing` and `closing` are the two deferred calls, in their order.

*ScanControl.* `hpc` is the next call of a handler. `quiet` is a history
variable: no scan start has been under way since this scan stop began. So is
`unread`: the code has left an active scan without a reader in one of three known
ways, and has started none since.

*EPCServiceRefinement.* `sinceFetch` and `sinceReply` are history variables: the
drafts opened since a refresh got its list, or a worker its answer, which that list
or answer cannot know of.

*ReaderTransport.* A value of `Sessions` is a `*session`; `again` marks the
Disconnect of a Reconnect.

*TuiSession.* `m` is the Bubble Tea Model, reduced to the fields that decide what
is sent to the reader. Bubble Tea handles one message at a time: a handler is an
operator from Model to Model, commands and perhaps a connect or disconnect, and
one step. `flight` counts the commands that run or whose message waits, by kind;
nothing tells two of a kind apart, and any of them may be next. `waits` counts
the goroutines that wait for a packet or an error, by the session whose channel
they hold: one that was started for a session goes on waiting after a reconnect
has replaced it. A caller of `ReaderTransport` is one connect or disconnect
command (`job`); when it is idle again its message has yet to be handled.

*TagStream.* A packet is a pair of positions in the byte stream of the reader.
Tags, counters, target and mask are those of the SDK's Client or of the Model.
`received`, `handled`, `asked` and `tags.quiet` are history variables: what was
consumed and handled since the start, the antennas asked, the empty rounds in a
row. `ParseFrames` and the checksum are recursive functions over bytes and bits, at
the width they have in the code; the payload parsers are folds over the tags.
A transcript is a list of segments, frames and noise; `Lay` puts them one behind the
other and notes where the frames lie.

*Discovery.* A value of `Workers` is a goroutine of the pool; `wpc` is where it is
in its loop. The network is a function from the endpoints that answer to what
they answer. The targets are a list in some order, since the pool may take
them in any.

*InventorySession.* A value of `Runs` is an inventory: context, done channel, the
goroutines `inventoryRun` (`rpc`) and `inventoryTxLoop` (`tpc`). The fields name
the run they belong to, so that a goroutine that takes another run's channel or
cancel function shows. `owed` is a history variable: the run the application may
count on; it ends with the application's stop or context and with a failure of
the run. Connections are reduced to `link`, `broken` and `used`;
`ReaderTransport` has their detail.

## 3. Runs

| Run | Question | Instance | States | Result |
|---|---|---|---|---|
| `service_sessions` | do sessions exclude each other, is any match lost silently, does an open draft stay in the cache, does the matcher keep its promise to the ERP? | 1 EPC, 2 workers, 1 caller, ticker, queue 1, 1 retry | 1.6 million | holds |
| `service_queue` | does every reservation have one owner when the queue is full, is any match lost silently then? | 2 EPCs, 1 worker, 1 caller, ticker, queue 1, 1 retry | 2.0 million | holds |
| `service_live` | do drafts close, does a stopped scan drain? | 1 EPC and a rival the ERP refuses, 1 worker, 1 caller, ticker, queue 1, no retry | 285 thousand | holds |
| `service_replay` | is a new draft of a submitted EPC replayed? | 1 EPC, 1 worker | to the error | **violated** |
| `control_surfaces` | one loop, exact fields, does every Stop return, does a scan stop stop everything, does an active scan have a reader? | HTTP, IPC, auto scan of main, active by default; 2 loops | 210 thousand | holds |
| `sdk_single` | does an inventory last until it is stopped, end once, do its goroutines return? | 1 run, 3 callers, 3 links | 83 thousand | holds |
| `sdk_again` | does StopInventory return, of a second inventory too? | 1 caller, 2 runs, 2 links | 360 thousand | holds |
| `sdk_restart` | does an inventory last that follows a failed one? | 1 caller, 2 runs, 2 links | to the error | **violated** |
| `tui_session` | is the screen right about scan, plan, connect and reading, is the session the one that is read, and watched? | 2 commands at once, 2 sessions, 1 key, plans of 1 and 2 endpoints | 253 thousand | holds |
| `tui_live` | does a connect end, does reading end with its session, does a closed session go? | 2 commands at once, 1 session, 1 key | 85 thousand | holds |
| `tag_stream` | are frames and tags found once each, and as if the bytes had come in one piece, does the target turn, do antennas take turns? | SDK and TUI, 2 transcripts, Reads of 5 and 12 bytes, channel of 2, 1 drop, 2 starts, 2 configurations | 664 thousand | holds |
| `discovery_pool` | does a scan return, complete, without repeats, verified readers first? | 2 workers, 1 interface, 23 hosts, a port given twice, 3 answers | 545 thousand | holds |

*Bounds.* EPCs meet only in the queue. `service_queue` has two EPCs and one entry,
so that a send fails while another EPC is reserved, sent, received and dropped;
`ShortHistory` leaves out aging and, but after a restart, late submits, which touch
neither queue nor reservations. `service_sessions` has one EPC, which is enough for sessions,
cache and drafts, and two workers, the fewest for a race between sessions. Its one
EPC never finds the queue full; `NoSilentLoss` is therefore asked in both runs.

`service_live` asks for one EPC (`Watched`) in the company of another that the ERP
refuses for ever (`Rivals`): it is retried by every refresh and takes entry and
worker again and again, so that the watched EPC is dropped at a full queue. Its
tag may expire and be read again, its webhooks may be overwritten by an older list.
What makes this fit: the rival is read before anything else happens, and submits
that outlive their client, restarts and a second worker, with the refusal at
`lockInflight`, are left to `service_sessions`. `MatchedDraftCloses` exempts a tag
that finds the queue full for ever; without the exemption TLC finds the rival
taking the entry each time.

`control_surfaces` has one caller of each surface with a behaviour of its own. A
Telegram command does what an IPC request does, but does not give up when the
refresh fails, so with a reader its steps are among those of IPC. `Loops` bounds how
many goroutines can be between `finishStopped` and `close(done)` or at work at
once, each perhaps with a Stop waiting for it: with two, one is still on its way
out while the next one reads.
A loop that is closed and that nobody holds is used again, so the
number of starts is not bounded; a Start that finds no free loop waits for one.
`Sessions` works the same way. `Runs` and `Links` bound the starts and connects
of one behaviour, since an old run may refer to a new one; the `sdk_` runs
switch deadlock checking off because a behaviour ends when they are used up. So do
the `tui_` runs, `tag_stream` and `discovery_pool`, whose behaviours end when no
command is left and the keys are spent, when the stream has been consumed and the
bounds reached, and when the scan has returned. The other runs check for deadlock.

`tui_session` presses one key besides what the program does by itself: it scans,
connects and starts to read at start-up, and every scan, connect, error, tick and
timer goes on from there. A second key makes more than 4.5 million states, too
many for a run; the proofs of section 4 hold for any number of keys. One
unhandled inventory error (`MaxErrors`) is the fewest that can be late; more of
them do the same to the Model. `SlowLoop` lets `Disconnect` give up its wait.
`tui_live` has one session so that each connect needs it back: a session that was
never let go would end all connects. With two callers a
late disconnect runs beside a connect, or two connects race; a handler that
would start a third command waits for one of them to end.

`tag_stream` has the real constants for the parser's cut (8192 and 4096 bytes).
It never fires: the parser keeps fewer than 256 bytes and a Read returns at most
4096. The transcripts hold frames with two tags, one and none, a payload cut
short, noise whose length byte swallows a frame, and empty answers in both
formats, enough of them to pass a limit that a change of configuration lowers; 5 and 12 bytes split every frame and join neighbours. The channel of two
is full with one packet dropped in every place. Four rounds pass once around the
three antennas of the mask.

`discovery_pool` has more targets than the channel holds and more answers than
workers; two workers race for the last places and for the end of the jobs.

*A property in two runs.* `OwedRunIsOn` holds for one inventory (`sdk_single`) and
fails for two (`sdk_restart`): together they say where the code keeps the promise.
`StopsReturn` holds for two inventories of one goroutine (`sdk_again`), the use the
SDK documents.

### Fairness

- Go runs every goroutine that can go on: weak fairness of each goroutine's
  steps. Discovery, connects, writes and the SDK's Stop have timeouts, so these
  steps end. A tag consumer or a Read on an open connection need not
  end: they are fair only once the context is done or the connection is closed.
- `sync.Mutex` hands itself to a waiter after 1 ms (starvation mode), so a step
  that waits for `s.mu` is strongly fair in `EPCService`.
- The ticker keeps firing and a fetch succeeds now and then (weak fairness of
  the ticker's refresh); a submit of a watched EPC that is tried for ever is
  answered some time (strong fairness of the answer). Without either the code
  cannot close drafts. Of a rival's submits nothing is asked.
- TUI: Bubble Tea delivers every message. Only ticks, failed inventory commands
  and the ends of connects and disconnects are used; nothing is asked of the
  scan, the probe's timer, packets or errors. A read loop whose
  connection is closed fails, closes its channels and unregisters.
- Discovery: dials and reads have deadlines, so every worker, the producer, the
  closer and the collector go on. The context need not end.
- No fairness of users, keys, readers' failures, restarts, webhooks or aging.

## 4. Theorems

All for every value of the constants, from the assumptions stated in the modules:
distinct null values, natural queue size and retries, disjoint surfaces; bytes and
labels of transcripts, sizes and configurations in their ranges; scan results with
positive ports. TLC evaluates each of them.

*EPCServiceProofs.* `TypeCorrect`. `InflightIsExact` and `SessionsExclude`: the
invariant is their conjunction (`SessionInv`), inductive because only
`lockInflight` adds to `inflight`, only the worker in session removes its own
EPC, and two sessions with one EPC would need two additions. `ReservationsExact`
needs that the channel holds no EPC twice: lemmas on `Append`, `Head` and `Tail`
carry injectivity. `NoMatchLostSilently` is an action property: it rests on
`Tidy` (a goroutine keeps no left-over candidates once it has returned) and goes
through every step that could end the last obligation to look at an EPC. It speaks
of matches whose EPC is cached; `OpenDraftsKept` adds when an open draft may leave
the cache: with a restart, or by an answer older than the draft. Only `Replace` and
`RemoveCached` take anything out of the cache (`CacheShrinks`), and each of them
acts on an answer in which every draft open at that time was listed, or closed.
`OnlyReadEPCsAreSubmitted` and `Refinement`: each step of the matcher is a step of
`DraftClosing` or a stutter. The invariant of the history says that whatever is on
its way to the ERP has been read.

*ScanControlProofs.* First the manager: `ManagerInv` strengthens its properties by
`Served`: a Stop that has taken `m.done` waits for a loop whose context is done, or
about to be cancelled by some Stop, or that is over. Without it the second of two
Stops, which finds `m.cancel` nil, could not be shown to be served. From it follow
`ManagerTypeCorrect`, `OneLoopAtATime`, `FieldsAreExact`, `LoopStoppable`,
`NoStopForgotten`. `ControlRefinesManager` shows that handlers use the manager
by its operations only, so its invariants carry over. `QuietStops` rests on
`QuietInv`: while a scan stop runs alone, `m.done` is nil or the channel it waits
for. `ActiveScansRead` has no assumption: all surfaces, with the auto scan and with scanning
active by default. Its invariant (`ScanServed`) says that while scanning is
active a loop reads, or a start is still on its way, or a stop is about to switch
the flag off, or the scan was left in one of the three ways `unread` names. It rests on
`CancelledKnown` (a loop in service has a context that is done only through its HTTP
request, a shutdown or a Stop that is under way) and `LeavesCancelled` (a loop goes
out of service only with its context done).

*ReaderTransportProofs.* `OneSessionIsRead` from `HoldsSession`: a connection
between dial and registration belongs to one caller and has no loop yet.

*TuiSessionProofs.* For any number of keys, commands, sessions and scan results.
`TuiInv` joins `TransportInv` with four statements about the Model. `Kept` says
what a handler's result must satisfy, given how many scans and ticks are on their
way; one lemma shows that a kept result keeps the invariant, one lemma per handler
that its result is kept, and one per step of the transport that it disturbs
neither. From it follow `TuiTypeCorrect`, `ScansAreRunning`, `ReadingHasTick`,
`ConnectingIsRunning` and `TuiReadsOneSession`. `PlanIsSound` adds that the plan
repeats no endpoint. The plan is built by three loops, so its facts are proved with
`Folding`: `PlanHasNoEndpointTwice` (each loop appends only what is new) and
`PlanTriesAll` (it begins with the preferred candidate and leaves no usual port of
any candidate out), for every list of candidates and of ports. `SessionIsWatched`
needs `JobInv`: only the goroutine of a connect is ever between dial and
registration, so that whoever registers a session brings the message whose handler
waits for its packets. A goroutine that waits in vain is told so and waits again; the
lemmas follow it through every message, where the next `waits` is at the session now
read.

*InventoryProofs.* For one inventory and any number of goroutines and
connections. `InventoryInv` ties fields, run and callers together: the fields name
the run exactly while it is on; one goroutine starts it; the run the application
counts on has its link and nobody about to cancel it (`Counted`); a run that has
been switched off has its context done or somebody on the way to cancel it
(`Told`). `OwedRunIsOn` alone says nothing of who is about to end the run, and
`OffIsCancelled` nothing of the fields that tell whom to cancel. The assumption
of one run cannot be dropped: `sdk_restart` shows why.

*DiscoveryProofs.* For every network, port list, pool and channel capacity, with a
context that ends at any time. Without an error each target the producer has
handed over is accounted for (`Accounted`): it does not answer, a worker has it,
it is in the channel, or it is in the list. When the pool has ended and the
channel is empty only the list is left, whence `DiscoveryComplete`. Sorting is
any permutation that ranks, which keeps the set and that nothing is in it twice.
`DiscoveryVerifiedFirst`: port and banner together never reach the lowest score
with the protocol's answer; the code counts six keywords (`KeywordsAssumption`).

*TagStreamProofs.* For every stream of bytes, all configurations, any reads, drops
and starts. The parser first. It is a recursive function on sequences of bytes;
`LengthInduct` (what holds of a buffer once it holds of all shorter ones) shows that
it is the function its definition says (`ParserIs`) and that it ends with verified
packets and a rest that waits for more (`ParseFramesType`). `CutsDoNotMatter`:
parsing packet by packet gives what parsing at once gives. `VerifiedIsTaken` and
`BuiltVerifies`: what `BuildCommand` makes is found at the front of any buffer.

`StreamInv` then is the inductive invariant. The packets in the channel are
disjoint pieces of the stream, in order and behind what was consumed
(`PacketsInv`); the kept bytes wait, hence are fewer than 256 and the cut at 8192
never takes any. `ParsedAtOnceAlways` follows by `CutsDoNotMatter`.
`TargetTurnsAlways` needs that the rounds without a tag are at most the code's own
count (`Counted`), which the handlers keep by folds over frames and tags.
`RotationIsFair` needs that each antenna asked is the next of the mask behind the one
before (`Asks`); n such steps pass all n. `TagsAreExact`: the tags are those that
the handled frames report, on the condition that only sent frames were handled,
since noise, or two halves beside a dropped packet, may make a packet that verifies.
`FramesAreExact` says when that cannot be: `Unmistakable`, the bytes look like a
packet only where a frame was sent, and `Gapless`, no packet of the inventory was
dropped. Then `FindsFrames`, an induction over what is left of the bytes, gives the
frames found with their places, in order, and each frame that arrived whole is
handled once, wherever the inventory began. Both transcripts of `tag_stream` are
unmistakable (`UnmistakableAssumption`).

*Folding.* `FoldLeft` of the community modules is a recursion over sets of indices;
`IterExists` shows by induction on the length that the recursion has a solution, and
`FoldRuns` turns a fold into the list of its intermediate values, one step of the
loop each. `FoldKeeps`, `FoldEnds` and `FoldFrom` are the three ways the proofs use
it. Induction is stated with a set, which the provers can instantiate, and derived
from the naturals being well-founded.

*Only model-checked*: liveness (`MatchedDraftCloses`, `StopDrains`,
`StopReturns`, `StopsReturn`, `GoroutinesEnd`, `ConnectEnds`, `ReadingEnds`,
`SessionForgotten`, `ScanReturns`), which is out of the prover's reach; `FramesExact`
and `TagsExact` of streams with a gap, where no assumption on the stream rules out a
packet joined from two halves: that the checksum finds it is a fact about each
transcript, which `tag_stream` checks for its two.

## 5. Where the code and its documentation part

- A submit session holds `inflight` through its notification; a draft that
  arrives then is reported as replayed and is not (`service_replay`).
- The goroutines of a failed inventory use the fields of the next one and
  switch it off (`sdk_restart`).

More behaviours follow from the models. They contradict no document or come down
to one line, and have no run of their own:

- An HTTP scan start gives the reader the request's context (`manager.go:62`,
  `httpapi/server.go:199`): the reader ends with the request while the scan stays
  active.
- With scanning active by default and no auto scan, the shipped defaults
  (`config.go:58`), main switches the flag on and starts no reader (`main.go:75`):
  the scan is active without a reader until somebody asks for one.
- A Telegram `/stop` between the two calls of main's auto scan (`main.go:86`) leaves
  the flag on and the reader off.

  `ActiveScanReads` names these three as its exceptions (`unread`); it says that
  there is no fourth, and that the next start that finds no loop ends each of them.
- In the `ingest` backend HTTP gets a non-nil interface with a nil manager
  (`main.go:109`, `httpapi/server.go:223`): scan stop panics before it switches
  scanning off. The actions for `HasReader = FALSE` show it; the runs take a
  backend with a reader, the proofs either.
- `readLoop` closes `done` before it clears the session
  (`internal/reader/client.go:89`): a reconnect that was waiting for `done` may
  fail with "already connected". `ConnectEnds` and `SessionForgotten` hold all
  the same: the plan moves on, and the session goes.
- A reconnect ends a reading without `onStopReading`: reading goes off in the
  Model, the bot is not told (`OnConnected` of `TuiSession`).
- A stop and a start of reading within one tick leave two ticks, both of which
  send commands until reading stops. `ReadingTicks` says that there is one at least.
- A scan start between the two calls of a scan stop leaves the reader running
  for a scan that is off; the next scan stop ends it. `QuietStop` therefore
  speaks of a scan stop without a start beside it.
- With two inventories the end of the first may close the channel of the second,
  which its own end closes again: a panic. `ClosedOnce` holds for one inventory.
- With two goroutines on one SDK client a StopInventory may wait for the channel
  of a run that the other goroutine's start has replaced. `StopsReturn` is
  checked for one goroutine and two inventories.
- The reader manager passes on new tags only (`manager.go:240`), and `recentSeen`
  forgets after its TTL: a tag that stays in the field is matched with drafts that
  come within the TTL, not with later ones. `MatchedDraftCloses` therefore speaks of
  tags that are read again.

## 6. Not modelled

- *TUI bot sync*: each frame is a goroutine and a connection of its own, and its
  answer becomes a status text. The bot may therefore take start, stop and EPC
  frames in any order, which is what the IPC callers of `ScanControl` and the
  request goroutines of `EPCService` do already; what the composition would add
  is that the bot's flag need not follow the TUI's reading, which is so by the
  code (`bot_sync.go:80`). Its hazards are listed without a property.
- *Telegram polling*: one goroutine, one offset. Its handlers are in `ScanControl`.
- *Sidecar launcher*: start, signals and waiting for a process are the operating
  system's.
- *Scan control*: status and turbo change nothing of scan or reader; the `epc` and
  `draft_epcs` requests are the callers of `EPCService`.
- *SDK*: the choice of a candidate in `Discover` and `Connect`, the commands of
  `ApplyInventoryConfig`, and the event channels, which drop what finds them full.
- *TUI*: navigation, the raw input line, regions and most tuning keys, logs, bot
  status; rendering.
- *Reader manager against the SDK*: the connection that a failed start leaves
  behind (`manager.go:215`) is one missing call and no interleaving.
- Configuration, the region table, `scancheck`, sockets and the texts of banners,
  and counters that nothing reads back.
