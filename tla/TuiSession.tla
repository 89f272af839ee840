------------------------------ MODULE TuiSession ------------------------------
(***************************************************************************)
(* The terminal program (internal/tui): Update handles one message at a    *)
(* time and returns a new Model and commands; each command runs in a       *)
(* goroutine of its own and its message is handled some time later, in any *)
(* order.  Connects and disconnects are the callers of ReaderTransport,    *)
(* whose sessions also end by themselves.                                  *)
(*                                                                         *)
(* A handler is an operator that takes the Model and gives the Model and   *)
(* the commands it returns.  Left out: screens, cursors, logs, the raw     *)
(* input line, tuning and the tags; commands that configure the reader,    *)
(* whose outcome is a status text; quitting.  A handler is one step: where *)
(* it looks at the client twice, the two looks are taken as one.           *)
(***************************************************************************)
EXTENDS ReaderTransport, Integers, SequencesExt

CONSTANTS
    ScanResults,    \* lists of candidates a scan may return
    ScanPorts,      \* scanOptions.Ports
    FallbackPorts,  \* portFallback
    MaxKeys,        \* bound: keys the user presses
    MaxErrors       \* bound: failed inventory commands not handled yet

VARIABLES
    m,       \* the Model
    flight,  \* commands that run, or whose message waits for Update, by kind
    waits,   \* waitPacketCmd and waitReaderErrCmd, by the session they wait for
    job,     \* per caller: the connect or disconnect command it runs
    errs,    \* sessions whose error nobody has taken
    keys     \* keys pressed

tuiVars == <<m, flight, waits, job, errs, keys>>
allVars == <<vars, tuiVars>>

\* Model.pendingAction; Start, Probe and Raw are rows of the control menu.
NoPendingAction == -1
Start == 0
Probe == 2
Raw == 3

Channels == {"packets", "errors"}
Kinds == {"scan", "tick", "timer", "inventoryErr", "probeSent"}
Jobs == {"free", "reconnect", "disconnect", "reconnecting", "disconnecting"}

-----------------------------------------------------------------------------
(***************************************************************************)
(* The connection plan: the endpoints to try, the preferred candidate's    *)
(* own first, then the usual ports of every candidate's host.              *)
(***************************************************************************)
Port == Nat \ {0}

AppendNew(out, x) == IF Contains(out, x) THEN out ELSE Append(out, x)
Distinct(list) == FoldLeft(AppendNew, <<>>, list)

MergePortOrder(port) == Distinct(<<port>> \o ScanPorts \o FallbackPorts)

CandidateConnectOrder(total, preferred) ==
    Distinct(<<preferred>> \o [i \in 1..total |-> i])

EndpointsOf(candidate) ==
    [k \in DOMAIN MergePortOrder(candidate.port) |->
       <<candidate.host, MergePortOrder(candidate.port)[k]>>]

AppendEndpoints(plan, candidate) == FoldLeft(AppendNew, plan, EndpointsOf(candidate))

BuildConnectPlan(found, preferred) ==
    LET order == CandidateConnectOrder(Len(found), preferred)
    IN FoldLeft(AppendEndpoints, <<>>, [i \in DOMAIN order |-> found[order[i]]])

PreferredCandidate(found) ==
    LET verified == {i \in DOMAIN found : found[i].verified}
    IN IF verified = {} THEN 1 ELSE CHOOSE i \in verified : \A k \in verified : i <= k

PlanOf == [r \in ScanResults |-> [i \in DOMAIN r |-> BuildConnectPlan(r, i)]]
Plans == UNION {{PlanOf[r][i] : i \in DOMAIN r} : r \in ScanResults}

ASSUME KeysAssumption == MaxKeys \in Nat

Found == UNION {ToSet(r) : r \in ScanResults}

\* Every port is one: buildConnectPlan passes over others, and there are none.
ASSUME ScanAssumption ==
    /\ <<>> \in ScanResults
    /\ ScanResults \subseteq Seq(Found) /\ \A c \in Found : c.port \in Port
    /\ ScanPorts \in Seq(Port) /\ FallbackPorts \in Seq(Port)

-----------------------------------------------------------------------------
(***************************************************************************)
(* The types, and the state before Init's commands have done anything: the *)
(* first scan runs, a connect is wanted of it and then reading.            *)
(***************************************************************************)
Model == [inventoryRunning : BOOLEAN, awaitingProbe : BOOLEAN,
          connecting : BOOLEAN, connectQueue : Plans \cup {<<>>}, connectAttempt : Nat,
          pendingConnect : BOOLEAN, pendingAction : {NoPendingAction, Start, Probe, Raw},
          scanning : BOOLEAN, candidates : ScanResults]

NewModel == [inventoryRunning |-> FALSE, awaitingProbe |-> FALSE,
             connecting |-> FALSE, connectQueue |-> <<>>, connectAttempt |-> 0,
             pendingConnect |-> TRUE, pendingAction |-> Start,
             scanning |-> TRUE, candidates |-> <<>>]

TuiTypeOK ==
    /\ TypeOK
    /\ m \in Model
    /\ flight \in [Kinds -> Nat] /\ waits \in [Channels -> [Sessions \cup {None} -> Nat]]
    /\ job \in [Callers -> Jobs]
    /\ errs \subseteq Sessions /\ keys \in 0..MaxKeys

TuiInit ==
    /\ Init
    /\ m = NewModel
    /\ flight = [k \in Kinds |-> IF k = "scan" THEN 1 ELSE 0]
    /\ waits = [ch \in Channels |-> [s \in Sessions \cup {None} |-> 0]]
    /\ job = [c \in Callers |-> "free"]
    /\ errs = {} /\ keys = 0

-----------------------------------------------------------------------------
(***************************************************************************)
(* Handlers.                                                               *)
(***************************************************************************)
Return(model, cmds) == [m |-> model, cmds |-> cmds, job |-> "free"]
Spawn(model, j) == [m |-> model, cmds |-> {}, job |-> j]

NotReading(model) == [model EXCEPT !.inventoryRunning = FALSE]

\* Some endpoint is in the plan of a candidate that was found.
BeginConnectPlan(model, preferred) ==
    Spawn([model EXCEPT !.connectQueue = PlanOf[model.candidates][preferred],
                        !.connectAttempt = 0, !.connecting = TRUE], "reconnect")

\* Fault: a retry one endpoint past the end.
CanRetryBeyond(model) ==
    model.connectQueue # <<>> /\ model.connectAttempt < Len(model.connectQueue)

\* retryNextConnect.  At the end of the plan it gives the caller back a Model
\* that all its callers drop: the plan stays.
CanRetry(model) ==
    model.connectQueue # <<>> /\ model.connectAttempt + 1 < Len(model.connectQueue)

\* Fault: a retry that stays at its endpoint.
RetrySameConnect(model) == Spawn([model EXCEPT !.connecting = TRUE], "reconnect")

RetryNextConnect(model) ==
    Spawn([model EXCEPT !.connectAttempt = @ + 1, !.connecting = TRUE], "reconnect")

OnScanFailed(model) ==
    Return([model EXCEPT !.scanning = FALSE, !.pendingConnect = FALSE, !.connecting = FALSE], {})

OnScanFinished(model, found) ==
    LET done == [model EXCEPT !.scanning = FALSE, !.pendingConnect = FALSE,
                              !.candidates = found]
    IN IF found = <<>>
       THEN Return([done EXCEPT !.pendingAction = NoPendingAction, !.connectQueue = <<>>,
                                !.connectAttempt = 0, !.connecting = FALSE], {})
       ELSE IF model.pendingConnect THEN BeginConnectPlan(done, PreferredCandidate(found))
       ELSE Return(done, {})

\* Fault: a connect that failed and is still shown.
OnConnectFailedShown(model) ==
    IF CanRetry(model) THEN RetryNextConnect(model)
    ELSE Return([model EXCEPT !.pendingAction = NoPendingAction], {})

OnConnectFailed(model) ==
    LET off == [model EXCEPT !.connecting = FALSE]
    IN IF CanRetry(off) THEN RetryNextConnect(off)
       ELSE Return([off EXCEPT !.pendingAction = NoPendingAction], {})

\* Fault: a connect that starts reading without its tick.
OnConnectedTickless(model) ==
    Return([model EXCEPT !.connecting = FALSE, !.connectQueue = <<>>, !.connectAttempt = 0,
                         !.inventoryRunning = model.pendingAction = Start,
                         !.awaitingProbe = model.pendingAction = NoPendingAction,
                         !.pendingAction = NoPendingAction],
           Channels \cup CASE model.pendingAction = Start -> {}
                           [] model.pendingAction = Probe -> {"probe"}
                           [] model.pendingAction = Raw   -> {}
                           [] OTHER                       -> {"probe", "timer"})

\* Fault: a connect that watches its errors only.
OnConnectedDeaf(model) ==
    Return([model EXCEPT !.connecting = FALSE, !.connectQueue = <<>>, !.connectAttempt = 0,
                         !.inventoryRunning = model.pendingAction = Start,
                         !.awaitingProbe = model.pendingAction = NoPendingAction,
                         !.pendingAction = NoPendingAction],
           {"errors"} \cup CASE model.pendingAction = Start -> {"tick"}
                             [] model.pendingAction = Probe -> {"probe"}
                             [] model.pendingAction = Raw   -> {}
                             [] OTHER                       -> {"probe", "timer"})

\* The action that was waiting for a connection, or else a probe.  A reading that
\* was on ends here without onStopReading.
OnConnected(model) ==
    Return([model EXCEPT !.connecting = FALSE, !.connectQueue = <<>>, !.connectAttempt = 0,
                         !.inventoryRunning = model.pendingAction = Start,
                         !.awaitingProbe = model.pendingAction = NoPendingAction,
                         !.pendingAction = NoPendingAction],
           Channels \cup CASE model.pendingAction = Start -> {"tick"}
                           [] model.pendingAction = Probe -> {"probe"}
                           [] model.pendingAction = Raw   -> {}
                           [] OTHER                       -> {"probe", "timer"})

OnDisconnected(model) ==
    Return([NotReading(model) EXCEPT !.awaitingProbe = FALSE, !.connecting = FALSE,
                                     !.connectQueue = <<>>, !.connectAttempt = 0], {})

\* Fault: a tick without a session that forgets that reading is over.
OnTickLost(model) ==
    IF ~model.inventoryRunning \/ session = None THEN Return(model, {})
    ELSE Return(model, {"inventory", "tick"})

OnTick(model) ==
    IF ~model.inventoryRunning THEN Return(model, {})
    ELSE IF session = None THEN Return(NotReading(model), {})
    ELSE Return(model, {"inventory", "tick"})

OnProbeTimeout(model) ==
    LET off == [model EXCEPT !.awaitingProbe = FALSE]
    IN IF ~model.awaitingProbe \/ model.inventoryRunning THEN Return(model, {})
       ELSE IF CanRetry(off) THEN RetryNextConnect(off)
       ELSE Spawn(off, "disconnect")

\* Once the session is gone the plan goes on, unless a connect is running.
OnReaderErr(model) ==
    LET off == [NotReading(model) EXCEPT !.awaitingProbe = FALSE]
    IN IF session # None THEN Return(model, {"errors"})
       ELSE IF ~model.connecting /\ CanRetry(off)
            THEN RetryNextConnect(off)
       ELSE Return([off EXCEPT !.connecting = FALSE], {"errors"})

RunScan(model) == Return([model EXCEPT !.scanning = TRUE, !.pendingConnect = TRUE], {"scan"})
AwaitScan(model) == Return([model EXCEPT !.pendingConnect = TRUE], {})

\* requestConnectionForAction.
RequestConnectionForAction(model, action) ==
    LET wanted == [model EXCEPT !.pendingAction = action]
    IN IF model.candidates # <<>>
       THEN BeginConnectPlan(wanted, PreferredCandidate(model.candidates))
       ELSE IF model.scanning THEN AwaitScan(wanted) ELSE RunScan(wanted)

RunQuickConnect(model) ==
    IF model.scanning THEN AwaitScan(model)
    ELSE IF model.candidates # <<>>
         THEN BeginConnectPlan(model, PreferredCandidate(model.candidates))
    ELSE RunScan(model)

\* Fault: a rescan that does not look whether a scan is running.
RescanAnyway(model) ==
    Return([model EXCEPT !.scanning = TRUE, !.pendingConnect = TRUE,
                         !.connectQueue = <<>>, !.connectAttempt = 0], {"scan"})

\* Rescan and quick connect.
Rescan(model) ==
    LET cleared == [model EXCEPT !.connectQueue = <<>>, !.connectAttempt = 0]
    IN IF model.scanning THEN AwaitScan(cleared) ELSE RunScan(cleared)

\* The scan key of the device list.
ManualScan(model) ==
    Return([model EXCEPT !.scanning = TRUE, !.pendingConnect = FALSE,
                         !.connectQueue = <<>>, !.connectAttempt = 0], {"scan"})

StartReading(model) ==
    IF session = None THEN RequestConnectionForAction(model, Start)
    ELSE Return([model EXCEPT !.inventoryRunning = TRUE], {"tick"})

ProbeInfo(model) ==
    IF session = None THEN RequestConnectionForAction(model, Probe)
    ELSE Return(model, {"probe"})

-----------------------------------------------------------------------------
(***************************************************************************)
(* Update.  A handler's step starts the commands it returns.  A command    *)
(* that sends has sent by the end of the step; its message comes later.    *)
(***************************************************************************)
Count(condition) == IF condition THEN 1 ELSE 0

\* A probe that is written and an inventory command that is not send messages;
\* a probe that is not written gives a status text.
Sends == {"probe", "inventory"}
Started(cmds, written) ==
    (cmds \ Sends)
      \cup (IF written /\ "probe" \in cmds THEN {"probeSent"} ELSE {})
      \cup (IF ~written /\ "inventory" \in cmds THEN {"inventoryErr"} ELSE {})

\* The channel a command waits for is nil without a session; a connect finds a
\* goroutine that is not busy.
Returned(r, handled, heard, busy) ==
    /\ m' = r.m
    /\ \E written \in BOOLEAN :
         /\ written => session # None /\ r.cmds \cap Sends # {}
         /\ flight' = [k \in Kinds |-> flight[k] - Count(k \in handled)
                                         + Count(k \in Started(r.cmds, written))]
    /\ waits' = [ch \in Channels |-> [s \in Sessions \cup {None} |->
                   waits[ch][s] - Count(<<ch, s>> \in heard)
                                + Count(s = session /\ ch \in r.cmds)]]
    /\ IF r.job = "free" THEN job' = busy
       ELSE \E c \in Callers : busy[c] = "free" /\ job' = [busy EXCEPT ![c] = r.job]

Message(kind, r) ==
    flight[kind] > 0 /\ Returned(r, {kind}, {}, job) /\ UNCHANGED <<vars, errs, keys>>

ScanFails == Message("scan", OnScanFailed(m))
ScanFinished == \E found \in ScanResults : Message("scan", OnScanFinished(m, found))
InventoryTick == flight["inventoryErr"] < MaxErrors /\ Message("tick", OnTick(m))
ProbeTimeout == Message("timer", OnProbeTimeout(m))
InventoryError == Message("inventoryErr", Return(NotReading(m), {}))
ProbeSent == Message("probeSent", Return([m EXCEPT !.awaitingProbe = TRUE], {}))

\* What a command that waits has received is handled.
Heard(ch, s, r) ==
    /\ waits[ch][s] > 0 /\ Returned(r, {}, {<<ch, s>>}, job)
    /\ UNCHANGED <<vars, keys>>

\* The packet completes a frame of the reader protocol, or does not.
Packet(s, frame) ==
    /\ loop[s] # "gone"
    /\ Heard("packets", s, Return([m EXCEPT !.awaitingProbe = @ /\ ~frame], {"packets"}))
    /\ UNCHANGED errs

ReaderErr(s) == s \in errs /\ errs' = errs \ {s} /\ Heard("errors", s, OnReaderErr(m))

ChannelClosed(ch, s) ==
    /\ s # None => loop[s] \in {"closed", "gone"}
    /\ ch = "errors" => s \notin errs
    /\ Heard(ch, s, Return(m, IF session = None THEN {} ELSE {ch})) /\ UNCHANGED errs

\* The message of a connect or disconnect takes the answer with it.
JobEnded(c, j, r) ==
    /\ job[c] = j /\ pc[c] = "idle"
    /\ Returned(r, {}, {}, [job EXCEPT ![c] = "free"])
    /\ Answer(c, "none") /\ again' = [again EXCEPT ![c] = FALSE]
    /\ UNCHANGED <<sessionVars, pc, held, errs, keys>>
Connected(c) == answer[c] = "ok" /\ JobEnded(c, "reconnecting", OnConnected(m))
ConnectFails(c) == answer[c] # "ok" /\ JobEnded(c, "reconnecting", OnConnectFailed(m))
Disconnected(c) ==
    JobEnded(c, "disconnecting",
             IF answer[c] = "close error" THEN Return(m, {}) ELSE OnDisconnected(m))

Key(r) == keys < MaxKeys /\ keys' = keys + 1 /\ Returned(r, {}, {}, job) /\ UNCHANGED <<vars, errs>>

KeyPressed ==
    \/ Key(RunQuickConnect(m)) \/ Key(Rescan(m))
    \/ ~m.scanning /\ Key(ManualScan(m))
    \/ \E i \in DOMAIN m.candidates : Key(BeginConnectPlan(m, i))
    \/ ((session = None \/ ~m.inventoryRunning) /\ Key(StartReading(m))) \/ Key(ProbeInfo(m))
    \/ session = None /\ Key(RequestConnectionForAction(m, Raw))
    \/ m.inventoryRunning /\ Key(Return(NotReading(m), {}))
    \/ session # None /\ Key(Spawn(m, "disconnect"))

-----------------------------------------------------------------------------
(***************************************************************************)
(* reconnectCmd, disconnectCmd and the read loop.                          *)
(***************************************************************************)
JobBegins(c) ==
    /\ \/ job[c] = "reconnect" /\ Disconnect(c, TRUE) /\ job' = [job EXCEPT ![c] = "reconnecting"]
       \/ job[c] = "disconnect" /\ Disconnect(c, FALSE) /\ job' = [job EXCEPT ![c] = "disconnecting"]
    /\ UNCHANGED <<m, flight, waits, errs, keys>>

\* A session comes with channels of its own.
JobDials(c, s) ==
    /\ Dialed(c, s) /\ \A ch \in Channels : waits[ch][s] = 0
    /\ errs' = errs \ {s}
    /\ UNCHANGED <<m, flight, waits, job, keys>>

JobStep(c) ==
    \/ /\ CheckSession(c) \/ DialFails(c) \/ Register(c) \/ CloseConn(c) \/ Waited(c)
       /\ UNCHANGED tuiVars
    \/ \E s \in Sessions : JobDials(c, s)

SessionStep(s) ==
    \/ /\ ReadFails(s) /\ errs' = errs \cup {s}
       /\ UNCHANGED <<m, flight, waits, job, keys>>
    \/ CloseChannels(s) /\ UNCHANGED tuiVars
    \/ /\ Unregister(s) /\ errs' = IF waits["errors"][s] = 0 THEN errs \ {s} ELSE errs
       /\ UNCHANGED <<m, flight, waits, job, keys>>

MessageStep ==
    \/ ScanFails \/ ScanFinished \/ InventoryTick \/ ProbeTimeout \/ InventoryError \/ ProbeSent
    \/ \E s \in Sessions : ReaderErr(s) \/ \E frame \in BOOLEAN : Packet(s, frame)
    \/ \E ch \in Channels, s \in Sessions \cup {None} : ChannelClosed(ch, s)

CallerStep(c) ==
    \/ Connected(c) \/ ConnectFails(c) \/ Disconnected(c) \/ JobBegins(c) \/ JobStep(c)

TuiNext ==
    \/ KeyPressed \/ MessageStep
    \/ \E c \in Callers : CallerStep(c)
    \/ \E s \in Sessions : SessionStep(s)

TuiSpec == TuiInit /\ [][TuiNext]_allVars

-----------------------------------------------------------------------------
(***************************************************************************)
(* Every goroutine that can go on does, a dial has a deadline, and Update  *)
(* handles a tick, a failed command and the end of a connect in the end.   *)
(* The user need not press a key, the reader need not send or fail, and no *)
(* fairness is asked of the scan, the timer and the packets.               *)
(***************************************************************************)
MustEnd(s) == (loop[s] = "reading" => conn[s] = "closed") /\ SessionStep(s)

TuiFairSpec ==
    /\ TuiSpec
    /\ WF_allVars(InventoryTick) /\ WF_allVars(InventoryError)
    /\ \A c \in Callers : WF_allVars(CallerStep(c))
    /\ \A s \in Sessions : WF_allVars(MustEnd(s))

-----------------------------------------------------------------------------
\* A scan is running exactly when the Model says so, and a connect that waits for
\* a scan has one to wait for.
ScanIsRunning ==
    /\ flight["scan"] = Count(m.scanning)
    /\ m.pendingConnect => m.scanning

\* Reading goes on: whatever message or key switched it on, a tick is coming.
ReadingTicks == m.inventoryRunning => flight["tick"] > 0

\* A plan has its next endpoint inside, and no endpoint twice.
PlanSound ==
    m.connectQueue # <<>> =>
      /\ m.connectAttempt < Len(m.connectQueue)
      /\ IsInjective(m.connectQueue)

\* The screen says that it connects only as long as a connect runs.
ConnectingRuns == m.connecting => \E c \in Callers : job[c] \in {"reconnect", "reconnecting"}

\* The packets of the session that is read are waited for, or a message is on its
\* way whose handler will.
SessionWatched ==
    \A s \in Sessions : session = s /\ loop[s] = "reading" =>
      \/ \E x \in Sessions \cup {None} :
           waits["packets"][x] > 0 /\ (x \in Sessions \ {s} => loop[x] # "reading")
      \/ \E c \in Callers : job[c] = "reconnecting" /\ pc[c] = "idle" /\ answer[c] = "ok"

\* A connect comes to its end: some endpoint of the plan answers or the plan runs
\* out, whatever stale timers and errors move it on.
ConnectEnds == m.connecting ~> ~m.connecting

\* Reading does not outlive the session: it stops, or there is a session again.
ReadingEnds == m.inventoryRunning /\ session = None ~> ~m.inventoryRunning \/ session # None
=============================================================================
