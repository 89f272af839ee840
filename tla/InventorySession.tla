--------------------------- MODULE InventorySession ---------------------------
(***************************************************************************)
(* The inventory of the SDK client (sdk/client.go): StartInventory spawns  *)
(* a run that consumes packets, the run spawns a loop that transmits       *)
(* inventory commands, and StopInventory cancels the run and waits for it. *)
(* All of them read and write the same three fields of the client under    *)
(* c.mu; a run does not know whether the fields are still its own.         *)
(*                                                                         *)
(* The transport is a link of its own that comes and goes: ReaderTransport *)
(* models how.  Left out: tags, frames, antenna and target rotation, and   *)
(* the events, which are dropped when nobody reads them.                   *)
(***************************************************************************)
EXTENDS Naturals

CONSTANTS
    Callers,  \* goroutines of the application that uses the client
    Runs,     \* inventory runs: context, done channel, goroutines; bounds the
              \* number of starts
    Links,    \* TCP sessions of the transport; bounds the number of connects
    None      \* nil

ASSUME NoneAssumption == None \notin Runs \cup Links

VARIABLES
    inventoryOn,    \* c.inventoryOn
    inventoryDone,  \* c.inventoryDone: the run whose done channel it is, or nil
    cancelInv,      \* c.cancelInv: the run it cancels, or nil
    ctxDone,        \* per run: its context is done
    closings,       \* per run: how often its done channel was closed
    rpc, reads,     \* per run: where inventoryRun is, and the link it reads
    finishes,       \* per run: the done channel its deferred function took
    tpc,            \* per run: where inventoryTxLoop is
    cancels,        \* per run: the cancel function stopInventoryAsync took
    link,           \* the session of the transport, or None
    broken,         \* its read loop has failed and is about to take it away
    used,           \* the links that have been connected
    cpc,            \* per caller: the next step of its call
    at,             \* per caller: the run it starts, or whose done it awaits
    target,         \* per caller: the cancel function StopInventory took
    owed            \* history: the run the application may count on

fieldVars  == <<inventoryOn, inventoryDone, cancelInv>>
runVars    == <<rpc, reads, finishes>>
txVars     == <<tpc, cancels>>
linkVars   == <<link, broken, used>>
callerVars == <<cpc, at, target>>
vars == <<fieldVars, ctxDone, closings, runVars, txVars, linkVars, callerVars, owed>>

TypeOK ==
    /\ inventoryOn \in BOOLEAN
    /\ {inventoryDone, cancelInv, owed} \subseteq Runs \cup {None}
    /\ ctxDone \in [Runs -> BOOLEAN] /\ closings \in [Runs -> 0..2]
    /\ rpc \in [Runs -> {"unused", "apply", "begin", "consume", "finish", "close", "over"}]
    /\ tpc \in [Runs -> {"unused", "next", "send", "async", "cancel", "wait", "over"}]
    /\ reads \in [Runs -> Links \cup {None}]
    /\ {finishes, cancels} \subseteq [Runs -> Runs \cup {None}]
    /\ link \in Links \cup {None} /\ broken \in BOOLEAN /\ used \subseteq Links
    /\ cpc \in [Callers -> {"idle", "lock", "apply", "cancel", "wait"}]
    /\ {at, target} \subseteq [Callers -> Runs \cup {None}]

Init ==
    /\ inventoryOn = FALSE /\ inventoryDone = None /\ cancelInv = None
    /\ ctxDone = [r \in Runs |-> FALSE] /\ closings = [r \in Runs |-> 0]
    /\ rpc = [r \in Runs |-> "unused"] /\ reads = [r \in Runs |-> None]
    /\ finishes = [r \in Runs |-> None]
    /\ tpc = [r \in Runs |-> "unused"] /\ cancels = [r \in Runs |-> None]
    /\ link = None /\ broken = FALSE /\ used = {}
    /\ cpc = [c \in Callers |-> "idle"] /\ at = [c \in Callers |-> None]
    /\ target = [c \in Callers |-> None] /\ owed = None

Closing(r) == closings' = [closings EXCEPT ![r] = @ + 1]
Renounce(r) == owed' = IF owed = r THEN None ELSE owed
Cancelling(r) == ctxDone' = [k \in Runs |-> ctxDone[k] \/ k = r]

-----------------------------------------------------------------------------
(***************************************************************************)
(* The transport.                                                          *)
(***************************************************************************)
LinkUp(c) ==
    /\ cpc[c] = "idle" /\ link = None
    /\ \E k \in Links \ used : link' = k /\ used' = used \cup {k}
    /\ UNCHANGED <<fieldVars, ctxDone, closings, runVars, txVars, broken, callerVars, owed>>

\* The peer fails, or the application disconnects: the read loop reports the
\* error and closes its channels.  Nobody counts on a run now.
LinkFails ==
    /\ link # None /\ ~broken /\ broken' = TRUE /\ owed' = None
    /\ UNCHANGED <<fieldVars, ctxDone, closings, runVars, txVars, link, used, callerVars>>

\* It takes the session out of the transport.
LinkDown ==
    /\ broken /\ broken' = FALSE /\ link' = None
    /\ UNCHANGED <<fieldVars, ctxDone, closings, runVars, txVars, used, callerVars, owed>>

-----------------------------------------------------------------------------
(***************************************************************************)
(* StartInventory and StopInventory.                                       *)
(***************************************************************************)
\* StartInventory sees a connection; it may be gone when c.mu is taken.
IsConnected(c) ==
    /\ cpc[c] = "idle" /\ link # None
    /\ cpc' = [cpc EXCEPT ![c] = "lock"]
    /\ UNCHANGED <<fieldVars, ctxDone, closings, runVars, txVars, linkVars, at, target, owed>>

\* "inventory already running".
AlreadyRunning(c) ==
    /\ cpc[c] = "lock" /\ inventoryOn
    /\ cpc' = [cpc EXCEPT ![c] = "idle"]
    /\ UNCHANGED <<fieldVars, ctxDone, closings, runVars, txVars, linkVars, at, target, owed>>

\* Fault: a start that publishes the run without its cancel function.
StartInventoryUncancellable(c, r) ==
    /\ cpc[c] = "lock" /\ ~inventoryOn /\ rpc[r] = "unused"
    /\ inventoryOn' = TRUE /\ inventoryDone' = r
    /\ rpc' = [rpc EXCEPT ![r] = "apply"]
    /\ cpc' = [cpc EXCEPT ![c] = "apply"] /\ at' = [at EXCEPT ![c] = r]
    /\ owed' = IF broken \/ link = None THEN None ELSE r
    /\ UNCHANGED <<cancelInv, ctxDone, closings, reads, finishes, txVars, linkVars, target>>

StartInventory(c, r) ==
    /\ cpc[c] = "lock" /\ ~inventoryOn /\ rpc[r] = "unused"
    /\ inventoryOn' = TRUE /\ inventoryDone' = r /\ cancelInv' = r
    /\ rpc' = [rpc EXCEPT ![r] = "apply"]
    /\ cpc' = [cpc EXCEPT ![c] = "apply"] /\ at' = [at EXCEPT ![c] = r]
    /\ owed' = IF broken \/ link = None THEN None ELSE r
    /\ UNCHANGED <<ctxDone, closings, reads, finishes, txVars, linkVars, target>>

\* The application ends the context that it gave to StartInventory.
ContextEnds(r) ==
    /\ rpc[r] \notin {"unused", "over"} /\ ~ctxDone[r]
    /\ Cancelling(r) /\ Renounce(r)
    /\ UNCHANGED <<fieldVars, closings, runVars, txVars, linkVars, callerVars>>

\* ApplyInventoryConfig has sent its commands: the run is spawned.
Applied(c) ==
    /\ cpc[c] = "apply" /\ link # None
    /\ rpc' = [rpc EXCEPT ![at[c]] = "begin"]
    /\ cpc' = [cpc EXCEPT ![c] = "idle"] /\ at' = [at EXCEPT ![c] = None]
    /\ UNCHANGED <<fieldVars, ctxDone, closings, reads, finishes, txVars, linkVars,
                   target, owed>>

\* Fault: a start that has spawned the run before it configures the reader.
ApplyFailsSpawned(c) ==
    /\ cpc[c] = "apply"
    /\ Cancelling(cancelInv) /\ cancelInv' = None /\ inventoryOn' = FALSE
    /\ Closing(at[c])
    /\ rpc' = [rpc EXCEPT ![at[c]] = "begin"]
    /\ cpc' = [cpc EXCEPT ![c] = "idle"] /\ at' = [at EXCEPT ![c] = None]
    /\ Renounce(at[c])
    /\ UNCHANGED <<inventoryDone, reads, finishes, txVars, linkVars, target>>

\* ApplyInventoryConfig fails: a command is not written, or the context is done.
ApplyFails(c) ==
    /\ cpc[c] = "apply"
    /\ Cancelling(cancelInv) /\ cancelInv' = None /\ inventoryOn' = FALSE
    /\ Closing(at[c])
    /\ rpc' = [rpc EXCEPT ![at[c]] = "over"]
    /\ cpc' = [cpc EXCEPT ![c] = "idle"] /\ at' = [at EXCEPT ![c] = None]
    /\ Renounce(at[c])
    /\ UNCHANGED <<inventoryDone, reads, finishes, txVars, linkVars, target>>

\* Fault: a stop that clears the cancel function before it reads it.
StopInventoryLate(c) ==
    /\ cpc[c] = "idle" /\ inventoryOn
    /\ target' = [target EXCEPT ![c] = None]
    /\ at' = [at EXCEPT ![c] = inventoryDone]
    /\ cancelInv' = None /\ inventoryOn' = FALSE /\ owed' = None
    /\ cpc' = [cpc EXCEPT ![c] = "cancel"]
    /\ UNCHANGED <<inventoryDone, ctxDone, closings, runVars, txVars, linkVars>>

StopInventory(c) ==
    /\ cpc[c] = "idle" /\ inventoryOn
    /\ target' = [target EXCEPT ![c] = cancelInv]
    /\ at' = [at EXCEPT ![c] = inventoryDone]
    /\ cancelInv' = None /\ inventoryOn' = FALSE /\ owed' = None
    /\ cpc' = [cpc EXCEPT ![c] = "cancel"]
    /\ UNCHANGED <<inventoryDone, ctxDone, closings, runVars, txVars, linkVars>>

StopCancels(c) ==
    /\ cpc[c] = "cancel"
    /\ Cancelling(target[c]) /\ target' = [target EXCEPT ![c] = None]
    /\ cpc' = [cpc EXCEPT ![c] = "wait"]
    /\ UNCHANGED <<fieldVars, closings, runVars, txVars, linkVars, at, owed>>

StopReturns(c) ==
    /\ cpc[c] = "wait"
    /\ at[c] # None => closings[at[c]] > 0
    /\ cpc' = [cpc EXCEPT ![c] = "idle"] /\ at' = [at EXCEPT ![c] = None]
    /\ UNCHANGED <<fieldVars, ctxDone, closings, runVars, txVars, linkVars, target, owed>>

-----------------------------------------------------------------------------
(***************************************************************************)
(* inventoryRun.                                                           *)
(***************************************************************************)
\* It takes the channels of the session there is, and spawns the transmitter.
RunBegins(r) ==
    /\ rpc[r] = "begin"
    /\ IF link = None
       THEN rpc' = [rpc EXCEPT ![r] = "finish"] /\ UNCHANGED <<reads, tpc>>
       ELSE /\ rpc' = [rpc EXCEPT ![r] = "consume"]
            /\ reads' = [reads EXCEPT ![r] = link]
            /\ tpc' = [tpc EXCEPT ![r] = "next"]
    /\ UNCHANGED <<fieldVars, ctxDone, closings, finishes, cancels, linkVars,
                   callerVars, owed>>

\* Its context is done, or the channels of its session are closed.
RunEnds(r) ==
    /\ rpc[r] = "consume" /\ (ctxDone[r] \/ broken \/ link # reads[r])
    /\ rpc' = [rpc EXCEPT ![r] = "finish"]
    /\ UNCHANGED <<fieldVars, ctxDone, closings, reads, finishes, txVars, linkVars,
                   callerVars, owed>>

\* finishInventoryRun, its section: it takes whatever done channel is there.
Finish(r) ==
    /\ rpc[r] = "finish"
    /\ rpc' = [rpc EXCEPT ![r] = "close"]
    /\ finishes' = [finishes EXCEPT ![r] = inventoryDone]
    /\ inventoryDone' = None /\ cancelInv' = None /\ inventoryOn' = FALSE
    /\ UNCHANGED <<ctxDone, closings, reads, txVars, linkVars, callerVars, owed>>

\* Fault: a run that ends without closing its channel.
FinishSilent(r) ==
    /\ rpc[r] = "close"
    /\ rpc' = [rpc EXCEPT ![r] = "over"]
    /\ UNCHANGED <<fieldVars, ctxDone, closings, reads, finishes, txVars, linkVars,
                   callerVars, owed>>

\* finishInventoryRun: close(done).
FinishCloses(r) ==
    /\ rpc[r] = "close"
    /\ rpc' = [rpc EXCEPT ![r] = "over"]
    /\ IF finishes[r] = None THEN UNCHANGED closings ELSE Closing(finishes[r])
    /\ UNCHANGED <<fieldVars, ctxDone, reads, finishes, txVars, linkVars, callerVars, owed>>

-----------------------------------------------------------------------------
(***************************************************************************)
(* inventoryTxLoop.                                                        *)
(***************************************************************************)
TGoto(r, from, to) == tpc[r] = from /\ tpc' = [tpc EXCEPT ![r] = to]

\* Fault: a transmitter that does not look whether the inventory is on.
TxNextBlind(r) ==
    /\ TGoto(r, "next", "send")
    /\ UNCHANGED <<fieldVars, ctxDone, closings, runVars, cancels, linkVars, callerVars, owed>>

\* nextInventoryCommand.
TxNext(r) ==
    /\ TGoto(r, "next", IF inventoryOn THEN "send" ELSE "over")
    /\ UNCHANGED <<fieldVars, ctxDone, closings, runVars, cancels, linkVars, callerVars, owed>>

\* SendRaw takes the session there is, of whatever run, and writes to it.
TxSent(r) ==
    /\ TGoto(r, "send", "wait") /\ link # None
    /\ UNCHANGED <<fieldVars, ctxDone, closings, runVars, cancels, linkVars,
                   callerVars, owed>>

\* SendRaw fails: no session, a closed one, or the write deadline.
TxFails(r) ==
    /\ TGoto(r, "send", "async") /\ Renounce(r)
    /\ UNCHANGED <<fieldVars, ctxDone, closings, runVars, cancels, linkVars, callerVars>>

\* stopInventoryAsync, its section: it takes whatever cancel function is there.
TxStops(r) ==
    /\ TGoto(r, "async", "cancel")
    /\ cancels' = [cancels EXCEPT ![r] = cancelInv]
    /\ cancelInv' = None /\ inventoryOn' = FALSE
    /\ UNCHANGED <<inventoryDone, ctxDone, closings, runVars, linkVars, callerVars, owed>>

TxCancels(r) ==
    /\ TGoto(r, "cancel", "over") /\ Cancelling(cancels[r])
    /\ UNCHANGED <<fieldVars, closings, runVars, cancels, linkVars, callerVars, owed>>

\* The interval passes, or the context is done.
TxWaits(r) ==
    /\ TGoto(r, "wait", "next") \/ (ctxDone[r] /\ TGoto(r, "wait", "over"))
    /\ UNCHANGED <<fieldVars, ctxDone, closings, runVars, cancels, linkVars,
                   callerVars, owed>>

CallStep(c) ==
    AlreadyRunning(c) \/ Applied(c) \/ ApplyFails(c) \/ StopCancels(c) \/ StopReturns(c)
RunStep(r) == RunBegins(r) \/ RunEnds(r) \/ Finish(r) \/ FinishCloses(r)
TxStep(r) ==
    TxNext(r) \/ TxSent(r) \/ TxFails(r) \/ TxStops(r) \/ TxCancels(r) \/ TxWaits(r)

\* A done channel closed twice panics: nothing happens after that.
Panicked == \E r \in Runs : closings[r] > 1

Next ==
    /\ ~Panicked
    /\ \/ \E c \in Callers :
            \/ LinkUp(c) \/ IsConnected(c) \/ StopInventory(c) \/ CallStep(c)
            \/ \E r \in Runs : StartInventory(c, r)
       \/ \E r \in Runs : RunStep(r) \/ TxStep(r) \/ ContextEnds(r)
       \/ LinkFails \/ LinkDown

Spec == Init /\ [][Next]_vars

\* Every goroutine that can go on does; writes end by their deadline.
FairSpec ==
    /\ Spec
    /\ \A c \in Callers : WF_vars(~Panicked /\ CallStep(c))
    /\ \A r \in Runs : WF_vars(~Panicked /\ RunStep(r)) /\ WF_vars(~Panicked /\ TxStep(r))

-----------------------------------------------------------------------------
\* From StartInventory until the application stops it or ends its context, or the
\* session it runs on or a command it sends fails, an inventory is on and can be stopped: no
\* goroutine of an earlier run takes its fields or cancels it.
OwedRunIsOn ==
    owed # None =>
      /\ inventoryOn /\ inventoryDone = owed /\ cancelInv = owed /\ ~ctxDone[owed]

\* A done channel is closed once.
ClosedOnce == ~Panicked

\* An inventory that is off has no goroutine left that nobody has told to end.
OffIsCancelled ==
    ~inventoryOn => \A r \in Runs : rpc[r] = "consume" =>
      \/ ctxDone[r] \/ broken \/ link # reads[r]
      \/ \E c \in Callers : cpc[c] = "cancel" /\ target[c] = r
      \/ \E k \in Runs : tpc[k] = "cancel" /\ cancels[k] = r

\* StopInventory returns, unless the process dies, for an application of one
\* goroutine that starts again after a stop or a failure, while the goroutines of
\* its inventory before are still on their way to their ends.
StopsReturn == \A c \in Callers : cpc[c] = "cancel" ~> cpc[c] = "idle" \/ Panicked

\* A cancelled inventory leaves no goroutine behind: neither the run, nor the
\* transmitter, which looks at the context only while it waits and may find the
\* end of its interval every time.
GoroutinesEnd ==
    \A r \in Runs :
      ctxDone[r] ~> (rpc[r] = "over" /\ tpc[r] \in {"unused", "over"}) \/ Panicked
=============================================================================
