---------------------------- MODULE ReaderManager ----------------------------
(***************************************************************************)
(* The manager of the reader loop (internal/gobot/reader/manager.go).      *)
(* Goroutines of IPC, HTTP, Telegram and main call Start and Stop; each    *)
(* Start that finds no loop running spawns one, which connects, consumes   *)
(* tags, reconnects after errors and ends when its context is done.        *)
(*                                                                         *)
(* Every section of m.mu calls nothing and is one step.  A loop stands for *)
(* its goroutine, its context and its done channel; an ended loop is used  *)
(* again once nothing refers to it, as the collector does with channels.   *)
(*                                                                         *)
(* Left out: counters and texts of Status, tags (EPCService takes them     *)
(* over at HandleEPC), and the SDK client, which only succeeds or fails.   *)
(***************************************************************************)
CONSTANTS
    Callers,   \* goroutines that call Start and Stop
    Loops,     \* goroutines of scanLoop; their number bounds how many can be
               \* between finishStopped and close(done) at once
    None       \* nil

ASSUME NoneAssumption == None \notin Loops

VARIABLES
    running,     \* m.running, mirrored in m.status.Running
    cancel,      \* m.cancel: the loop it cancels, or nil
    done,        \* m.done: the loop that closes it, or nil
    connected,   \* m.status.Connected
    lpc,         \* per loop: what scanLoop does next
    ctxDone,     \* per loop: its context is done
    parent,      \* per loop: the context given to Start
    down,        \* the context of the process is done
    cpc,         \* per caller: where it is in Stop
    target,      \* per caller: the cancel function read by Stop
    awaited      \* per caller: the done channel read by Stop

fieldVars  == <<running, cancel, done, connected>>
loopVars   == <<lpc, ctxDone, parent, down>>
callerVars == <<cpc, target, awaited>>
vars == <<fieldVars, loopVars, callerVars>>

LoopPc == {"closed", "top", "connect", "consume", "retire", "retry", "sleep",
           "finishing", "closing"}
Parents == {"process", "request"}

TypeOK ==
    /\ running \in BOOLEAN /\ connected \in BOOLEAN /\ down \in BOOLEAN
    /\ cancel \in Loops \cup {None} /\ done \in Loops \cup {None}
    /\ lpc \in [Loops -> LoopPc] /\ ctxDone \in [Loops -> BOOLEAN]
    /\ parent \in [Loops -> Parents]
    /\ cpc \in [Callers -> {"idle", "cancelling", "waiting"}]
    /\ target \in [Callers -> Loops \cup {None}]
    /\ awaited \in [Callers -> Loops \cup {None}]

Init ==
    /\ running = FALSE /\ cancel = None /\ done = None /\ connected = FALSE
    /\ lpc = [l \in Loops |-> "closed"] /\ ctxDone = [l \in Loops |-> FALSE]
    /\ parent = [l \in Loops |-> "process"] /\ down = FALSE
    /\ cpc = [c \in Callers |-> "idle"]
    /\ target = [c \in Callers |-> None] /\ awaited = [c \in Callers |-> None]

-----------------------------------------------------------------------------
(***************************************************************************)
(* Start and Stop.                                                         *)
(***************************************************************************)
Free(l) ==
    /\ lpc[l] = "closed" /\ l \notin {cancel, done}
    /\ \A c \in Callers : l \notin {target[c], awaited[c]}

\* Start finds a loop: it answers nil and changes nothing.
StartIgnored(c) ==
    /\ cpc[c] = "idle" /\ running
    /\ UNCHANGED vars

\* Fault: a Start that does not look at m.running.
StartTwice(c, l, p) ==
    /\ cpc[c] = "idle" /\ Free(l)
    /\ running' = TRUE /\ cancel' = l /\ done' = l
    /\ lpc' = [lpc EXCEPT ![l] = "top"]
    /\ ctxDone' = [ctxDone EXCEPT ![l] = down /\ p = "process"]
    /\ parent' = [parent EXCEPT ![l] = p]
    /\ UNCHANGED <<connected, down, callerVars>>

\* Fault: a Start that keeps the cancel function to itself.
StartUncancellable(c, l, p) ==
    /\ cpc[c] = "idle" /\ ~running /\ Free(l)
    /\ running' = TRUE /\ done' = l
    /\ lpc' = [lpc EXCEPT ![l] = "top"]
    /\ ctxDone' = [ctxDone EXCEPT ![l] = down /\ p = "process"]
    /\ parent' = [parent EXCEPT ![l] = p]
    /\ UNCHANGED <<cancel, connected, down, callerVars>>

\* Start finds none: it spawns loop l under the context of parent p.
Start(c, l, p) ==
    /\ cpc[c] = "idle" /\ ~running /\ Free(l)
    /\ running' = TRUE /\ cancel' = l /\ done' = l
    /\ lpc' = [lpc EXCEPT ![l] = "top"]
    /\ ctxDone' = [ctxDone EXCEPT ![l] = down /\ p = "process"]
    /\ parent' = [parent EXCEPT ![l] = p]
    /\ UNCHANGED <<connected, down, callerVars>>

\* Fault: a Stop that leaves the cancelling to whoever called before.
StopWithoutCancel(c) ==
    /\ cpc[c] = "idle"
    /\ cpc' = [cpc EXCEPT ![c] = "waiting"]
    /\ awaited' = [awaited EXCEPT ![c] = done]
    /\ cancel' = None
    /\ UNCHANGED <<running, done, connected, loopVars, target>>

\* Stop, its section: take the cancel function and the done channel.
Stop(c) ==
    /\ cpc[c] = "idle"
    /\ cpc' = [cpc EXCEPT ![c] = "cancelling"]
    /\ target' = [target EXCEPT ![c] = cancel]
    /\ awaited' = [awaited EXCEPT ![c] = done]
    /\ cancel' = None
    /\ UNCHANGED <<running, done, connected, loopVars>>

\* Stop: "if cancel != nil { cancel() }".
Cancel(c) ==
    /\ cpc[c] = "cancelling"
    /\ cpc' = [cpc EXCEPT ![c] = "waiting"]
    /\ ctxDone' = [l \in Loops |-> ctxDone[l] \/ l = target[c]]
    /\ target' = [target EXCEPT ![c] = None]
    /\ UNCHANGED <<fieldVars, lpc, parent, down, awaited>>

\* Stop: "if done != nil { <-done }", and return.
Stopped(c) ==
    /\ cpc[c] = "waiting"
    /\ awaited[c] # None => lpc[awaited[c]] = "closed"
    /\ cpc' = [cpc EXCEPT ![c] = "idle"]
    /\ awaited' = [awaited EXCEPT ![c] = None]
    /\ UNCHANGED <<fieldVars, loopVars, target>>

StopStep(c) == Cancel(c) \/ Stopped(c)

-----------------------------------------------------------------------------
(***************************************************************************)
(* scanLoop.                                                               *)
(***************************************************************************)
LGoto(l, from, to) == lpc[l] = from /\ lpc' = [lpc EXCEPT ![l] = to]

\* Fault: a loop that never looks at its context between two attempts.
TopBlind(l) ==
    /\ LGoto(l, "top", "connect")
    /\ UNCHANGED <<fieldVars, ctxDone, parent, down, callerVars>>

\* The select at the head of the loop.
Top(l) ==
    /\ LGoto(l, "top", IF ctxDone[l] THEN "finishing" ELSE "connect")
    /\ UNCHANGED <<fieldVars, ctxDone, parent, down, callerVars>>

\* connectAndStart; a context done meanwhile is one of its errors.
ConnectFails(l) ==
    /\ LGoto(l, "connect", "sleep")
    /\ UNCHANGED <<fieldVars, ctxDone, parent, down, callerVars>>

ConnectSucceeds(l) ==
    /\ LGoto(l, "connect", "consume")
    /\ connected' = TRUE
    /\ UNCHANGED <<running, cancel, done, ctxDone, parent, down, callerVars>>

\* consumeTags returns: false when the context is done, true after an error
\* or a closed channel; the select may prefer either.
ConsumeEnds(l) ==
    /\ \/ LGoto(l, "consume", "retry")
       \/ ctxDone[l] /\ LGoto(l, "consume", "retire")
    /\ UNCHANGED <<fieldVars, ctxDone, parent, down, callerVars>>

\* StopInventory, Close and the section that follows them.
Disconnect(l) ==
    /\ \/ LGoto(l, "retry", "sleep")
       \/ LGoto(l, "retire", "finishing")
    /\ connected' = FALSE
    /\ UNCHANGED <<running, cancel, done, ctxDone, parent, down, callerVars>>

\* sleepWithContext: the timer or the context.
Sleep(l) ==
    /\ \/ LGoto(l, "sleep", "top")
       \/ ctxDone[l] /\ LGoto(l, "sleep", "finishing")
    /\ UNCHANGED <<fieldVars, ctxDone, parent, down, callerVars>>

\* Fault: a loop that leaves m.done behind.
FinishHalf(l) ==
    /\ LGoto(l, "finishing", "closing")
    /\ running' = FALSE /\ cancel' = None /\ connected' = FALSE
    /\ UNCHANGED <<done, ctxDone, parent, down, callerVars>>

\* The deferred finishStopped ...
FinishStopped(l) ==
    /\ LGoto(l, "finishing", "closing")
    /\ running' = FALSE /\ cancel' = None /\ done' = None /\ connected' = FALSE
    /\ UNCHANGED <<ctxDone, parent, down, callerVars>>

\* ... and the deferred close(done), which runs after it.
CloseDone(l) ==
    /\ LGoto(l, "closing", "closed")
    /\ UNCHANGED <<fieldVars, ctxDone, parent, down, callerVars>>

LoopStep(l) ==
    \/ Top(l) \/ ConnectFails(l) \/ ConnectSucceeds(l) \/ ConsumeEnds(l)
    \/ Disconnect(l) \/ Sleep(l) \/ FinishStopped(l) \/ CloseDone(l)

-----------------------------------------------------------------------------
(***************************************************************************)
(* Contexts that end by themselves.                                        *)
(***************************************************************************)
\* net/http cancels the context of a request when its handler returns.
RequestEnds(l) ==
    /\ lpc[l] # "closed" /\ parent[l] = "request"
    /\ ctxDone' = [ctxDone EXCEPT ![l] = TRUE]
    /\ UNCHANGED <<fieldVars, lpc, parent, down, callerVars>>

\* A signal ends the context of the process, and those derived from it.
Shutdown ==
    /\ ~down /\ down' = TRUE
    /\ ctxDone' = [l \in Loops |-> ctxDone[l] \/ parent[l] = "process"]
    /\ UNCHANGED <<fieldVars, lpc, parent, callerVars>>

Next ==
    \/ \E c \in Callers :
         \/ StartIgnored(c) \/ Stop(c) \/ StopStep(c)
         \/ \E l \in Loops, p \in Parents : Start(c, l, p)
    \/ \E l \in Loops : LoopStep(l) \/ RequestEnds(l)
    \/ Shutdown

Spec == Init /\ [][Next]_vars

\* Go schedules every goroutine that can go on.  Discover, Reconnect, the SDK's
\* Stop and the timers end by themselves; consumeTags must only return once its
\* context is done: tags may come for ever.
MustStep(l) == (lpc[l] = "consume" => ctxDone[l]) /\ LoopStep(l)

-----------------------------------------------------------------------------
Active(l) == lpc[l] \notin {"closed", "closing"}

\* The reader has one TCP session to give: two loops would steal it from each
\* other.  running falls only in finishStopped, after the loop has let go.
AtMostOneLoop == \A k, l \in Loops : Active(k) /\ Active(l) => k = l

\* The fields of the manager tell the truth about the loop, whoever called
\* Start and Stop meanwhile (finishStopped clears fields a later Start sets).
FieldsExact ==
    /\ \A l \in Loops : Active(l) <=> done = l
    /\ running <=> done # None
    /\ cancel \in {None, done}
    /\ connected => running

Cancelling(l) == \E c \in Callers : cpc[c] = "cancelling" /\ target[c] = l

\* A loop in service can be stopped: m.cancel still reaches it, or a Stop is
\* about to call it (Stop clears m.cancel before it calls the function).
Stoppable == \A l \in Loops : Active(l) => ctxDone[l] \/ cancel = l \/ Cancelling(l)

\* No Stop waits for a loop nobody has cancelled or is about to cancel, not
\* even the second of two concurrent Stops, which finds m.cancel nil.
WaitersServed ==
    \A c \in Callers :
      cpc[c] = "waiting" /\ awaited[c] # None =>
        \/ ctxDone[awaited[c]] \/ Cancelling(awaited[c])
        \/ ~Active(awaited[c])

\* A Stop returns, however often the reader fails and Start is called.
StopReturns == \A c \in Callers : cpc[c] # "idle" ~> cpc[c] = "idle"
=============================================================================
