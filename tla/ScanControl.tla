----------------------------- MODULE ScanControl -----------------------------
(***************************************************************************)
(* Who starts and stops scanning: the handlers of the IPC server, the HTTP *)
(* server and the Telegram bot, and the auto scan of main, over one reader *)
(* manager and one scanActive flag of the service.                         *)
(*                                                                         *)
(* A handler is several calls: scan start is RefreshCache, then            *)
(* SetScanActive(true), then Start; scan stop is Stop, then                *)
(* SetScanActive(false).  Handlers of different surfaces interleave        *)
(* between the calls, and in ReaderManager's steps within them.            *)
(*                                                                         *)
(* Left out: what the replies say and the other requests; what             *)
(* SetScanActive and RefreshCache do to the matcher is in EPCService.      *)
(***************************************************************************)
EXTENDS ReaderManager

CONSTANTS
    Http, Ipc, Telegram, Main,  \* the callers, by surface
    HasReader,                  \* the backend is sdk or hybrid, not ingest
    ScanDefaultActive           \* cfg.ScanDefaultActive

ASSUME SurfaceAssumption ==
    /\ Callers = Http \cup Ipc \cup Telegram \cup Main
    /\ \A c \in Callers : c \in Http => c \notin Ipc \cup Telegram \cup Main
    /\ HasReader \in BOOLEAN /\ ScanDefaultActive \in BOOLEAN

VARIABLES
    scanActive,  \* s.scanActive of the service
    hpc,         \* per caller: the next call of its handler
    quiet,       \* history, per caller: no start ran beside its scan stop
    unread       \* history: the code has left the scan without a reader, and
                 \* started none since; see ActiveScanReads

controlVars == <<vars, scanActive, hpc, quiet, unread>>

Starting == {"refresh", "activate", "start", "autostart", "autoactive"}
HandlerPc == Starting \cup {"idle", "stop", "deactivate"}

ControlTypeOK ==
    /\ TypeOK
    /\ scanActive \in BOOLEAN
    /\ hpc \in [Callers -> HandlerPc]
    /\ quiet \in [Callers -> BOOLEAN] /\ unread \in BOOLEAN

\* main switches scanning on before any surface is up, without a reader, and
\* starts the auto scan when Telegram is already polling.
ControlInit ==
    /\ Init
    /\ scanActive = ScanDefaultActive
    /\ hpc = [c \in Callers |-> IF c \in Main THEN "autostart" ELSE "idle"]
    /\ quiet = [c \in Callers |-> FALSE]
    /\ unread = ScanDefaultActive

HGoto(c, from, to) == hpc[c] = from /\ hpc' = [hpc EXCEPT ![c] = to]

\* The context a surface passes to Start: HTTP its request's, the others the
\* process's.
ContextOf(c) == IF c \in Http THEN "request" ELSE "process"

StartReader(c) ==
    \/ StartIgnored(c) /\ UNCHANGED unread
    \/ (\E l \in Loops : Start(c, l, ContextOf(c))) /\ unread' = FALSE

Reading(l) == Active(l) /\ ~ctxDone[l]

-----------------------------------------------------------------------------
(***************************************************************************)
(* Scan start.                                                             *)
(***************************************************************************)
\* A request to scan arrives; any scan stop under way has company now.
BeginStart(c) ==
    /\ c \notin Main
    /\ HGoto(c, "idle", "refresh")
    /\ quiet' = [d \in Callers |-> FALSE]
    /\ UNCHANGED <<vars, scanActive, unread>>

\* RefreshCache answers; IPC and HTTP give up on an error, Telegram warns.
Refreshed(c) ==
    /\ \/ HGoto(c, "refresh", "activate")
       \/ c \notin Telegram /\ HGoto(c, "refresh", "idle")
    /\ UNCHANGED <<vars, scanActive, quiet, unread>>

\* SetScanActive(true); IPC and Telegram then look for a nil scanner.  HTTP was
\* given a *reader.Manager, so its Scanner is never the nil interface.
Activate(c) ==
    /\ HGoto(c, "activate", IF HasReader \/ c \in Http THEN "start" ELSE "idle")
    /\ scanActive' = TRUE
    /\ UNCHANGED <<vars, quiet, unread>>

\* Start of the manager.  With a nil manager it panics, which net/http
\* recovers.
StartScanner(c) ==
    /\ HGoto(c, "start", "idle")
    /\ IF HasReader THEN StartReader(c) ELSE UNCHANGED <<vars, unread>>
    /\ UNCHANGED <<scanActive, quiet>>

\* main: the reader first, then SetScanActive(true).
AutoStart(c) ==
    /\ HGoto(c, "autostart", IF HasReader THEN "autoactive" ELSE "idle")
    /\ IF HasReader THEN StartReader(c) ELSE UNCHANGED <<vars, unread>>
    /\ UNCHANGED <<scanActive, quiet>>

\* A /stop of Telegram may have ended the reader by now.
AutoActivate(c) ==
    /\ HGoto(c, "autoactive", "idle")
    /\ scanActive' = TRUE
    /\ unread' = (unread \/ ~\E l \in Loops : Reading(l))
    /\ UNCHANGED <<vars, quiet>>

-----------------------------------------------------------------------------
(***************************************************************************)
(* Scan stop.                                                              *)
(***************************************************************************)
\* A request to stop arrives: into Stop of the manager; a nil scanner is
\* skipped, a nil manager ends the handler of HTTP.
BeginStop(c) ==
    /\ c \notin Main
    /\ quiet' = [quiet EXCEPT ![c] = \A d \in Callers : hpc[d] \notin Starting]
    /\ IF HasReader
       THEN HGoto(c, "idle", "stop") /\ Stop(c)
       ELSE HGoto(c, "idle", IF c \in Http THEN "idle" ELSE "deactivate") /\ UNCHANGED vars
    /\ UNCHANGED <<scanActive, unread>>

\* Fault: a handler that does not wait for Stop.
StoppingEarly(c) ==
    /\ Cancel(c) /\ HGoto(c, "stop", "deactivate")
    /\ UNCHANGED <<scanActive, quiet, unread>>

\* Stop goes on, and returns.
Stopping(c) ==
    /\ \/ Cancel(c) /\ UNCHANGED hpc
       \/ Stopped(c) /\ HGoto(c, "stop", "deactivate")
    /\ UNCHANGED <<scanActive, quiet, unread>>

\* SetScanActive(false).
Deactivate(c) ==
    /\ HGoto(c, "deactivate", "idle")
    /\ scanActive' = FALSE
    /\ UNCHANGED <<vars, quiet, unread>>

HandlerStep(c) ==
    \/ BeginStart(c) \/ Refreshed(c) \/ Activate(c) \/ StartScanner(c)
    \/ AutoStart(c) \/ AutoActivate(c)
    \/ BeginStop(c) \/ Stopping(c) \/ Deactivate(c)

\* The end of a request takes a reader with it that was started by HTTP.
ReaderStep ==
    /\ \/ (\E l \in Loops : LoopStep(l)) /\ UNCHANGED unread
       \/ \E l \in Loops : RequestEnds(l) /\ unread' = (unread \/ Reading(l))
       \/ Shutdown /\ UNCHANGED unread
    /\ UNCHANGED <<scanActive, hpc, quiet>>

ControlNext == (\E c \in Callers : HandlerStep(c)) \/ ReaderStep

ControlSpec == ControlInit /\ [][ControlNext]_controlVars

\* The goroutines of handlers inside Stop and of the loops go on when they can,
\* as in ReaderManager.
ControlFairSpec ==
    /\ ControlSpec
    /\ \A c \in Callers : WF_controlVars(Stopping(c))
    /\ \A l \in Loops :
         WF_controlVars(MustStep(l) /\ UNCHANGED <<scanActive, hpc, quiet, unread>>)

-----------------------------------------------------------------------------
AtRest == \A c \in Callers : hpc[c] = "idle"

\* A scan stop that no scan start ran beside leaves nothing running: when it
\* answers, the flag is off and the loop is out of m, however many other stops,
\* failures of the reader and reconnects there were.
QuietStop ==
    [][\A c \in Callers :
         hpc[c] = "deactivate" /\ hpc'[c] = "idle" /\ quiet[c] /\ HasReader =>
           ~scanActive' /\ ~running']_controlVars

\* Between requests an active scan has a loop that reads for it, on every
\* surface and in every configuration, however starts and stops crossed: the
\* flag is written before Start and after Stop, never between.  There are three
\* exceptions, each until a reader is started again (unread): main has switched
\* scanning on by default and nobody has asked for a scan (main.go:75); the
\* reader was given the context of an HTTP request, which has ended; a stop fell
\* between the two calls of main's auto scan.
ActiveScanReads ==
    AtRest /\ scanActive /\ HasReader /\ ~down /\ ~unread => \E l \in Loops : Reading(l)
=============================================================================
