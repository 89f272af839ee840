--------------------------- MODULE ReaderTransport ---------------------------
(***************************************************************************)
(* The TCP session of a reader (internal/reader/client.go), which the SDK  *)
(* and the TUI share: goroutines connect, disconnect and reconnect; each   *)
(* session has a goroutine that reads its connection until it fails and    *)
(* then takes the session out of the client.                               *)
(*                                                                         *)
(* Left out: the bytes, the packets a full channel drops, and SendRaw,     *)
(* which changes none of this state.  A session that is gone is used again *)
(* once no caller holds it.                                                *)
(***************************************************************************)
CONSTANTS
    Callers,    \* goroutines that use the client
    Sessions,   \* values of *session
    None,       \* nil
    SlowLoop    \* a read loop may need the 1.2 s Disconnect waits for it

ASSUME NoneAssumption == None \notin Sessions
ASSUME SlowLoopAssumption == SlowLoop \in BOOLEAN

VARIABLES
    session,   \* c.session
    conn,      \* per session: its connection is open, or closed at this end
    loop,      \* per session: where its readLoop is
    pc,        \* per caller: the next step of its call
    held,      \* per caller: the session its call works on
    again,     \* per caller: the call is a Reconnect, which connects next
    answer     \* per caller: how its last call ended

sessionVars == <<session, conn, loop>>
callerVars == <<pc, held, again, answer>>
vars == <<sessionVars, callerVars>>

LoopPc == {"gone", "reading", "failed", "closed"}
CallerPc == {"idle", "check", "dial", "register", "close", "wait"}

TypeOK ==
    /\ session \in Sessions \cup {None}
    /\ conn \in [Sessions -> {"open", "closed"}]
    /\ loop \in [Sessions -> LoopPc]
    /\ pc \in [Callers -> CallerPc]
    /\ held \in [Callers -> Sessions \cup {None}]
    /\ again \in [Callers -> BOOLEAN]
    /\ answer \in [Callers -> {"none", "ok", "dial error", "already connected", "close error"}]

Init ==
    /\ session = None
    /\ conn = [s \in Sessions |-> "closed"] /\ loop = [s \in Sessions |-> "gone"]
    /\ pc = [c \in Callers |-> "idle"] /\ held = [c \in Callers |-> None]
    /\ again = [c \in Callers |-> FALSE] /\ answer = [c \in Callers |-> "none"]

Goto(c, from, to) == pc[c] = from /\ pc' = [pc EXCEPT ![c] = to]
Answer(c, a) == answer' = [answer EXCEPT ![c] = a]

-----------------------------------------------------------------------------
(***************************************************************************)
(* Connect.                                                                *)
(***************************************************************************)
Connect(c) ==
    /\ Goto(c, "idle", "check") /\ Answer(c, "none")
    /\ again' = [again EXCEPT ![c] = FALSE]
    /\ UNCHANGED <<sessionVars, held>>

\* The first look at c.session, before the dialling.
CheckSession(c) ==
    /\ IF session = None THEN Goto(c, "check", "dial") /\ UNCHANGED answer
       ELSE Goto(c, "check", "idle") /\ Answer(c, "already connected")
    /\ UNCHANGED <<sessionVars, held, again>>

Free(s) == loop[s] = "gone" /\ session # s /\ \A c \in Callers : held[c] # s

DialFails(c) ==
    /\ Goto(c, "dial", "idle") /\ Answer(c, "dial error")
    /\ UNCHANGED <<sessionVars, held, again>>

Dialed(c, s) ==
    /\ Goto(c, "dial", "register") /\ Free(s)
    /\ held' = [held EXCEPT ![c] = s]
    /\ conn' = [conn EXCEPT ![s] = "open"]
    /\ UNCHANGED <<session, loop, again, answer>>

\* Fault: a Connect that trusts its first look.
RegisterBlind(c) ==
    /\ Goto(c, "register", "idle") /\ Answer(c, "ok")
    /\ held' = [held EXCEPT ![c] = None]
    /\ session' = held[c] /\ loop' = [loop EXCEPT ![held[c]] = "reading"]
    /\ UNCHANGED <<conn, again>>

\* The second look: the connection is given up, or becomes the session.
Register(c) ==
    /\ Goto(c, "register", "idle")
    /\ held' = [held EXCEPT ![c] = None]
    /\ IF session = None
       THEN /\ session' = held[c] /\ loop' = [loop EXCEPT ![held[c]] = "reading"]
            /\ Answer(c, "ok") /\ UNCHANGED conn
       ELSE /\ conn' = [conn EXCEPT ![held[c]] = "closed"]
            /\ Answer(c, "already connected") /\ UNCHANGED <<session, loop>>
    /\ UNCHANGED again

-----------------------------------------------------------------------------
(***************************************************************************)
(* Disconnect, and Reconnect of the SDK and the TUI, which ignores how its *)
(* Disconnect ends.                                                        *)
(***************************************************************************)
Disconnect(c, reconnect) ==
    /\ again' = [again EXCEPT ![c] = reconnect]
    /\ held' = [held EXCEPT ![c] = session]
    /\ Goto(c, "idle", IF session # None THEN "close"
                       ELSE IF reconnect THEN "check" ELSE "idle")
    /\ Answer(c, "none")
    /\ UNCHANGED sessionVars

AfterDisconnect(c) == IF again[c] THEN "check" ELSE "idle"
Leave(c, from) ==
    /\ Goto(c, from, AfterDisconnect(c))
    /\ held' = [held EXCEPT ![c] = None]
    /\ UNCHANGED again

\* conn.Close fails on a connection that is closed already.
CloseConn(c) ==
    /\ pc[c] = "close"
    /\ conn' = [conn EXCEPT ![held[c]] = "closed"]
    /\ UNCHANGED <<session, loop>>
    /\ \/ conn[held[c]] = "open" /\ Goto(c, "close", "wait") /\ UNCHANGED <<held, again, answer>>
       \/ conn[held[c]] = "closed" /\ Leave(c, "close") /\ Answer(c, "close error")

\* done is closed, or 1.2 s have passed.
Waited(c) ==
    /\ Leave(c, "wait") /\ UNCHANGED answer
    /\ loop[held[c]] \in {"closed", "gone"} \/ SlowLoop
    /\ UNCHANGED sessionVars

-----------------------------------------------------------------------------
(***************************************************************************)
(* readLoop.                                                               *)
(***************************************************************************)
LGoto(s, from, to) == loop[s] = from /\ loop' = [loop EXCEPT ![s] = to]

\* Read returns an error: the connection was closed, or the peer failed.
ReadFails(s) ==
    /\ LGoto(s, "reading", "failed")
    /\ UNCHANGED <<session, conn, callerVars>>

\* The deferred function closes packets, errs and done ...
CloseChannels(s) ==
    /\ LGoto(s, "failed", "closed")
    /\ UNCHANGED <<session, conn, callerVars>>

\* Fault: a loop that forgets to clear the session.
UnregisterNone(s) ==
    /\ LGoto(s, "closed", "gone")
    /\ UNCHANGED <<session, conn, callerVars>>

\* ... and then takes the session out of the client.
Unregister(s) ==
    /\ LGoto(s, "closed", "gone")
    /\ session' = IF session = s THEN None ELSE session
    /\ UNCHANGED <<conn, callerVars>>

CallStep(c) ==
    \/ CheckSession(c) \/ DialFails(c) \/ Register(c)
    \/ \E s \in Sessions : Dialed(c, s)
    \/ CloseConn(c) \/ Waited(c)

LoopStep(s) == ReadFails(s) \/ CloseChannels(s) \/ Unregister(s)

Next ==
    \/ \E c \in Callers :
         \/ Connect(c) \/ CallStep(c)
         \/ \E reconnect \in BOOLEAN : Disconnect(c, reconnect)
    \/ \E s \in Sessions : LoopStep(s)

Spec == Init /\ [][Next]_vars

-----------------------------------------------------------------------------
\* c.session is the one session that is read, through connects that overlap,
\* failures of the peer and a slow end of the loop before: two loops would each
\* get a part of the reader's frames.
SessionExact ==
    \A s \in Sessions :
      /\ loop[s] = "reading" => session = s
      /\ session = s => loop[s] # "gone"

\* A session whose connection was closed leaves the client in the end, so that
\* it can connect again.
SessionForgotten ==
    \A s \in Sessions : session = s /\ conn[s] = "closed" ~> session # s
=============================================================================
