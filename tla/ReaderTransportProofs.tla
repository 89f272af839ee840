------------------------ MODULE ReaderTransportProofs ------------------------
(***************************************************************************)
(* Proofs about ReaderTransport, for every set of callers and sessions and *)
(* for slow and for prompt read loops.                                     *)
(***************************************************************************)
EXTENDS ReaderTransport, TLAPS

\* A connection that is dialled and not yet registered is its caller's alone.
Unregistered(c) ==
    /\ held[c] \in Sessions /\ loop[held[c]] = "gone" /\ session # held[c]
    /\ \A d \in Callers : d # c => held[d] # held[c]

HoldsSession ==
    \A c \in Callers :
      /\ pc[c] \in {"close", "wait"} => held[c] \in Sessions
      /\ pc[c] = "register" => Unregistered(c)

TransportInv == TypeOK /\ SessionExact /\ HoldsSession

LEMMA TransportInit == Init => TransportInv
  BY NoneAssumption DEF Init, TransportInv, TypeOK, SessionExact, HoldsSession,
       LoopPc, CallerPc

\* Calls keep the types.
LEMMA CallTypes ==
    ASSUME TransportInv, NEW c \in Callers,
           \/ Connect(c) \/ CallStep(c)
           \/ \E reconnect \in BOOLEAN : Disconnect(c, reconnect)
    PROVE  TypeOK'
<1>0. TypeOK
  BY DEF TransportInv
<1>a. ASSUME NEW from, NEW to \in CallerPc, Goto(c, from, to)
      PROVE  pc' \in [Callers -> CallerPc]
  BY <1>0, <1>a DEF TypeOK, Goto
<1>b. ASSUME NEW a \in {"none", "ok", "dial error", "already connected", "close error"},
             Answer(c, a)
      PROVE  answer' \in [Callers -> {"none", "ok", "dial error", "already connected", "close error"}]
  BY <1>0, <1>b DEF TypeOK, Answer
<1>c. ASSUME NEW s \in Sessions \cup {None}, held' = [held EXCEPT ![c] = s]
      PROVE  held' \in [Callers -> Sessions \cup {None}]
  BY <1>0, <1>c DEF TypeOK
<1>d. \A reconnect \in BOOLEAN :
        again' = [again EXCEPT ![c] = reconnect] => again' \in [Callers -> BOOLEAN]
  BY <1>0 DEF TypeOK
<1>e. {"idle", "check", "dial", "register", "close", "wait"} = CallerPc
  BY DEF CallerPc
<1>1. CASE Connect(c)
  BY <1>0, <1>1, <1>a, <1>b, <1>d, <1>e DEF Connect, TypeOK, sessionVars
<1>2. CASE DialFails(c)
  BY <1>0, <1>2, <1>a, <1>b, <1>e DEF DialFails, TypeOK, sessionVars
<1>3. CASE CheckSession(c)
  <2>1. CASE session = None
    BY <1>0, <1>3, <1>a, <1>e, <2>1 DEF CheckSession, TypeOK, sessionVars
  <2>2. CASE session # None
    BY <1>0, <1>3, <1>a, <1>b, <1>e, <2>2 DEF CheckSession, TypeOK, sessionVars
  <2>3. QED
    BY <2>1, <2>2
<1>4. ASSUME NEW s \in Sessions, Dialed(c, s) PROVE TypeOK'
  BY <1>0, <1>4, <1>a, <1>c, <1>e DEF Dialed, TypeOK
<1>5. CASE Register(c)
  <2>1. held[c] \in Sessions
    BY <1>5 DEF Register, Goto, TransportInv, HoldsSession, Unregistered
  <2>2. pc' \in [Callers -> CallerPc] /\ held' \in [Callers -> Sessions \cup {None}]
    BY <1>5, <1>a, <1>c, <1>e DEF Register
  <2>3. CASE session = None
    BY <1>0, <1>5, <1>b, <2>1, <2>2, <2>3 DEF Register, TypeOK, LoopPc
  <2>4. CASE session # None
    BY <1>0, <1>5, <1>b, <2>1, <2>2, <2>4 DEF Register, TypeOK
  <2>5. QED
    BY <2>3, <2>4
<1>6. CASE CloseConn(c)
  <2>1. held[c] \in Sessions
    BY <1>6 DEF CloseConn, TransportInv, HoldsSession
  <2>2. conn' \in [Sessions -> {"open", "closed"}] /\ UNCHANGED <<session, loop>>
    BY <1>0, <1>6, <2>1 DEF CloseConn, TypeOK
  <2>3. CASE conn[held[c]] = "open"
    BY <1>0, <1>6, <1>a, <1>e, <2>2, <2>3 DEF CloseConn, TypeOK
  <2>4. CASE conn[held[c]] # "open"
    BY <1>0, <1>6, <1>a, <1>b, <1>c, <1>e, <2>2, <2>4 DEF CloseConn, Leave, AfterDisconnect, TypeOK
  <2>5. QED
    BY <2>3, <2>4
<1>7. CASE Waited(c)
  BY <1>0, <1>7, <1>a, <1>c, <1>e DEF Waited, Leave, AfterDisconnect, TypeOK, sessionVars
<1>8. ASSUME NEW reconnect \in BOOLEAN, Disconnect(c, reconnect) PROVE TypeOK'
  <2>1. held' \in [Callers -> Sessions \cup {None}]
    BY <1>0, <1>8, <1>c DEF Disconnect, TypeOK
  <2>2. pc' \in [Callers -> CallerPc]
    BY <1>8, <1>a, <1>e DEF Disconnect
  <2>3. QED
    BY <1>0, <1>8, <1>b, <1>d, <2>1, <2>2 DEF Disconnect, TypeOK, sessionVars
<1>9. QED
  BY <1>1, <1>2, <1>3, <1>4, <1>5, <1>6, <1>7, <1>8 DEF CallStep

\* Connect keeps one session: between its looks no other loop can start on the
\* connection it dialled.
LEMMA ConnectKeeps ==
    ASSUME TransportInv, NEW c \in Callers,
           \/ Connect(c) \/ CheckSession(c) \/ DialFails(c) \/ Register(c)
           \/ \E s \in Sessions : Dialed(c, s)
    PROVE  SessionExact' /\ HoldsSession'
<1> USE NoneAssumption DEF TransportInv, TypeOK, SessionExact, HoldsSession,
       Unregistered, Goto, sessionVars
<1>1. CASE Connect(c)
  BY <1>1 DEF Connect
<1>2. CASE CheckSession(c)
  <2>1. UNCHANGED <<session, loop, held>> /\ pc[c] = "check"
    BY <1>2 DEF CheckSession
  <2>2. PICK to \in {"dial", "idle"} : pc' = [pc EXCEPT ![c] = to]
    BY <1>2 DEF CheckSession
  <2>3. QED
    BY <2>1, <2>2
<1>3. CASE DialFails(c)
  BY <1>3 DEF DialFails
<1>4. ASSUME NEW s \in Sessions, Dialed(c, s) PROVE SessionExact' /\ HoldsSession'
  <2>1. /\ session' = session /\ loop' = loop
        /\ held' = [held EXCEPT ![c] = s] /\ pc' = [pc EXCEPT ![c] = "register"]
        /\ loop[s] = "gone" /\ session # s /\ \A d \in Callers : held[d] # s
    BY <1>4 DEF Dialed, Free
  <2>2. SessionExact'
    BY <2>1
  <2>3. ASSUME NEW d \in Callers
        PROVE  /\ pc'[d] \in {"close", "wait"} => held'[d] \in Sessions
               /\ pc'[d] = "register" => Unregistered(d)'
    <3>1. CASE d = c
      BY <2>1, <3>1
    <3>2. CASE d # c
      BY <2>1, <3>2
    <3>3. QED
      BY <3>1, <3>2
  <2>4. QED
    BY <2>2, <2>3
<1>5. CASE Register(c)
  <2>1. held[c] \in Sessions /\ held' = [held EXCEPT ![c] = None]
    BY <1>5 DEF Register
  <2>2. CASE session = None
    <3>1. /\ session' = held[c]
          /\ loop' = [loop EXCEPT ![held[c]] = "reading"]
          /\ pc' = [pc EXCEPT ![c] = "idle"] /\ pc[c] = "register"
      BY <1>5, <2>2 DEF Register
    <3>2. SessionExact'
      BY <2>1, <2>2, <3>1
    <3>3. ASSUME NEW d \in Callers
          PROVE  /\ pc'[d] \in {"close", "wait"} => held'[d] \in Sessions
                 /\ pc'[d] = "register" => Unregistered(d)'
      <4>1. CASE d = c
        BY <2>1, <3>1, <4>1
      <4>2. CASE d # c
        BY <2>1, <3>1, <4>2
      <4>3. QED
        BY <4>1, <4>2
    <3>4. QED
      BY <3>2, <3>3
  <2>3. CASE session # None
    <3>1. /\ UNCHANGED <<session, loop>>
          /\ pc' = [pc EXCEPT ![c] = "idle"] /\ pc[c] = "register"
      BY <1>5, <2>3 DEF Register
    <3>2. SessionExact'
      BY <3>1
    <3>3. ASSUME NEW d \in Callers
          PROVE  /\ pc'[d] \in {"close", "wait"} => held'[d] \in Sessions
                 /\ pc'[d] = "register" => Unregistered(d)'
      <4>1. CASE d = c
        BY <2>1, <3>1, <4>1
      <4>2. CASE d # c
        BY <2>1, <3>1, <4>2
      <4>3. QED
        BY <4>1, <4>2
    <3>4. QED
      BY <3>2, <3>3
  <2>4. QED
    BY <2>2, <2>3
<1>6. QED
  BY <1>1, <1>2, <1>3, <1>4, <1>5

\* Disconnect leaves the session to its read loop.
LEMMA DisconnectKeeps ==
    ASSUME TransportInv, NEW c \in Callers,
           \/ CloseConn(c) \/ Waited(c)
           \/ \E reconnect \in BOOLEAN : Disconnect(c, reconnect)
    PROVE  SessionExact' /\ HoldsSession'
<1> USE NoneAssumption DEF TransportInv, TypeOK, SessionExact, HoldsSession,
       Unregistered, Goto, sessionVars, Leave, AfterDisconnect
<1>1. CASE CloseConn(c)
  <2>1. UNCHANGED <<session, loop>> /\ pc[c] = "close"
    BY <1>1 DEF CloseConn
  <2>2. CASE conn[held[c]] = "open" /\ pc' = [pc EXCEPT ![c] = "wait"] /\ UNCHANGED held
    BY <2>1, <2>2
  <2>3. CASE Leave(c, "close")
    BY <2>1, <2>3
  <2>4. QED
    BY <1>1, <2>2, <2>3 DEF CloseConn
<1>2. CASE Waited(c)
  BY <1>2 DEF Waited
<1>3. ASSUME NEW reconnect \in BOOLEAN, Disconnect(c, reconnect)
      PROVE  SessionExact' /\ HoldsSession'
  <2>1. /\ UNCHANGED <<session, loop>> /\ held' = [held EXCEPT ![c] = session]
        /\ pc' = [pc EXCEPT ![c] = IF session # None THEN "close"
                                   ELSE IF reconnect THEN "check" ELSE "idle"]
        /\ pc[c] = "idle"
    BY <1>3 DEF Disconnect
  <2>2. SessionExact'
    BY <2>1
  <2>3. ASSUME NEW d \in Callers
        PROVE  /\ pc'[d] \in {"close", "wait"} => held'[d] \in Sessions
               /\ pc'[d] = "register" => Unregistered(d)'
    <3>1. CASE d = c
      BY <2>1, <3>1
    <3>2. CASE d # c
      BY <2>1, <3>2
    <3>3. QED
      BY <3>1, <3>2
  <2>4. QED
    BY <2>2, <2>3
<1>4. QED
  BY <1>1, <1>2, <1>3

\* A read loop takes no session but its own out of the client.
LEMMA LoopKeeps ==
    ASSUME TransportInv, NEW s \in Sessions, LoopStep(s)
    PROVE  TransportInv'
<1> USE NoneAssumption DEF TransportInv, TypeOK, SessionExact, HoldsSession,
       Unregistered, LGoto, LoopPc, callerVars
<1>1. CASE ReadFails(s) \/ CloseChannels(s)
  <2>1. PICK to \in {"failed", "closed"} :
          /\ loop' = [loop EXCEPT ![s] = to] /\ loop[s] # "gone"
          /\ UNCHANGED <<session, conn, pc, held, again, answer>>
    BY <1>1 DEF ReadFails, CloseChannels
  <2>2. TypeOK'
    BY <2>1
  <2>3. SessionExact'
    BY <2>1
  <2>4. HoldsSession'
    BY <2>1
  <2>5. QED
    BY <2>2, <2>3, <2>4
<1>2. CASE Unregister(s)
  BY <1>2 DEF Unregister
<1>3. QED
  BY <1>1, <1>2 DEF LoopStep

LEMMA TransportStep == TransportInv /\ [Next]_vars => TransportInv'
<1> SUFFICES ASSUME TransportInv, [Next]_vars PROVE TransportInv'
  OBVIOUS
<1>1. ASSUME NEW c \in Callers,
             \/ Connect(c) \/ CallStep(c)
             \/ \E reconnect \in BOOLEAN : Disconnect(c, reconnect)
      PROVE  TransportInv'
  BY <1>1, CallTypes, ConnectKeeps, DisconnectKeeps DEF CallStep, TransportInv
<1>2. ASSUME NEW s \in Sessions, LoopStep(s) PROVE TransportInv'
  BY <1>2, LoopKeeps
<1>3. CASE UNCHANGED vars
  BY <1>3 DEF vars, sessionVars, callerVars, TransportInv, TypeOK, SessionExact,
       HoldsSession, Unregistered
<1>4. QED
  BY <1>1, <1>2, <1>3 DEF Next

LEMMA TransportInvariant == Spec => []TransportInv
  BY TransportInit, TransportStep, PTL DEF Spec

\* c.session, the connections, the read loops and the calls keep their types.
THEOREM TransportTypeCorrect == Spec => []TypeOK
<1>1. TransportInv => TypeOK
  BY DEF TransportInv
<1>2. QED
  BY <1>1, TransportInvariant, PTL

\* Connect, Disconnect and readLoop: c.session is the one session that is read,
\* for any number of overlapping connects, failures and reconnects.
THEOREM OneSessionIsRead == Spec => []SessionExact
<1>1. TransportInv => SessionExact
  BY DEF TransportInv
<1>2. QED
  BY <1>1, TransportInvariant, PTL
=============================================================================
