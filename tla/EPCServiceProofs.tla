--------------------------- MODULE EPCServiceProofs ---------------------------
(***************************************************************************)
(* Proofs about the EPC matcher, for every set of EPCs, workers and        *)
(* callers, every queue size and every number of retries; at the end, that *)
(* it implements DraftClosing and keeps open drafts cached.                *)
(***************************************************************************)
EXTENDS EPCServiceRefinement, SequenceTheorems, TLAPS

-----------------------------------------------------------------------------
(***************************************************************************)
(* Type correctness.                                                       *)
(***************************************************************************)
\* The state built by New is well typed.
LEMMA TypeInit == Init => TypeOK
BY NobodyAssumption, QueueSizeAssumption, SubmitRetryAssumption,
   ScanDefaultAssumption, EmptySeq DEF Init, ServiceInit, TypeOK, ThreadPc, Ops,
   WorkerPc, Replies, Threads

\* A goroutine that starts an operation keeps the types.
LEMMA TypeCall ==
  ASSUME TypeOK, NEW t \in Threads, Call(t)
  PROVE  TypeOK'
<1> USE DEF TypeOK, ThreadPc, Ops, Goto, Return, erpVars, seenVars, workerVars
<1>1. ASSUME NEW e \in EPCs, HandleEPC(t, e) PROVE TypeOK'
  <2>1. (recentSeen \in SUBSET EPCs /\ stale \in SUBSET recentSeen)'
    BY <1>1 DEF HandleEPC, Fresh
  <2>2. CASE scanActive
    <3>1. /\ pc' = [pc EXCEPT ![t] = "lookup"] /\ op' = [op EXCEPT ![t] = "epc"]
          /\ cur' = [cur EXCEPT ![t] = e]
      BY <1>1, <2>2 DEF HandleEPC
    <3>2. /\ pc' \in [Threads -> ThreadPc] /\ op' \in [Threads -> Ops]
          /\ cur' \in [Threads -> EPCs \cup {NoEPC}]
          /\ \A u \in Threads : u # t => pc'[u] = pc[u] /\ cur'[u] = cur[u]
          /\ cur'[t] \in EPCs
      BY <3>1
    <3> QED BY <1>1, <2>1, <3>2 DEF HandleEPC
  <2>3. CASE ~scanActive
    BY <1>1, <2>1, <2>3 DEF HandleEPC
  <2> QED BY <2>2, <2>3
<1>2. ASSUME NEW epcs \in SUBSET EPCs, AddDraftEPCs(t, epcs) PROVE TypeOK'
  BY <1>2 DEF AddDraftEPCs
<1>3. CASE RefreshCache(t)
  BY <1>3 DEF RefreshCache
<1>4. ASSUME NEW active \in BOOLEAN, SetScanActive(t, active) PROVE TypeOK'
  BY ZenonT(30), <1>4 DEF SetScanActive
<1> QED BY <1>1, <1>2, <1>3, <1>4 DEF Call

\* A goroutine that goes on with its operation keeps the types.
LEMMA TypeContinue ==
  ASSUME TypeOK, NEW t \in Threads, Continue(t)
  PROVE  TypeOK'
<1> USE DEF TypeOK, ThreadPc, Ops, Goto, Return, erpVars, seenVars, workerVars
<1>1. CASE Lookup(t)
  <2>1. cur[t] \in EPCs
    BY <1>1 DEF Lookup
  <2>2. CASE cur[t] \in cache
    <3>1. {cur[t]} \in SUBSET EPCs
      BY <2>1
    <3> QED BY <1>1, <2>2, <3>1 DEF Lookup
  <2>3. CASE cur[t] \notin cache
    <3>1. Return(t) /\ cur' = [cur EXCEPT ![t] = NoEPC]
      BY <1>1, <2>3 DEF Lookup
    <3>2. /\ pc' \in [Threads -> ThreadPc] /\ op' \in [Threads -> Ops]
          /\ todo' \in [Threads -> SUBSET EPCs]
          /\ cur' \in [Threads -> EPCs \cup {NoEPC}]
          /\ \A u \in Threads : u # t => pc'[u] = pc[u] /\ cur'[u] = cur[u]
          /\ pc'[t] = "idle"
      BY <3>1
    <3> QED BY <1>1, <3>1, <3>2 DEF Lookup
  <2> QED BY <2>2, <2>3
<1>2. CASE Replace(t)
  BY <1>2 DEF Replace
<1>3. CASE Collect(t)
  BY <1>3 DEF Collect, Fresh
<1>4. ASSUME NEW e \in EPCs, ReadCandidate(t, e) PROVE TypeOK'
  BY <1>4 DEF ReadCandidate
<1>5. CASE Collected(t)
  BY <1>5 DEF Collected
<1>6. CASE Gate(t)
  <2>1. CASE scanActive
    BY <1>6, <2>1 DEF Gate
  <2>2. CASE ~scanActive
    <3>1. Return(t) /\ UNCHANGED cur
      BY <1>6, <2>2 DEF Gate
    <3>2. /\ pc' \in [Threads -> ThreadPc] /\ op' \in [Threads -> Ops]
          /\ todo' \in [Threads -> SUBSET EPCs]
          /\ \A u \in Threads : u # t => pc'[u] = pc[u]
          /\ pc'[t] = "idle"
      BY <3>1
    <3> QED BY <1>6, <3>1, <3>2 DEF Gate
  <2> QED BY <2>1, <2>2
<1>7. ASSUME NEW e \in EPCs, Refuse(t, e) PROVE TypeOK'
  BY <1>7 DEF Refuse
<1>8. ASSUME NEW e \in EPCs, Reserve(t, e) PROVE TypeOK'
  BY <1>8 DEF Reserve
<1>9. CASE Send(t)
  <2>1. CASE Len(queue) < QueueSize
    <3>1. cur[t] \in EPCs /\ queue' = Append(queue, cur[t])
      BY <1>9, <2>1 DEF Send
    <3>2. queue' \in Seq(EPCs) /\ Len(queue') = Len(queue) + 1
      BY <3>1, AppendProperties
    <3>3. Len(queue') <= QueueSize
      BY <2>1, <3>2, QueueSizeAssumption, LenProperties
    <3> QED BY ZenonT(30), <1>9, <2>1, <3>2, <3>3 DEF Send
  <2>2. CASE ~(Len(queue) < QueueSize)
    BY <1>9, <2>2 DEF Send
  <2> QED BY <2>1, <2>2
<1>10. CASE Drop(t)
  BY <1>10 DEF Drop
<1>11. CASE Finish(t)
  BY <1>11 DEF Finish
<1> QED BY <1>1, <1>2, <1>3, <1>4, <1>5, <1>6, <1>7, <1>8, <1>9, <1>10,
           <1>11 DEF Continue

\* A worker keeps the types.
LEMMA TypeWork ==
  ASSUME TypeOK, NEW w \in Workers, Work(w)
  PROVE  TypeOK'
<1> USE DEF TypeOK, WorkerPc, Replies, WGoto, Rest, Answer, erpVars, seenVars,
            threadVars
<1>1. CASE Take(w)
  <2>1. /\ Head(queue) \in EPCs /\ Tail(queue) \in Seq(EPCs)
        /\ Len(Tail(queue)) = Len(queue) - 1
    BY <1>1, HeadTailProperties DEF Take
  <2>2. Len(Tail(queue)) <= QueueSize
    BY <2>1, QueueSizeAssumption, LenProperties
  <2> QED BY <1>1, <2>1, <2>2 DEF Take
<1>2. CASE Unqueue(w)
  BY <1>2 DEF Unqueue
<1>3. CASE Check(w)
  BY <1>3 DEF Check
<1>4. CASE LockInflight(w)
  <2>1. hand[w] \in EPCs
    BY <1>4 DEF LockInflight
  <2>2. CASE hand[w] \in inflight
    BY <1>4, <2>1, <2>2 DEF LockInflight
  <2>3. CASE hand[w] \notin inflight
    <3>1. inflight' \in SUBSET EPCs
      BY <1>4, <2>1, <2>3 DEF LockInflight
    <3> QED BY <1>4, <2>1, <2>3, <3>1 DEF LockInflight
  <2> QED BY <2>2, <2>3
<1>5. CASE SubmitAnswered(w)
  BY <1>5 DEF SubmitAnswered
<1>6. CASE SubmitFailed(w)
  BY <1>6 DEF SubmitFailed
<1>7. CASE RemoveCached(w)
  BY <1>7 DEF RemoveCached
<1>8. CASE Retry(w)
  BY <1>8, SubmitRetryAssumption DEF Retry
<1>9. CASE GiveUp(w)
  BY <1>9 DEF GiveUp
<1>10. CASE UnlockInflight(w)
  BY <1>10, SubmitRetryAssumption DEF UnlockInflight
<1> QED BY <1>1, <1>2, <1>3, <1>4, <1>5, <1>6, <1>7, <1>8, <1>9, <1>10 DEF Work

\* The ERP, the clock and a restart keep the types.
LEMMA TypeEnvironment ==
  ASSUME TypeOK, Environment
  PROVE  TypeOK'
<1> USE DEF TypeOK
<1>1. ASSUME NEW e \in EPCs, CreateDraft(e) \/ LateSubmit(e) \/ Age(e)
      PROVE  TypeOK'
  BY <1>1 DEF CreateDraft, LateSubmit, Age, Fresh, erpVars, seenVars,
              serviceVars, threadVars, workerVars
<1>2. CASE Restart
  <2>1. {hand[w] : w \in {v \in Workers : wpc[v] = "submit"}} \subseteq EPCs
    OBVIOUS
  <2>2. late' \in SUBSET EPCs
    BY <1>2, <2>1 DEF Restart
  <2> QED BY <1>2, <2>2, EmptySeq, NobodyAssumption, QueueSizeAssumption,
             SubmitRetryAssumption, ScanDefaultAssumption
          DEF Restart, ThreadPc, Ops, WorkerPc, Replies
<1> QED BY <1>1, <1>2 DEF Environment

LEMMA TypeStep == TypeOK /\ [Next]_vars => TypeOK'
<1> SUFFICES ASSUME TypeOK, [Next]_vars PROVE TypeOK'
  OBVIOUS
<1>1. CASE Next
  <2>1. Callers \subseteq Threads /\ Ticker \in Threads
    BY DEF Threads
  <2> QED BY <1>1, <2>1, TypeCall, TypeContinue, TypeWork, TypeEnvironment
          DEF Next, Call
<1>2. CASE UNCHANGED vars
  BY <1>2 DEF TypeOK, vars, erpVars, seenVars, threadVars, workerVars
<1> QED BY <1>1, <1>2

\* Every reachable state is well typed; in particular the channel never holds
\* more than QueueSize entries and no attempt exceeds SubmitRetry.
THEOREM TypeCorrect == Spec => []TypeOK
BY TypeInit, TypeStep, PTL DEF Spec

-----------------------------------------------------------------------------
(***************************************************************************)
(* One submit session per EPC.                                             *)
(***************************************************************************)
SessionInv == InflightExact /\ OneSessionPerEPC

\* A step that touches neither the sessions nor inflight.
LEMMA SessionFrame ==
  ASSUME SessionInv, inflight' = inflight, InSession' = InSession,
         \A w \in InSession : hand'[w] = hand[w]
  PROVE  SessionInv'
BY DEF SessionInv, InflightExact, OneSessionPerEPC

\* The request goroutines, the ERP and the clock leave the workers alone.
LEMMA SessionThread ==
  ASSUME SessionInv, UNCHANGED <<inflight, wpc, hand>>
  PROVE  SessionInv'
BY SessionFrame DEF InSession

LEMMA SessionWork ==
  ASSUME TypeOK, SessionInv, NEW w \in Workers, Work(w)
  PROVE  SessionInv'
<1> DEFINE Frame == /\ inflight' = inflight /\ InSession' = InSession
                    /\ \A v \in InSession : hand'[v] = hand[v]
<1>0. Frame => SessionInv'
  BY SessionFrame
<1>a. wpc \in [Workers -> WorkerPc] /\ hand \in [Workers -> EPCs \cup {NoEPC}]
  BY DEF TypeOK
<1>1. CASE Take(w)
  <2>1. Frame BY <1>1, <1>a DEF Take, InSession, WGoto
  <2> QED BY <1>0, <2>1
<1>2. CASE Unqueue(w)
  <2>1. Frame BY <1>2, <1>a DEF Unqueue, InSession, WGoto
  <2> QED BY <1>0, <2>1
<1>3. CASE Check(w)
  <2>1. Frame BY <1>3, <1>a DEF Check, InSession, WGoto, Rest
  <2> QED BY <1>0, <2>1
<1>4. CASE LockInflight(w)
  <2>1. CASE hand[w] \in inflight
    <3>1. Frame BY <1>4, <2>1, <1>a DEF LockInflight, InSession, WGoto, Rest
    <3> QED BY <1>0, <3>1
  <2>2. CASE hand[w] \notin inflight
    <3>1. /\ inflight' = inflight \cup {hand[w]} /\ hand' = hand
          /\ InSession' = InSession \cup {w}
      BY <1>4, <2>2, <1>a DEF LockInflight, InSession, WGoto
    <3>2. \A v \in InSession : hand[v] # hand[w]
      BY <2>2 DEF SessionInv, InflightExact
    <3>3. InflightExact'
      BY <3>1 DEF SessionInv, InflightExact
    <3>4. OneSessionPerEPC'
      BY <3>1, <3>2 DEF SessionInv, OneSessionPerEPC
    <3> QED BY <3>3, <3>4 DEF SessionInv
  <2> QED BY <2>1, <2>2
<1>5. CASE SubmitAnswered(w) \/ SubmitFailed(w)
  <2>1. Frame
    BY <1>5, <1>a DEF SubmitAnswered, SubmitFailed, Answer, InSession, WGoto
  <2> QED BY <1>0, <2>1
<1>6. CASE RemoveCached(w) \/ Retry(w) \/ GiveUp(w)
  <2>1. Frame
    BY <1>6, <1>a DEF RemoveCached, Retry, GiveUp, InSession, WGoto
  <2> QED BY <1>0, <2>1
<1>7. CASE UnlockInflight(w)
  <2>1. /\ w \in InSession /\ InSession' = InSession \ {w}
        /\ inflight' = inflight \ {hand[w]}
        /\ \A v \in InSession' : hand'[v] = hand[v]
    BY <1>7, <1>a DEF UnlockInflight, InSession, WGoto, Rest
  <2>2. \A v \in InSession' : hand[v] # hand[w]
    BY <2>1 DEF SessionInv, OneSessionPerEPC
  <2>3. InflightExact'
    BY <2>1, <2>2 DEF SessionInv, InflightExact
  <2>4. OneSessionPerEPC'
    BY <2>1 DEF SessionInv, OneSessionPerEPC
  <2> QED BY <2>3, <2>4 DEF SessionInv
<1> QED BY <1>1, <1>2, <1>3, <1>4, <1>5, <1>6, <1>7 DEF Work

LEMMA SessionStep == TypeOK /\ SessionInv /\ [Next]_vars => SessionInv'
<1> SUFFICES ASSUME TypeOK, SessionInv, [Next]_vars PROVE SessionInv'
  OBVIOUS
<1>1. ASSUME NEW t \in Threads, Call(t) PROVE SessionInv'
  BY <1>1, SessionThread DEF Call, HandleEPC, AddDraftEPCs, RefreshCache,
     SetScanActive, workerVars
<1>2. ASSUME NEW t \in Threads, Continue(t) PROVE SessionInv'
  BY <1>2, SessionThread DEF Continue, Lookup, Replace, Collect, ReadCandidate,
     Collected, Gate, Refuse, Reserve, Send, Drop, Finish, workerVars
<1>3. ASSUME NEW w \in Workers, Work(w) PROVE SessionInv'
  BY <1>3, SessionWork
<1>4. ASSUME NEW e \in EPCs, CreateDraft(e) \/ LateSubmit(e) \/ Age(e)
      PROVE  SessionInv'
  BY <1>4, SessionThread DEF CreateDraft, LateSubmit, Age, serviceVars,
     workerVars
<1>5. CASE Restart
  <2>1. inflight' = {} /\ InSession' = {}
    BY <1>5 DEF Restart, InSession
  <2> QED BY <2>1 DEF SessionInv, InflightExact, OneSessionPerEPC
<1>6. CASE UNCHANGED vars
  BY <1>6, SessionThread DEF vars, workerVars
<1>7. Callers \subseteq Threads /\ Ticker \in Threads
  BY DEF Threads
<1> QED BY <1>1, <1>2, <1>3, <1>4, <1>5, <1>6, <1>7 DEF Next, Environment, Call

\* inflight is always exactly what the workers in a session hold: no unlock is
\* missed on any return of processSubmit and none comes early.
THEOREM InflightIsExact == Spec => []InflightExact
<1>1. Init => SessionInv
  BY DEF Init, ServiceInit, SessionInv, InflightExact, OneSessionPerEPC, InSession
<1> QED BY <1>1, SessionStep, TypeInit, TypeStep, PTL DEF Spec, SessionInv

\* The ERP never sees two submit sessions of this process for one EPC at once.
THEOREM SessionsExclude == Spec => []OneSessionPerEPC
<1>1. Init => SessionInv
  BY DEF Init, ServiceInit, SessionInv, InflightExact, OneSessionPerEPC, InSession
<1> QED BY <1>1, SessionStep, TypeInit, TypeStep, PTL DEF Spec, SessionInv

-----------------------------------------------------------------------------
(***************************************************************************)
(* One owner per reservation.  Two lemmas say what a send and a receive do *)
(* to the entries of the channel.                                          *)
(***************************************************************************)
\* A send adds one entry, and keeps the entries distinct if it is new.
LEMMA AppendEntries ==
  ASSUME NEW S, NEW s \in Seq(S), NEW e \in S
  PROVE  /\ Range(Append(s, e)) = Range(s) \cup {e}
         /\ IsInjective(s) /\ e \notin Range(s) => IsInjective(Append(s, e))
<1> DEFINE a == Append(s, e)
           n == Len(s)
<1>1. /\ a \in Seq(S) /\ Len(a) = n + 1 /\ n \in Nat
      /\ \A i \in 1..n : a[i] = s[i]
      /\ a[n + 1] = e
  BY AppendProperties, LenProperties
<1>2. DOMAIN s = 1..n /\ DOMAIN a = 1..(n + 1)
  BY <1>1, LenProperties
<1>3. 1..(n + 1) = 1..n \cup {n + 1}
  BY <1>1
<1> HIDE DEF a, n
<1>4. Range(a) = Range(s) \cup {e}
  BY <1>1, <1>2, <1>3 DEF Range
<1>5. ASSUME IsInjective(s), e \notin Range(s) PROVE IsInjective(a)
  <2>1. \A i \in 1..n : a[i] = s[i] /\ a[i] # e
    BY <1>1, <1>2, <1>5 DEF Range
  <2>2. SUFFICES ASSUME NEW i \in 1..(n + 1), NEW j \in 1..(n + 1), a[i] = a[j]
                 PROVE  i = j
    BY <1>2 DEF IsInjective
  <2>3. CASE i \in 1..n /\ j \in 1..n
    BY <2>1, <2>2, <2>3, <1>2, <1>5 DEF IsInjective
  <2>4. CASE i = n + 1 \/ j = n + 1
    BY <2>1, <2>2, <2>4, <1>1, <1>3
  <2> QED BY <2>3, <2>4, <1>3
<1> QED BY <1>4, <1>5 DEF a

\* A receive takes one entry off, which does not occur again.
LEMMA HeadTailEntries ==
  ASSUME NEW S, NEW s \in Seq(S), s # <<>>
  PROVE  /\ Range(s) = {Head(s)} \cup Range(Tail(s))
         /\ IsInjective(s) => IsInjective(Tail(s)) /\ Head(s) \notin Range(Tail(s))
<1> DEFINE r == Tail(s)
           n == Len(r)
<1>1. /\ r \in Seq(S) /\ Len(s) = n + 1 /\ n \in Nat
      /\ \A i \in 1..n : r[i] = s[i + 1]
      /\ Head(s) = s[1]
  BY HeadTailProperties, LenProperties
<1>2. DOMAIN r = 1..n /\ DOMAIN s = 1..(n + 1)
  BY <1>1, LenProperties
<1>3. /\ 1 \in 1..(n + 1)
      /\ \A i \in 1..n : i + 1 \in 1..(n + 1) /\ i + 1 # 1
      /\ \A j \in 1..(n + 1) : j # 1 => j - 1 \in 1..n /\ (j - 1) + 1 = j
  BY <1>1
<1> HIDE DEF r, n
<1>4. Range(s) = {Head(s)} \cup Range(r)
  <2>1. Range(r) \subseteq Range(s)
    BY SMTT(30), <1>1, <1>2, <1>3 DEF Range
  <2>2. Head(s) \in Range(s)
    BY <1>1, <1>2, <1>3 DEF Range
  <2>3. ASSUME NEW x \in Range(s), x # Head(s) PROVE x \in Range(r)
    <3>1. PICK j \in 1..(n + 1) : x = s[j]
      BY <1>2 DEF Range
    <3>2. j - 1 \in 1..n /\ r[j - 1] = x
      BY <1>1, <1>3, <2>3, <3>1
    <3> QED BY <3>2, <1>2 DEF Range
  <2> QED BY <2>1, <2>2, <2>3
<1>5. ASSUME IsInjective(s) PROVE IsInjective(r) /\ Head(s) \notin Range(r)
  <2>1. IsInjective(r)
    <3>1. SUFFICES ASSUME NEW i \in 1..n, NEW j \in 1..n, r[i] = r[j]
                   PROVE  i = j
      BY <1>2 DEF IsInjective
    <3>2. i + 1 = j + 1
      BY <3>1, <1>1, <1>2, <1>3, <1>5 DEF IsInjective
    <3> QED BY <3>2, <1>1
  <2>2. \A i \in 1..n : r[i] # Head(s)
    BY SMTT(30), <1>1, <1>2, <1>3, <1>5 DEF IsInjective
  <2> QED BY <2>1, <2>2, <1>2 DEF Range
<1> QED BY <1>4, <1>5 DEF r

\* A step that touches neither the owners nor the reservations.
LEMMA ReservationFrame ==
  ASSUME OneReservationPerEPC, UNCHANGED <<queued, queue>>,
         Sending' = Sending, Taking' = Taking,
         \A t \in Sending : cur'[t] = cur[t],
         \A w \in Taking : hand'[w] = hand[w]
  PROVE  OneReservationPerEPC'
BY DEF OneReservationPerEPC, Queue

LEMMA ReservationThread ==
  ASSUME TypeOK, OneReservationPerEPC, NEW t \in Threads, Call(t) \/ Continue(t)
  PROVE  OneReservationPerEPC'
<1> DEFINE Frame == /\ UNCHANGED <<queued, queue, wpc, hand>>
                    /\ Sending' = Sending
                    /\ \A s \in Sending : cur'[s] = cur[s]
<1>0. Frame => OneReservationPerEPC'
  BY ReservationFrame DEF Taking
<1>a. pc \in [Threads -> ThreadPc] /\ cur \in [Threads -> EPCs \cup {NoEPC}]
  BY DEF TypeOK
<1> USE DEF Goto, Return, workerVars, Sending
<1>1. CASE Call(t)
  <2>1. ASSUME NEW e \in EPCs, HandleEPC(t, e) PROVE Frame
    BY <2>1, <1>a DEF HandleEPC
  <2>2. ASSUME NEW epcs \in SUBSET EPCs, AddDraftEPCs(t, epcs) PROVE Frame
    BY <2>2, <1>a DEF AddDraftEPCs
  <2>3. ASSUME RefreshCache(t) PROVE Frame
    BY <2>3, <1>a DEF RefreshCache
  <2>4. ASSUME NEW active \in BOOLEAN, SetScanActive(t, active) PROVE Frame
    BY <2>4, <1>a DEF SetScanActive
  <2> QED BY <1>0, <1>1, <2>1, <2>2, <2>3, <2>4 DEF Call
<1>2. CASE Lookup(t)
  <2>1. Frame BY <1>2, <1>a DEF Lookup
  <2> QED BY <1>0, <2>1
<1>3. CASE Replace(t) \/ Collect(t) \/ Collected(t)
  <2>1. Frame BY <1>3, <1>a DEF Replace, Collect, Collected
  <2> QED BY <1>0, <2>1
<1>4. ASSUME NEW e \in EPCs, ReadCandidate(t, e) \/ Refuse(t, e)
      PROVE  OneReservationPerEPC'
  <2>1. Frame BY <1>4 DEF ReadCandidate, Refuse
  <2> QED BY <1>0, <2>1
<1>5. CASE Gate(t) \/ Finish(t)
  <2>1. Frame BY <1>5, <1>a DEF Gate, Finish
  <2> QED BY <1>0, <2>1
<1>6. ASSUME NEW e \in EPCs, Reserve(t, e) PROVE OneReservationPerEPC'
  <2>1. /\ e \notin queued /\ queued' = queued \cup {e}
        /\ Sending' = Sending \cup {t} /\ t \notin Sending
        /\ cur'[t] = e /\ \A s \in Sending : cur'[s] = cur[s]
        /\ UNCHANGED <<queue, wpc, hand>>
    BY <1>6, <1>a DEF Reserve
  <2>2. Taking' = Taking /\ Queue' = Queue
    BY <2>1 DEF Taking, Queue
  <2>3. /\ e \notin Queue /\ \A w \in Taking : hand[w] # e
        /\ \A s \in Sending : cur[s] # e
    BY <2>1 DEF OneReservationPerEPC
  <2> HIDE DEF Sending
  <2> QED BY <2>1, <2>2, <2>3 DEF OneReservationPerEPC
<1>7. CASE Send(t)
  <2>1. CASE Len(queue) < QueueSize
    <3>1. /\ queue' = Append(queue, cur[t])
          /\ t \in Sending /\ Sending' = Sending \ {t}
          /\ \A s \in Sending' : cur'[s] = cur[s]
          /\ UNCHANGED <<queued, wpc, hand>>
      BY <1>7, <2>1, <1>a DEF Send
    <3>2. cur[t] \in EPCs /\ queue \in Seq(EPCs)
      BY <3>1 DEF TypeOK
    <3>3. cur[t] \notin Queue /\ IsInjective(queue)
      BY <3>1 DEF OneReservationPerEPC
    <3>4. Queue' = Queue \cup {cur[t]} /\ IsInjective(queue')
      BY <3>1, <3>2, <3>3, AppendEntries DEF Queue
    <3>5. Taking' = Taking /\ \A w \in Taking : hand[w] # cur[t]
      BY <3>1 DEF Taking, OneReservationPerEPC
    <3>6. \A s \in Sending' : cur[s] # cur[t]
      BY <3>1 DEF OneReservationPerEPC
    <3> HIDE DEF Sending
    <3> QED BY <3>1, <3>4, <3>5, <3>6 DEF OneReservationPerEPC
  <2>2. CASE ~(Len(queue) < QueueSize)
    <3>1. Frame BY <1>7, <2>2, <1>a DEF Send
    <3> QED BY <1>0, <3>1
  <2> QED BY <2>1, <2>2
<1>8. CASE Drop(t)
  <2>1. /\ t \in Sending /\ Sending' = Sending \ {t}
        /\ queued' = queued \ {cur[t]}
        /\ \A s \in Sending' : cur'[s] = cur[s]
        /\ UNCHANGED <<queue, wpc, hand>>
    BY <1>8, <1>a DEF Drop
  <2>2. Taking' = Taking /\ Queue' = Queue
    BY <2>1 DEF Taking, Queue
  <2>3. /\ cur[t] \notin Queue /\ \A w \in Taking : hand[w] # cur[t]
        /\ \A s \in Sending' : cur[s] # cur[t]
    BY <2>1 DEF OneReservationPerEPC
  <2> HIDE DEF Sending
  <2> QED BY <2>1, <2>2, <2>3 DEF OneReservationPerEPC
<1> QED BY <1>1, <1>2, <1>3, <1>4, <1>5, <1>6, <1>7, <1>8 DEF Continue

LEMMA ReservationWork ==
  ASSUME TypeOK, OneReservationPerEPC, NEW w \in Workers, Work(w)
  PROVE  OneReservationPerEPC'
<1> DEFINE Frame == /\ UNCHANGED <<queued, queue, pc, cur>>
                    /\ Taking' = Taking
                    /\ \A v \in Taking : hand'[v] = hand[v]
<1>0. Frame => OneReservationPerEPC'
  BY ReservationFrame DEF Sending
<1>a. wpc \in [Workers -> WorkerPc] /\ hand \in [Workers -> EPCs \cup {NoEPC}]
  BY DEF TypeOK
<1> USE DEF WGoto, Rest, threadVars, Taking
<1>1. CASE Take(w)
  <2>1. /\ queue # <<>> /\ queue' = Tail(queue)
        /\ w \notin Taking /\ Taking' = Taking \cup {w}
        /\ hand'[w] = Head(queue) /\ \A v \in Taking : hand'[v] = hand[v]
        /\ UNCHANGED <<queued, pc, cur>>
    BY <1>1, <1>a DEF Take
  <2>2. IsInjective(queue) /\ queue \in Seq(EPCs)
    BY DEF OneReservationPerEPC, TypeOK
  <2>3. /\ Queue = {Head(queue)} \cup Queue'
        /\ IsInjective(queue') /\ Head(queue) \notin Queue'
    BY <2>1, <2>2, HeadTailEntries DEF Queue
  <2>4. /\ \A v \in Taking : hand[v] # Head(queue)
        /\ \A t \in Sending : cur[t] # Head(queue)
    BY <2>3 DEF OneReservationPerEPC
  <2>5. Sending' = Sending
    BY <2>1 DEF Sending
  <2> HIDE DEF Taking
  <2> QED BY <2>1, <2>3, <2>4, <2>5 DEF OneReservationPerEPC
<1>2. CASE Unqueue(w)
  <2>1. /\ w \in Taking /\ Taking' = Taking \ {w}
        /\ queued' = queued \ {hand[w]}
        /\ UNCHANGED <<queue, pc, cur, hand>>
    BY <1>2, <1>a DEF Unqueue
  <2>2. Sending' = Sending /\ Queue' = Queue
    BY <2>1 DEF Sending, Queue
  <2>3. /\ hand[w] \notin Queue /\ \A t \in Sending : cur[t] # hand[w]
        /\ \A v \in Taking' : hand[v] # hand[w]
    BY <2>1 DEF OneReservationPerEPC
  <2> HIDE DEF Taking
  <2> QED BY <2>1, <2>2, <2>3 DEF OneReservationPerEPC
<1>3. CASE Check(w)
  <2>1. Frame BY <1>3, <1>a DEF Check
  <2> QED BY <1>0, <2>1
<1>4. CASE LockInflight(w)
  <2>1. Frame BY <1>4, <1>a DEF LockInflight
  <2> QED BY <1>0, <2>1
<1>5. CASE SubmitAnswered(w) \/ SubmitFailed(w)
  <2>1. Frame BY <1>5, <1>a DEF SubmitAnswered, SubmitFailed, Answer
  <2> QED BY <1>0, <2>1
<1>6. CASE RemoveCached(w) \/ Retry(w) \/ GiveUp(w) \/ UnlockInflight(w)
  <2>1. Frame BY <1>6, <1>a DEF RemoveCached, Retry, GiveUp, UnlockInflight
  <2> QED BY <1>0, <2>1
<1> QED BY <1>1, <1>2, <1>3, <1>4, <1>5, <1>6 DEF Work

LEMMA ReservationStep ==
  TypeOK /\ OneReservationPerEPC /\ [Next]_vars => OneReservationPerEPC'
<1> SUFFICES ASSUME TypeOK, OneReservationPerEPC, [Next]_vars
             PROVE  OneReservationPerEPC'
  OBVIOUS
<1>1. ASSUME UNCHANGED <<queued, queue, pc, cur, wpc, hand>>
      PROVE  OneReservationPerEPC'
  BY <1>1, ReservationFrame DEF Sending, Taking
<1>2. ASSUME NEW e \in EPCs, CreateDraft(e) \/ LateSubmit(e) \/ Age(e)
      PROVE  OneReservationPerEPC'
  BY <1>1, <1>2 DEF CreateDraft, LateSubmit, Age, serviceVars, threadVars,
     workerVars
<1>3. CASE Restart
  <2>1. queued' = {} /\ queue' = <<>> /\ Sending' = {} /\ Taking' = {}
    BY <1>3 DEF Restart, Sending, Taking
  <2> QED BY <2>1 DEF OneReservationPerEPC, Queue, Range, IsInjective
<1>4. CASE UNCHANGED vars
  BY <1>1, <1>4 DEF vars, threadVars, workerVars
<1>5. Callers \subseteq Threads /\ Ticker \in Threads
  BY DEF Threads
<1> QED BY <1>2, <1>3, <1>4, <1>5, ReservationThread, ReservationWork
        DEF Next, Environment, Call

\* Every reservation has exactly one owner, so none is deleted under another
\* owner's feet and none outlives its owner and blocks the EPC for ever.
THEOREM ReservationsExact == Spec => []OneReservationPerEPC
<1>1. Init => OneReservationPerEPC
  BY DEF Init, ServiceInit, OneReservationPerEPC, Sending, Taking, Queue, Range,
     IsInjective
<1> QED BY <1>1, ReservationStep, TypeInit, TypeStep, PTL DEF Spec

-----------------------------------------------------------------------------
(***************************************************************************)
(* No match is lost silently.  The sets a goroutine works on are empty     *)
(* outside the part of the operation that uses them, so that no step       *)
(* overwrites an EPC that somebody is counted on to enqueue.               *)
(***************************************************************************)
Tidy ==
    \A t \in Threads :
      /\ pc[t] # "reading" => scan[t] = {}
      /\ pc[t] \notin {"replace", "collect"} => arg[t] = {}
      /\ pc[t] \in {"idle", "lookup", "replace", "collect"} => todo[t] = {}

\* A step of one goroutine leaves the sets of the others alone.
LEMMA TidyFrame ==
  ASSUME Tidy, NEW t \in Threads,
         \A s \in Threads \ {t} : /\ pc'[s] = pc[s] /\ scan'[s] = scan[s]
                                 /\ arg'[s] = arg[s] /\ todo'[s] = todo[s],
         pc'[t] # "reading" => scan'[t] = {},
         pc'[t] \notin {"replace", "collect"} => arg'[t] = {},
         pc'[t] \in {"idle", "lookup", "replace", "collect"} => todo'[t] = {}
  PROVE  Tidy'
BY DEF Tidy

LEMMA TidyThread ==
  ASSUME TypeOK, Tidy, NEW t \in Threads, Call(t) \/ Continue(t)
  PROVE  Tidy'
<1> DEFINE Others == \A s \in Threads \ {t} :
                       /\ pc'[s] = pc[s] /\ scan'[s] = scan[s]
                       /\ arg'[s] = arg[s] /\ todo'[s] = todo[s]
           Own == /\ pc'[t] # "reading" => scan'[t] = {}
                  /\ pc'[t] \notin {"replace", "collect"} => arg'[t] = {}
                  /\ pc'[t] \in {"idle", "lookup", "replace", "collect"}
                       => todo'[t] = {}
<1>0. Others /\ Own => Tidy'
  BY TidyFrame
<1>a. /\ pc \in [Threads -> ThreadPc] /\ scan \in [Threads -> SUBSET EPCs]
      /\ arg \in [Threads -> SUBSET EPCs] /\ todo \in [Threads -> SUBSET EPCs]
      /\ pc[t] # "reading" => scan[t] = {}
      /\ pc[t] \notin {"replace", "collect"} => arg[t] = {}
      /\ pc[t] \in {"idle", "lookup", "replace", "collect"} => todo[t] = {}
  BY DEF TypeOK, Tidy
<1> USE DEF Goto, Return
<1>1. ASSUME NEW e \in EPCs, HandleEPC(t, e) PROVE Others /\ Own
  BY <1>1, <1>a DEF HandleEPC
<1>2. ASSUME NEW epcs \in SUBSET EPCs, AddDraftEPCs(t, epcs) PROVE Others /\ Own
  BY <1>2, <1>a DEF AddDraftEPCs
<1>3. ASSUME RefreshCache(t) \/ Replace(t) PROVE Others /\ Own
  BY <1>3, <1>a DEF RefreshCache, Replace
<1>4. ASSUME NEW active \in BOOLEAN, SetScanActive(t, active) PROVE Others /\ Own
  BY <1>4, <1>a DEF SetScanActive
<1>5. ASSUME Lookup(t) PROVE Others /\ Own
  BY <1>5, <1>a DEF Lookup
<1>6. ASSUME Collect(t) PROVE Others /\ Own
  BY <1>6, <1>a DEF Collect
<1>7. ASSUME NEW e \in EPCs, ReadCandidate(t, e) PROVE Others /\ Own
  BY <1>7, <1>a DEF ReadCandidate
<1>8. ASSUME Collected(t) PROVE Others /\ Own
  BY <1>8, <1>a DEF Collected
<1>9. ASSUME Gate(t) \/ Finish(t) PROVE Others /\ Own
  BY <1>9, <1>a DEF Gate, Finish
<1>10. ASSUME NEW e \in EPCs, Refuse(t, e) \/ Reserve(t, e) PROVE Others /\ Own
  BY <1>10, <1>a DEF Refuse, Reserve
<1>11. ASSUME Send(t) \/ Drop(t) PROVE Others /\ Own
  BY <1>11, <1>a DEF Send, Drop
<1> HIDE DEF Others, Own
<1> QED BY <1>0, <1>1, <1>2, <1>3, <1>4, <1>5, <1>6, <1>7, <1>8, <1>9, <1>10,
           <1>11 DEF Call, Continue

LEMMA TidyStep == TypeOK /\ Tidy /\ [Next]_vars => Tidy'
<1> SUFFICES ASSUME TypeOK, Tidy, [Next]_vars PROVE Tidy'
  OBVIOUS
<1>1. ASSUME UNCHANGED threadVars PROVE Tidy'
  BY <1>1 DEF threadVars, Tidy
<1>2. ASSUME NEW w \in Workers, Work(w) PROVE UNCHANGED threadVars
  BY <1>2 DEF Work, Take, Unqueue, Check, LockInflight, SubmitAnswered,
     SubmitFailed, Answer, RemoveCached, Retry, GiveUp, UnlockInflight
<1>3. ASSUME NEW e \in EPCs, CreateDraft(e) \/ LateSubmit(e) \/ Age(e)
      PROVE  UNCHANGED threadVars
  BY <1>3 DEF CreateDraft, LateSubmit, Age, serviceVars
<1>4. CASE Restart
  BY <1>4 DEF Restart, Tidy
<1>5. CASE UNCHANGED vars
  BY <1>1, <1>5 DEF vars
<1>6. Callers \subseteq Threads /\ Ticker \in Threads
  BY DEF Threads
<1> QED BY <1>1, <1>2, <1>3, <1>4, <1>5, <1>6, TidyThread
        DEF Next, Environment, Call

\* What a step of goroutine t has to show about an EPC forgotten after it.
LEMMA LossFrame ==
  ASSUME NEW t \in Threads, NEW e \in EPCs, Forgotten(e)',
         UNCHANGED <<wpc, hand>>,
         \A s \in Threads \ {t} :
           /\ pc'[s] = pc[s] /\ cur'[s] = cur[s] /\ arg'[s] = arg[s]
           /\ scan'[s] = scan[s] /\ todo'[s] = todo[s],
         e \in queued => e \in queued',
         Match(e), ~Noticed(t, e)
  PROVE  Forgotten(e)
<1>1. ~Pending(e)
  BY DEF Forgotten, Pending
<1>2. ASSUME NEW s \in Threads \ {t} PROVE ~Noticed(s, e)
  BY <1>2 DEF Forgotten, Noticed
<1> QED BY <1>1, <1>2 DEF Forgotten

LEMMA LossCall ==
  ASSUME TypeOK, Tidy, NEW t \in Threads, Call(t), NEW e \in EPCs, Forgotten(e)'
  PROVE  Forgotten(e)
<1>a. /\ pc \in [Threads -> ThreadPc] /\ cur \in [Threads -> EPCs \cup {NoEPC}]
      /\ op \in [Threads -> Ops] /\ arg \in [Threads -> SUBSET EPCs]
  BY DEF TypeOK
<1>b. Match(e)' /\ ~Noticed(t, e)'
  BY DEF Forgotten
<1>c. ASSUME pc[t] = "idle" PROVE ~Noticed(t, e) /\ arg[t] = {}
  BY <1>c DEF Tidy, Noticed
<1> USE DEF Goto, workerVars, seenVars
<1>1. ASSUME NEW f \in EPCs, HandleEPC(t, f) PROVE Forgotten(e)
  <2>1. e # f
    BY <1>1, <1>a, <1>b DEF HandleEPC, Match, Noticed
  <2>2. Match(e)
    BY <1>1, <1>b, <2>1 DEF HandleEPC, Match, Fresh
  <2> QED BY <1>1, <1>a, <1>c, <2>2, LossFrame DEF HandleEPC
<1>2. ASSUME NEW epcs \in SUBSET EPCs, AddDraftEPCs(t, epcs) PROVE Forgotten(e)
  <2>1. e \notin epcs
    BY <1>2, <1>a, <1>b DEF AddDraftEPCs, Noticed
  <2>2. Match(e)
    BY <1>2, <1>b, <2>1 DEF AddDraftEPCs, Match, Fresh
  <2> QED BY <1>2, <1>a, <1>c, <2>2, LossFrame DEF AddDraftEPCs
<1>3. ASSUME RefreshCache(t) PROVE Forgotten(e)
  <2>1. Match(e)
    BY <1>3, <1>b DEF RefreshCache, Match, Fresh
  <2> QED BY <1>3, <1>a, <1>c, <2>1, LossFrame DEF RefreshCache
<1>4. ASSUME NEW active \in BOOLEAN, SetScanActive(t, active) PROVE Forgotten(e)
  <2>1. scanActive
    BY <1>4, <1>a, <1>b, <1>c DEF SetScanActive, Match, Noticed
  <2>2. Match(e)
    BY <1>4, <1>b, <2>1 DEF SetScanActive, Match, Fresh
  <2> QED BY <1>4, <1>a, <1>c, <2>1, <2>2, LossFrame DEF SetScanActive
<1> QED BY <1>1, <1>2, <1>3, <1>4 DEF Call

LEMMA LossContinue ==
  ASSUME TypeOK, SessionInv, Tidy, NEW t \in Threads, Continue(t),
         NEW e \in EPCs, Forgotten(e)'
  PROVE  Forgotten(e) \/ QueueFull(e) \/ RefusedBusy(e)
<1>a. /\ pc \in [Threads -> ThreadPc] /\ cur \in [Threads -> EPCs \cup {NoEPC}]
      /\ op \in [Threads -> Ops] /\ arg \in [Threads -> SUBSET EPCs]
      /\ scan \in [Threads -> SUBSET EPCs] /\ todo \in [Threads -> SUBSET EPCs]
  BY DEF TypeOK
<1>b. Match(e)' /\ ~Noticed(t, e)'
  BY DEF Forgotten
<1>c. /\ pc[t] # "reading" => scan[t] = {}
      /\ pc[t] \notin {"replace", "collect"} => arg[t] = {}
      /\ pc[t] \in {"idle", "lookup", "replace", "collect"} => todo[t] = {}
  BY DEF Tidy
<1> USE DEF Goto, Return, workerVars, seenVars
<1>1. CASE Lookup(t)
  <2>1. Match(e)
    BY <1>1, <1>b DEF Lookup, Match, Fresh
  <2>2. ~Noticed(t, e)
    BY <1>1, <1>a, <1>b, <1>c, <2>1 DEF Lookup, Noticed, Match
  <2> QED BY <1>1, <1>a, <2>1, <2>2, LossFrame DEF Lookup
<1>2. CASE Replace(t)
  <2>1. FALSE
    BY <1>2, <1>a, <1>b DEF Replace, Match, Noticed
  <2> QED BY <2>1
<1>3. CASE Collect(t)
  <2>1. Match(e)
    BY <1>3, <1>b DEF Collect, Match, Fresh
  <2>2. ~Noticed(t, e)
    BY <1>3, <1>a, <1>b, <1>c, <2>1 DEF Collect, Noticed, Match
  <2> QED BY <1>3, <1>a, <2>1, <2>2, LossFrame DEF Collect
<1>4. ASSUME NEW f \in EPCs, ReadCandidate(t, f) PROVE Forgotten(e)
  <2>1. Match(e)
    BY <1>4, <1>b DEF ReadCandidate, Match, Fresh
  <2>2. ~Noticed(t, e)
    BY <1>4, <1>a, <1>b, <2>1 DEF ReadCandidate, Noticed, Match
  <2> QED BY <1>4, <1>a, <2>1, <2>2, LossFrame DEF ReadCandidate
<1>5. CASE Collected(t)
  <2>1. Match(e)
    BY <1>5, <1>b DEF Collected, Match, Fresh
  <2>2. ~Noticed(t, e)
    BY <1>5, <1>a, <1>b DEF Collected, Noticed
  <2> QED BY <1>5, <1>a, <2>1, <2>2, LossFrame DEF Collected
<1>6. CASE Gate(t)
  <2>1. Match(e)
    BY <1>6, <1>b DEF Gate, Match, Fresh
  <2>2. ~Noticed(t, e)
    BY <1>6, <1>a, <1>b, <2>1 DEF Gate, Noticed, Match
  <2> QED BY <1>6, <1>a, <2>1, <2>2, LossFrame DEF Gate
<1>7. ASSUME NEW f \in EPCs, Refuse(t, f)
      PROVE  Forgotten(e) \/ RefusedBusy(e)
  <2>1. Match(e)
    BY <1>7, <1>b DEF Refuse, Match, Fresh
  <2>2. CASE e # f
    <3>1. ~Noticed(t, e)
      BY <1>7, <1>a, <1>b, <2>2 DEF Refuse, Noticed
    <3> QED BY <1>7, <1>a, <2>1, <3>1, LossFrame DEF Refuse
  <2>3. CASE e = f
    <3>1. e \in inflight /\ UNCHANGED <<wpc, hand>>
      BY <1>7, <2>3 DEF Refuse, Forgotten, Pending
    <3>2. PICK w \in Workers : hand[w] = e /\ wpc[w] \in {"submit", "reply", "unlock"}
      BY <3>1 DEF SessionInv, InflightExact, InSession
    <3>3. wpc[w] = "unlock"
      BY <3>1, <3>2 DEF Forgotten, Pending
    <3> QED BY <1>7, <2>3, <3>2, <3>3 DEF RefusedBusy, Closing
  <2> QED BY <2>2, <2>3
<1>8. ASSUME NEW f \in EPCs, Reserve(t, f) PROVE Forgotten(e)
  <2>1. Match(e)
    BY <1>8, <1>b DEF Reserve, Match, Fresh
  <2>2. e # f
    BY <1>8 DEF Reserve, Forgotten, Pending
  <2>3. ~Noticed(t, e)
    BY <1>8, <1>a, <1>b, <2>2 DEF Reserve, Noticed
  <2> QED BY <1>8, <1>a, <2>1, <2>3, LossFrame DEF Reserve
<1>9. CASE Send(t)
  <2>1. Match(e)
    BY <1>9, <1>b DEF Send, Match, Fresh
  <2>2. ~Noticed(t, e)
    BY <1>9, <1>a, <1>b DEF Send, Noticed
  <2> QED BY <1>9, <1>a, <2>1, <2>2, LossFrame DEF Send
<1>10. CASE Drop(t)
  <2>1. CASE cur[t] = e
    BY <1>10, <2>1 DEF QueueFull
  <2>2. CASE cur[t] # e
    <3>1. Match(e)
      BY <1>10, <1>b DEF Drop, Match, Fresh
    <3>2. ~Noticed(t, e)
      BY <1>10, <1>a, <1>b DEF Drop, Noticed
    <3> QED BY <1>10, <1>a, <2>2, <3>1, <3>2, LossFrame DEF Drop
  <2> QED BY <2>1, <2>2
<1>11. CASE Finish(t)
  <2>1. Match(e)
    BY <1>11, <1>b DEF Finish, Match, Fresh
  <2>2. ~Noticed(t, e)
    BY <1>11, <1>a, <1>b, <1>c DEF Finish, Noticed
  <2> QED BY <1>11, <1>a, <2>1, <2>2, LossFrame DEF Finish
<1> QED BY <1>1, <1>2, <1>3, <1>4, <1>5, <1>6, <1>7, <1>8, <1>9, <1>10, <1>11
        DEF Continue

LEMMA LossWork ==
  ASSUME TypeOK, SessionInv, NEW w \in Workers, Work(w),
         NEW e \in EPCs, Forgotten(e)'
  PROVE  Forgotten(e) \/ RetriesSpent(e) \/ LockRefused(e)
<1>a. wpc \in [Workers -> WorkerPc] /\ hand \in [Workers -> EPCs \cup {NoEPC}]
  BY DEF TypeOK
<1>b. /\ UNCHANGED <<scanActive, recentSeen, stale, pc, cur, arg, scan, todo>>
      /\ cache' \subseteq cache
  BY DEF Work, Take, Unqueue, Check, LockInflight, SubmitAnswered,
     SubmitFailed, Answer, RemoveCached, Retry, GiveUp, UnlockInflight,
     seenVars, threadVars
<1>c. Match(e) /\ e \in cache' /\ \A t \in Threads : ~Noticed(t, e)
  BY <1>b DEF Forgotten, Match, Fresh, Noticed
<1>0. ~Pending(e) => Forgotten(e)
  BY <1>c DEF Forgotten
<1>d. e \notin queued' /\ \A v \in Workers :
        ~(hand'[v] = e /\ wpc'[v] \in {"check", "lock", "submit", "reply"})
  BY DEF Forgotten, Pending
<1> USE DEF WGoto, Rest
<1>1. CASE Take(w)
  <2>1. ~Pending(e)
    BY <1>1, <1>a, <1>d DEF Take, Pending
  <2> QED BY <1>0, <2>1
<1>2. CASE Unqueue(w)
  <2>1. ~Pending(e)
    BY <1>2, <1>a, <1>d DEF Unqueue, Pending
  <2> QED BY <1>0, <2>1
<1>3. CASE Check(w)
  <2>1. ~Pending(e)
    BY <1>3, <1>a, <1>c, <1>d DEF Check, Pending, Match
  <2> QED BY <1>0, <2>1
<1>4. CASE LockInflight(w)
  <2>1. CASE hand[w] = e
    <3>1. e \in inflight
      BY <1>4, <1>a, <1>d, <2>1 DEF LockInflight
    <3>2. PICK v \in Workers : hand[v] = e /\ wpc[v] \in {"submit", "reply", "unlock"}
      BY <3>1 DEF SessionInv, InflightExact, InSession
    <3>3. wpc[v] = "unlock"
      BY <1>4, <1>a, <1>d, <3>1, <2>1, <3>2 DEF LockInflight
    <3> QED BY <1>4, <2>1, <3>2, <3>3 DEF LockRefused, Closing
  <2>2. CASE hand[w] # e
    <3>1. ~Pending(e)
      BY <1>4, <1>a, <1>d, <2>2 DEF LockInflight, Pending
    <3> QED BY <1>0, <3>1
  <2> QED BY <2>1, <2>2
<1>5. CASE SubmitAnswered(w) \/ SubmitFailed(w)
  <2>1. ~Pending(e)
    BY <1>5, <1>a, <1>d DEF SubmitAnswered, SubmitFailed, Answer, Pending
  <2> QED BY <1>0, <2>1
<1>6. CASE RemoveCached(w)
  <2>1. ~Pending(e)
    BY <1>6, <1>a, <1>c, <1>d DEF RemoveCached, Pending
  <2> QED BY <1>0, <2>1
<1>7. CASE Retry(w)
  <2>1. ~Pending(e)
    BY <1>7, <1>a, <1>d DEF Retry, Pending
  <2> QED BY <1>0, <2>1
<1>8. CASE GiveUp(w)
  <2>1. CASE hand[w] = e
    BY <1>8, <2>1 DEF RetriesSpent
  <2>2. CASE hand[w] # e
    <3>1. ~Pending(e)
      BY <1>8, <1>a, <1>d, <2>2 DEF GiveUp, Pending
    <3> QED BY <1>0, <3>1
  <2> QED BY <2>1, <2>2
<1>9. CASE UnlockInflight(w)
  <2>1. ~Pending(e)
    BY <1>9, <1>a, <1>d DEF UnlockInflight, Pending
  <2> QED BY <1>0, <2>1
<1> QED BY <1>1, <1>2, <1>3, <1>4, <1>5, <1>6, <1>7, <1>8, <1>9 DEF Work

LEMMA LossStep ==
  TypeOK /\ SessionInv /\ Tidy /\ [Next]_vars => [LossExplained]_vars
<1> SUFFICES ASSUME TypeOK, SessionInv, Tidy, Next,
                    NEW e \in EPCs, Forgotten(e)'
             PROVE  \/ Forgotten(e) \/ QueueFull(e) \/ RetriesSpent(e)
                    \/ RefusedBusy(e) \/ LockRefused(e)
  BY DEF LossExplained
<1>1. ASSUME NEW f \in EPCs, CreateDraft(f) \/ LateSubmit(f) \/ Age(f)
      PROVE  Forgotten(e)
  <2>1. /\ UNCHANGED <<scanActive, cache, queued, wpc, hand, pc, cur, arg,
                       scan, todo>>
        /\ Fresh' \subseteq Fresh
    BY <1>1 DEF CreateDraft, LateSubmit, Age, serviceVars, seenVars, Fresh,
       threadVars, workerVars
  <2> QED BY <2>1 DEF Forgotten, Match, Pending, Noticed
<1>2. CASE Restart
  <2>1. FALSE
    BY <1>2 DEF Restart, Forgotten, Match, Fresh
  <2> QED BY <2>1
<1>3. Callers \subseteq Threads /\ Ticker \in Threads
  BY DEF Threads
<1> QED BY <1>1, <1>2, <1>3, LossCall, LossContinue, LossWork
        DEF Next, Environment, Call

\* Whatever the interleaving, a match is forgotten only by a full queue, by
\* spent retries or by a refusal while its previous session is being closed.
THEOREM NoMatchLostSilently == Spec => NoSilentLoss
<1>1. Init => SessionInv /\ Tidy
  BY DEF Init, ServiceInit, SessionInv, InflightExact, OneSessionPerEPC,
     InSession, Tidy
<1> QED BY <1>1, TypeInit, TypeStep, SessionStep, TidyStep, LossStep, PTL
        DEF Spec, NoSilentLoss

-----------------------------------------------------------------------------
(***************************************************************************)
(* The matcher implements DraftClosing: the initial states map to initial  *)
(* states, and every step maps to a step or a stutter.  It needs that      *)
(* inflight is exact and that only read EPCs are on their way.             *)
(***************************************************************************)

HInv == TypeOK /\ SessionInv /\ OnlyReadEPCs

LEMMA HInvInit == HInit => HInv
<1> SUFFICES ASSUME HInit PROVE HInv
  OBVIOUS
<1>1. TypeOK
  BY TypeInit DEF HInit
<1>2. SessionInv
  BY DEF HInit, Init, ServiceInit, SessionInv, InflightExact,
     OneSessionPerEPC, InSession
<1>3. OnlyReadEPCs
  BY DEF HInit, Init, ServiceInit, OnlyReadEPCs, Queue, Range
<1> QED BY <1>1, <1>2, <1>3 DEF HInv

-----------------------------------------------------------------------------
(***************************************************************************)
(* Only read EPCs are on their way.                                        *)
(***************************************************************************)
LEMMA OnlyReadThread ==
  ASSUME TypeOK, OnlyReadEPCs, NEW t \in Threads, Call(t) \/ Continue(t),
         read' = read \cup recentSeen'
  PROVE  OnlyReadEPCs'
<1> USE DEF Goto, Return, workerVars, seenVars, Queue
<1>a. /\ pc \in [Threads -> ThreadPc] /\ cur \in [Threads -> EPCs \cup {NoEPC}]
      /\ scan \in [Threads -> SUBSET EPCs] /\ todo \in [Threads -> SUBSET EPCs]
      /\ recentSeen \subseteq EPCs /\ stale \subseteq recentSeen
      /\ \A s \in Threads : pc[s] \in {"lookup", "send", "drop"} => cur[s] \in EPCs
  BY DEF TypeOK
<1>1. ASSUME NEW e \in EPCs, HandleEPC(t, e) PROVE OnlyReadEPCs'
  BY <1>1, <1>a DEF HandleEPC, Fresh, OnlyReadEPCs
<1>2. ASSUME NEW epcs \in SUBSET EPCs, AddDraftEPCs(t, epcs) PROVE OnlyReadEPCs'
  BY <1>2 DEF AddDraftEPCs, OnlyReadEPCs
<1>3. CASE RefreshCache(t) \/ Replace(t)
  BY <1>3 DEF RefreshCache, Replace, OnlyReadEPCs
<1>4. ASSUME NEW active \in BOOLEAN, SetScanActive(t, active) PROVE OnlyReadEPCs'
  BY <1>4 DEF SetScanActive, OnlyReadEPCs
<1>5. CASE Lookup(t)
  <2>1. cur[t] \in read
    BY <1>5, <1>a, NoEPCAssumption DEF Lookup, OnlyReadEPCs
  <2>2. \A s \in Threads : todo'[s] \subseteq todo[s] \cup {cur[t]}
    BY <1>5, <1>a DEF Lookup
  <2>3. \A s \in Threads : cur'[s] = cur[s] \/ cur'[s] = NoEPC
    BY <1>5, <1>a DEF Lookup
  <2> QED BY <1>5, <2>1, <2>2, <2>3 DEF Lookup, OnlyReadEPCs
<1>6. CASE Collect(t)
  <2>1. scan' = [scan EXCEPT ![t] = scan'[t]] /\ scan'[t] \subseteq recentSeen
    BY <1>6, <1>a DEF Collect, Fresh
  <2>2. \A s \in Threads : scan'[s] \subseteq read
    BY <2>1, <1>a DEF OnlyReadEPCs
  <2> QED BY <1>6, <2>2, <1>a DEF Collect, Fresh, OnlyReadEPCs
<1>7. ASSUME NEW e \in EPCs, ReadCandidate(t, e) PROVE OnlyReadEPCs'
  <2>1. \A s \in Threads : /\ scan'[s] \subseteq scan[s]
                           /\ todo'[s] \subseteq todo[s] \cup scan[s]
    BY <1>7, <1>a DEF ReadCandidate
  <2> QED BY <1>7, <2>1 DEF ReadCandidate, OnlyReadEPCs
<1>8. CASE Collected(t)
  BY <1>8 DEF Collected, OnlyReadEPCs
<1>9. CASE Gate(t) \/ Finish(t)
  <2>1. \A s \in Threads : todo'[s] \subseteq todo[s]
    BY <1>9, <1>a DEF Gate, Finish
  <2> QED BY <1>9, <2>1 DEF Gate, Finish, OnlyReadEPCs
<1>10. ASSUME NEW e \in EPCs, Refuse(t, e) PROVE OnlyReadEPCs'
  <2>1. \A s \in Threads : todo'[s] \subseteq todo[s]
    BY <1>10, <1>a DEF Refuse
  <2> QED BY <1>10, <2>1 DEF Refuse, OnlyReadEPCs
<1>11. ASSUME NEW e \in EPCs, Reserve(t, e) PROVE OnlyReadEPCs'
  <2>1. e \in read
    BY <1>11 DEF Reserve, OnlyReadEPCs
  <2>2. \A s \in Threads : /\ todo'[s] \subseteq todo[s]
                           /\ cur'[s] = cur[s] \/ cur'[s] = e
    BY <1>11, <1>a DEF Reserve
  <2> QED BY <1>11, <2>1, <2>2 DEF Reserve, OnlyReadEPCs
<1>12. CASE Send(t)
  <2>1. cur[t] \in read /\ cur[t] \in EPCs /\ queue \in Seq(EPCs)
    BY <1>12, <1>a, NoEPCAssumption DEF Send, OnlyReadEPCs, TypeOK
  <2>2. Queue' \subseteq Queue \cup {cur[t]}
    <3>1. Range(Append(queue, cur[t])) = Range(queue) \cup {cur[t]}
      BY <2>1, AppendEntries
    <3>2. queue' = Append(queue, cur[t]) \/ queue' = queue
      BY <1>12 DEF Send
    <3> QED BY <3>1, <3>2
  <2>3. \A s \in Threads : cur'[s] = cur[s] \/ cur'[s] = NoEPC
    BY <1>12, <1>a DEF Send
  <2> HIDE DEF Queue
  <2> QED BY <1>12, <2>1, <2>2, <2>3 DEF Send, OnlyReadEPCs
<1>13. CASE Drop(t)
  <2>1. \A s \in Threads : cur'[s] = cur[s] \/ cur'[s] = NoEPC
    BY <1>13, <1>a DEF Drop
  <2> QED BY <1>13, <2>1 DEF Drop, OnlyReadEPCs
<1> QED BY <1>1, <1>2, <1>3, <1>4, <1>5, <1>6, <1>7, <1>8, <1>9, <1>10, <1>11,
           <1>12, <1>13 DEF Call, Continue

LEMMA OnlyReadWork ==
  ASSUME TypeOK, OnlyReadEPCs, NEW w \in Workers, Work(w),
         read' = read \cup recentSeen'
  PROVE  OnlyReadEPCs'
<1> USE DEF WGoto, Rest, Answer, threadVars, seenVars
<1>a. hand \in [Workers -> EPCs \cup {NoEPC}]
  BY DEF TypeOK
<1>1. CASE Take(w)
  <2>1. queue \in Seq(EPCs) /\ queue # <<>>
    BY <1>1 DEF Take, TypeOK
  <2>2. Queue = {Head(queue)} \cup Queue'
    BY <1>1, <2>1, HeadTailEntries DEF Take, Queue
  <2>3. \A v \in Workers : hand'[v] = hand[v] \/ hand'[v] = Head(queue)
    BY <1>1, <1>a DEF Take
  <2> QED BY <1>1, <2>2, <2>3 DEF Take, OnlyReadEPCs
<1>2. CASE Unqueue(w)
  BY <1>2 DEF Unqueue, OnlyReadEPCs, Queue
<1>3. CASE Check(w)
  <2>1. \A v \in Workers : hand'[v] = hand[v] \/ hand'[v] = NoEPC
    BY <1>3, <1>a DEF Check
  <2> QED BY <1>3, <2>1 DEF Check, OnlyReadEPCs, Queue
<1>4. CASE LockInflight(w)
  <2>1. wpc[w] = "lock" => hand[w] \in read
    BY NoEPCAssumption DEF TypeOK, OnlyReadEPCs
  <2>2. \A v \in Workers : hand'[v] = hand[v] \/ hand'[v] = NoEPC
    BY <1>4, <1>a DEF LockInflight
  <2> QED BY <1>4, <2>1, <2>2 DEF LockInflight, OnlyReadEPCs, Queue
<1>5. CASE SubmitAnswered(w) \/ SubmitFailed(w)
  BY <1>5 DEF SubmitAnswered, SubmitFailed, OnlyReadEPCs, Queue
<1>6. CASE RemoveCached(w) \/ Retry(w) \/ GiveUp(w)
  BY <1>6 DEF RemoveCached, Retry, GiveUp, OnlyReadEPCs, Queue
<1>7. CASE UnlockInflight(w)
  <2>1. \A v \in Workers : hand'[v] = hand[v] \/ hand'[v] = NoEPC
    BY <1>7, <1>a DEF UnlockInflight
  <2> QED BY <1>7, <2>1 DEF UnlockInflight, OnlyReadEPCs, Queue
<1> QED BY <1>1, <1>2, <1>3, <1>4, <1>5, <1>6, <1>7 DEF Work

LEMMA HInvStep == HInv /\ [HNext]_hvars => HInv'
<1> SUFFICES ASSUME HInv, [HNext]_hvars PROVE HInv'
  OBVIOUS
<1>1. [Next]_vars
  BY DEF HNext, hvars
<1>2. TypeOK' /\ SessionInv'
  BY <1>1, TypeStep, SessionStep DEF HInv
<1>3. ASSUME HNext PROVE OnlyReadEPCs'
  <2>1. read' = read \cup recentSeen'
    BY <1>3 DEF HNext
  <2>2. ASSUME NEW e \in EPCs, CreateDraft(e) \/ LateSubmit(e) \/ Age(e)
        PROVE  OnlyReadEPCs'
    BY <2>1, <2>2 DEF CreateDraft, LateSubmit, Age, serviceVars, seenVars,
       threadVars, workerVars, HInv, OnlyReadEPCs, Queue
  <2>3. CASE Restart
    BY <2>1, <2>3 DEF Restart, OnlyReadEPCs, Queue, Range
  <2>4. Callers \subseteq Threads /\ Ticker \in Threads
    BY DEF Threads
  <2> QED BY <1>3, <2>1, <2>2, <2>3, <2>4, OnlyReadThread, OnlyReadWork
          DEF HNext, Next, Environment, Call, HInv
<1>4. ASSUME UNCHANGED hvars PROVE OnlyReadEPCs'
  BY <1>4 DEF hvars, vars, seenVars, threadVars, workerVars, HInv,
     OnlyReadEPCs, Queue
<1> QED BY <1>2, <1>3, <1>4 DEF HInv

\* No EPC is on its way to the ERP unless the reader has delivered it.
THEOREM OnlyReadEPCsAreSubmitted == HSpec => []OnlyReadEPCs
BY HInvInit, HInvStep, PTL DEF HSpec, HInv

-----------------------------------------------------------------------------
(***************************************************************************)
(* Every step is a step of DraftClosing, or changes nothing it sees.       *)
(***************************************************************************)
LEMMA RefineInit == HInit => Promise!Init
BY DEF HInit, Init, ServiceInit, Promise!Init

LEMMA RefineThread ==
  ASSUME HInv, NEW t \in Threads, Call(t) \/ Continue(t),
         read' = read \cup recentSeen'
  PROVE  [Promise!Next]_(Promise!vars)
<1>1. Fresh \subseteq read /\ recentSeen \subseteq read
  BY DEF HInv, OnlyReadEPCs, Fresh
<1>2. UNCHANGED <<drafts, late, inflight>>
  BY DEF Call, HandleEPC, AddDraftEPCs, RefreshCache, SetScanActive, Continue,
     Lookup, Replace, Collect, ReadCandidate, Collected, Gate, Refuse, Reserve,
     Send, Drop, Finish, erpVars
<1>3. CASE \E e \in EPCs : recentSeen' = Fresh \cup {e}
  <2>1. PICK e \in EPCs : recentSeen' = Fresh \cup {e}
    BY <1>3
  <2>2. Promise!Read(e)
    BY <1>1, <1>2, <2>1 DEF Promise!Read
  <2> QED BY <2>2 DEF Promise!Next
<1>4. CASE recentSeen' \subseteq recentSeen
  BY <1>1, <1>2, <1>4 DEF Promise!vars
<1>5. \/ \E e \in EPCs : recentSeen' = Fresh \cup {e}
      \/ recentSeen' \subseteq recentSeen
  BY DEF Call, HandleEPC, AddDraftEPCs, RefreshCache, SetScanActive, Continue,
     Lookup, Replace, Collect, ReadCandidate, Collected, Gate, Refuse, Reserve,
     Send, Drop, Finish, seenVars, Fresh
<1> QED BY <1>3, <1>4, <1>5

LEMMA RefineWork ==
  ASSUME HInv, NEW w \in Workers, Work(w), read' = read \cup recentSeen'
  PROVE  [Promise!Next]_(Promise!vars)
<1> USE DEF erpVars, seenVars
<1>1. ASSUME recentSeen' = recentSeen PROVE read' = read
  BY <1>1 DEF HInv, OnlyReadEPCs
<1>2. ASSUME wpc[w] # "idle" PROVE hand[w] \in EPCs /\ hand[w] \in read
  BY <1>2, NoEPCAssumption DEF HInv, TypeOK, OnlyReadEPCs
<1>3. ASSUME wpc[w] \in {"submit", "reply", "unlock"} PROVE hand[w] \in inflight
  BY <1>3 DEF HInv, SessionInv, InflightExact, InSession
<1>4. CASE Take(w) \/ Unqueue(w) \/ Check(w)
  BY <1>1, <1>4 DEF Take, Unqueue, Check, Promise!vars
<1>5. CASE LockInflight(w)
  <2>1. CASE hand[w] \in inflight
    BY <1>1, <1>5, <2>1 DEF LockInflight, Promise!vars
  <2>2. CASE hand[w] \notin inflight
    <3>1. Promise!Begin(hand[w]) /\ hand[w] \in EPCs
      BY <1>1, <1>2, <1>5, <2>2 DEF LockInflight, Promise!Begin
    <3> QED BY <3>1 DEF Promise!Next
  <2> QED BY <2>1, <2>2
<1>6. CASE SubmitAnswered(w)
  <2>1. hand[w] \in EPCs /\ hand[w] \in inflight /\ read' = read
    BY <1>1, <1>2, <1>3, <1>6 DEF SubmitAnswered, Answer
  <2>2. drafts' = drafts \ {hand[w]} /\ UNCHANGED <<late, inflight>>
    BY <1>6 DEF SubmitAnswered, Answer
  <2>3. Promise!Close(hand[w])
    BY <2>1, <2>2 DEF Promise!Close
  <2> QED BY <2>1, <2>3 DEF Promise!Next
<1>7. CASE SubmitFailed(w)
  <2>1. hand[w] \in EPCs /\ hand[w] \in inflight /\ read' = read
    BY <1>1, <1>2, <1>3, <1>7 DEF SubmitFailed, Answer
  <2>2. Promise!Abandon(hand[w]) \/ UNCHANGED Promise!vars
    BY <1>7, <2>1 DEF SubmitFailed, Answer, Promise!Abandon, Promise!vars
  <2> QED BY <2>1, <2>2 DEF Promise!Next
<1>8. CASE RemoveCached(w) \/ Retry(w) \/ GiveUp(w)
  BY <1>1, <1>8 DEF RemoveCached, Retry, GiveUp, Promise!vars
<1>9. CASE UnlockInflight(w)
  <2>1. hand[w] \in EPCs /\ Promise!End(hand[w])
    BY <1>1, <1>2, <1>3, <1>9 DEF UnlockInflight, Promise!End
  <2> QED BY <2>1 DEF Promise!Next
<1> QED BY <1>4, <1>5, <1>6, <1>7, <1>8, <1>9 DEF Work

LEMMA RefineEnvironment ==
  ASSUME HInv, Environment, read' = read \cup recentSeen'
  PROVE  [Promise!Next]_(Promise!vars)
<1>1. recentSeen' \subseteq recentSeen => read' = read
  BY DEF HInv, OnlyReadEPCs
<1>2. ASSUME NEW e \in EPCs, CreateDraft(e)
      PROVE  [Promise!Next]_(Promise!vars)
  <2>1. Promise!Open(e)
    BY <1>1, <1>2 DEF CreateDraft, seenVars, serviceVars, Promise!Open
  <2> QED BY <2>1 DEF Promise!Next
<1>3. ASSUME NEW e \in EPCs, LateSubmit(e)
      PROVE  [Promise!Next]_(Promise!vars)
  <2>1. Promise!LateClose(e)
    BY <1>1, <1>3 DEF LateSubmit, seenVars, serviceVars, Promise!LateClose
  <2> QED BY <2>1 DEF Promise!Next
<1>4. ASSUME NEW e \in EPCs, Age(e) PROVE UNCHANGED Promise!vars
  BY <1>1, <1>4 DEF Age, erpVars, serviceVars, Promise!vars
<1>5. CASE Restart
  <2>1. {hand[w] : w \in {v \in Workers : wpc[v] = "submit"}} \subseteq inflight
    BY DEF HInv, SessionInv, InflightExact, InSession
  <2>2. Promise!Crash
    BY <1>1, <1>5, <2>1 DEF Restart, Promise!Crash
  <2> QED BY <2>2 DEF Promise!Next
<1> QED BY <1>2, <1>3, <1>4, <1>5 DEF Environment

LEMMA RefineStep == HInv /\ [HNext]_hvars => [Promise!Next]_(Promise!vars)
<1> SUFFICES ASSUME HInv, [HNext]_hvars PROVE [Promise!Next]_(Promise!vars)
  OBVIOUS
<1>1. CASE HNext
  <2>1. Callers \subseteq Threads /\ Ticker \in Threads
    BY DEF Threads
  <2> QED BY <1>1, <2>1, RefineThread, RefineWork, RefineEnvironment
          DEF HNext, Next, Call
<1>2. CASE UNCHANGED hvars
  BY <1>2 DEF hvars, vars, erpVars, Promise!vars
<1> QED BY <1>1, <1>2

\* The service closes drafts only for tags that were read and only inside the
\* one session of the tag, for any number of workers, callers and EPCs.
THEOREM Refinement == HSpec => ImplementsDraftClosing
BY RefineInit, RefineStep, HInvInit, HInvStep, PTL
   DEF HSpec, ImplementsDraftClosing, Promise!Spec
-----------------------------------------------------------------------------
(***************************************************************************)
(* Open drafts stay in the cache.  What a refresh is about to write, and   *)
(* what a worker is about to remove, is wrong only about drafts opened     *)
(* since the answer.                                                       *)
(***************************************************************************)
FetchKnown ==
    \A t \in Threads : pc[t] = "replace" => drafts \ arg[t] \subseteq sinceFetch[t]

ReplyKnown ==
    \A w \in Workers :
      wpc[w] = "reply" /\ reply[w] \in {"submitted", "not_found"} /\ hand[w] \in drafts =>
        hand[w] \in sinceReply[w]

AnswerInv == TypeOK /\ FetchKnown /\ ReplyKnown

\* A goroutine about to write a list has just fetched it, or keeps it.
LEMMA FetchFrame ==
  ASSUME TypeOK, Next, NEW t \in Threads, pc'[t] = "replace"
  PROVE  \/ pc[t] = "replace" /\ arg'[t] = arg[t]
         \/ arg'[t] = drafts /\ drafts' = drafts
<1> USE DEF TypeOK, Goto, Return, erpVars, threadVars
<1>1. ASSUME NEW u \in Threads, Call(u)
      PROVE  \/ pc[t] = "replace" /\ arg'[t] = arg[t]
             \/ arg'[t] = drafts /\ drafts' = drafts
  <2>1. CASE RefreshCache(u)
    BY <2>1 DEF RefreshCache
  <2>2. CASE ~RefreshCache(u)
    BY <1>1, <2>2 DEF Call, HandleEPC, AddDraftEPCs, SetScanActive
  <2> QED BY <2>1, <2>2
<1>2. ASSUME NEW u \in Threads, Continue(u)
      PROVE  pc[t] = "replace" /\ arg'[t] = arg[t]
  <2>1. CASE Lookup(u) \/ Replace(u) \/ Collect(u)
    BY <2>1 DEF Lookup, Replace, Collect
  <2>2. CASE Collected(u) \/ Gate(u) \/ Send(u)
    BY <2>2 DEF Collected, Gate, Send
  <2>3. CASE Drop(u) \/ Finish(u)
    BY <2>3 DEF Drop, Finish
  <2>4. ASSUME NEW e \in EPCs, ReadCandidate(u, e) \/ Refuse(u, e) \/ Reserve(u, e)
        PROVE  pc[t] = "replace" /\ arg'[t] = arg[t]
    BY <2>4 DEF ReadCandidate, Refuse, Reserve
  <2> QED BY <1>2, <2>1, <2>2, <2>3, <2>4 DEF Continue
<1>3. ASSUME NEW w \in Workers, Work(w) PROVE pc[t] = "replace" /\ arg'[t] = arg[t]
  BY <1>3 DEF Work, Take, Unqueue, Check, LockInflight, SubmitAnswered, SubmitFailed,
     Answer, RemoveCached, Retry, GiveUp, UnlockInflight
<1>4. CASE Environment
  BY <1>4 DEF Environment, CreateDraft, LateSubmit, Age, Restart, serviceVars
<1> QED BY <1>1, <1>2, <1>3, <1>4 DEF Next, Call, Threads

\* A worker with a final answer has just closed the draft or found none, or has
\* had the answer before.
LEMMA ReplyFrame ==
  ASSUME TypeOK, Next, NEW w \in Workers, wpc'[w] = "reply"
  PROVE  \/ wpc[w] = "reply" /\ hand'[w] = hand[w] /\ reply'[w] = reply[w]
         \/ reply'[w] \in {"submitted", "not_found"} => hand'[w] \notin drafts'
<1> USE DEF TypeOK, WGoto, Rest, erpVars, workerVars
<1>1. ASSUME NEW t \in Threads, Call(t) \/ Continue(t)
      PROVE  wpc[w] = "reply" /\ hand'[w] = hand[w] /\ reply'[w] = reply[w]
  BY <1>1 DEF Call, HandleEPC, AddDraftEPCs, RefreshCache, SetScanActive, Continue,
     Lookup, Replace, Collect, ReadCandidate, Collected, Gate, Refuse, Reserve, Send,
     Drop, Finish
<1>2. ASSUME NEW v \in Workers, Work(v)
      PROVE  \/ wpc[w] = "reply" /\ hand'[w] = hand[w] /\ reply'[w] = reply[w]
             \/ reply'[w] \in {"submitted", "not_found"} => hand'[w] \notin drafts'
  <2>1. CASE SubmitAnswered(v) \/ SubmitFailed(v)
    BY <2>1 DEF SubmitAnswered, SubmitFailed, Answer
  <2>2. CASE Take(v) \/ Unqueue(v) \/ Check(v) \/ LockInflight(v)
    BY <2>2 DEF Take, Unqueue, Check, LockInflight
  <2>3. CASE RemoveCached(v) \/ Retry(v) \/ GiveUp(v) \/ UnlockInflight(v)
    BY <2>3 DEF RemoveCached, Retry, GiveUp, UnlockInflight
  <2> QED BY <1>2, <2>1, <2>2, <2>3 DEF Work
<1>3. CASE Environment
  BY <1>3 DEF Environment, CreateDraft, LateSubmit, Age, Restart, serviceVars
<1> QED BY <1>1, <1>2, <1>3 DEF Next, Call, Threads

LEMMA AnswerStep == AnswerInv /\ [HNext]_hvars => AnswerInv'
<1> SUFFICES ASSUME AnswerInv, [HNext]_hvars PROVE AnswerInv'
  OBVIOUS
<1> USE DEF AnswerInv
<1>1. TypeOK'
  BY TypeStep DEF HNext, hvars
<1>2. CASE UNCHANGED hvars
  BY <1>1, <1>2 DEF hvars, vars, erpVars, threadVars, workerVars, FetchKnown, ReplyKnown
<1>3. CASE HNext
  <2>1. FetchKnown'
    <3> SUFFICES ASSUME NEW t \in Threads, pc'[t] = "replace"
                 PROVE  drafts' \ arg'[t] \subseteq sinceFetch'[t]
      BY DEF FetchKnown
    <3>1. \/ pc[t] = "replace" /\ arg'[t] = arg[t]
          \/ arg'[t] = drafts /\ drafts' = drafts
      BY <1>3, FetchFrame DEF HNext
    <3>2. pc[t] = "replace" => sinceFetch'[t] = sinceFetch[t] \cup (drafts' \ drafts)
      BY <1>3 DEF HNext, Opened
    <3> QED BY <3>1, <3>2 DEF FetchKnown
  <2>2. ReplyKnown'
    <3> SUFFICES ASSUME NEW w \in Workers, wpc'[w] = "reply",
                        reply'[w] \in {"submitted", "not_found"}, hand'[w] \in drafts'
                 PROVE  hand'[w] \in sinceReply'[w]
      BY DEF ReplyKnown
    <3>1. wpc[w] = "reply" /\ hand'[w] = hand[w] /\ reply'[w] = reply[w]
      BY <1>3, ReplyFrame DEF HNext
    <3>2. sinceReply'[w] = sinceReply[w] \cup (drafts' \ drafts)
      BY <1>3, <3>1 DEF HNext, Opened
    <3> QED BY <3>1, <3>2 DEF ReplyKnown
  <2> QED BY <1>1, <2>1, <2>2
<1> QED BY <1>2, <1>3

LEMMA AnswerInit == HInit => AnswerInv
<1> SUFFICES ASSUME HInit PROVE AnswerInv
  OBVIOUS
<1>1. TypeOK
  BY TypeInit DEF HInit
<1>2. FetchKnown /\ ReplyKnown
  BY DEF HInit, Init, ServiceInit, FetchKnown, ReplyKnown
<1> QED BY <1>1, <1>2 DEF AnswerInv

\* Only Replace, RemoveCached and a restart take an EPC out of the cache.
LEMMA CacheShrinks ==
  ASSUME TypeOK, Next, NEW e \in cache, e \notin cache'
  PROVE  \/ Restart
         \/ \E t \in Threads : Replace(t) /\ e \notin arg[t]
         \/ \E w \in Workers : RemoveCached(w) /\ hand[w] = e
<1>1. ASSUME NEW t \in Threads, Call(t) PROVE FALSE
  BY <1>1 DEF Call, HandleEPC, AddDraftEPCs, RefreshCache, SetScanActive
<1>2. ASSUME NEW t \in Threads, Continue(t) PROVE Replace(t) /\ e \notin arg[t]
  BY <1>2 DEF Continue, Lookup, Replace, Collect, ReadCandidate, Collected, Gate,
     Refuse, Reserve, Send, Drop, Finish
<1>3. ASSUME NEW w \in Workers, Work(w) PROVE RemoveCached(w) /\ hand[w] = e
  BY <1>3 DEF Work, Take, Unqueue, Check, LockInflight, SubmitAnswered, SubmitFailed,
     Answer, RemoveCached, Retry, GiveUp, UnlockInflight
<1>4. CASE Environment
  BY <1>4 DEF Environment, CreateDraft, LateSubmit, Age, serviceVars
<1> QED BY <1>1, <1>2, <1>3, <1>4 DEF Next, Call, Threads

LEMMA DraftKeptStep ==
  ASSUME AnswerInv, [HNext]_hvars, NEW e \in cache \cap drafts, e \notin cache'
  PROVE  \/ Restart
         \/ \E t \in Threads : Replace(t) /\ e \in sinceFetch[t]
         \/ \E w \in Workers : RemoveCached(w) /\ hand[w] = e /\ e \in sinceReply[w]
<1>1. Next
  BY DEF HNext, hvars, vars
<1>2. \A t \in Threads : Replace(t) /\ e \notin arg[t] => e \in sinceFetch[t]
  BY DEF AnswerInv, FetchKnown, Replace
<1>3. \A w \in Workers : RemoveCached(w) /\ hand[w] = e => e \in sinceReply[w]
  BY DEF AnswerInv, ReplyKnown, RemoveCached
<1> QED BY <1>1, <1>2, <1>3, CacheShrinks DEF AnswerInv

\* A draft that was open when the ERP answered stays in the cache, for any number
\* of goroutines that fetch and submit at once.
THEOREM OpenDraftsKept == HSpec => OpenDraftKept
<1>1. AnswerInv /\ [HNext]_hvars =>
        [\A e \in cache \cap drafts :
           e \notin cache' =>
             \/ Restart
             \/ \E t \in Threads : Replace(t) /\ e \in sinceFetch[t]
             \/ \E w \in Workers :
                  RemoveCached(w) /\ hand[w] = e /\ e \in sinceReply[w]]_hvars
  BY DraftKeptStep
<1>2. QED
  BY <1>1, AnswerInit, AnswerStep, PTL DEF HSpec, OpenDraftKept
=============================================================================
