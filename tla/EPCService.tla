----------------------------- MODULE EPCService -----------------------------
(***************************************************************************)
(* The EPC matcher of the RFID bot (internal/gobot/service, with the cache *)
(* of internal/gobot/cache and the ERP client of internal/gobot/erp).      *)
(*                                                                         *)
(* Reader events, draft webhooks, cache refreshes and scan commands arrive *)
(* on request goroutines (Callers); the periodic refresh runs on one       *)
(* goroutine of its own (Ticker).  They meet the worker goroutines in the  *)
(* cache, in the fields guarded by s.mu and in the bounded channel queue.  *)
(*                                                                         *)
(* Atomicity: one action per critical section, cache call, channel         *)
(* operation or ERP call.  A critical section that calls nothing is one    *)
(* step taken while s.mu is free; collectReplayCandidates calls cache.Has  *)
(* while it holds s.mu, so its section is several steps and mu names the   *)
(* holder.                                                                 *)
(*                                                                         *)
(* Left out: the counters of Stats, log lines and notification texts       *)
(* (reported, never read back by the service).  EPCs are normalised names; *)
(* the empty EPC is refused before any state changes.                      *)
(***************************************************************************)
EXTENDS Naturals, Sequences, FiniteSets

CONSTANTS
    EPCs,              \* normalised tag codes
    Workers,           \* submit workers (cfg.WorkerCount of them)
    Callers,           \* goroutines of IPC, HTTP, Telegram and reader callbacks
    Ticker,            \* the goroutine of refreshLoop
    Nobody,            \* no goroutine holds s.mu
    NoEPC,             \* no EPC in hand
    QueueSize,         \* cfg.QueueSize
    SubmitRetry,       \* cfg.SubmitRetry
    ScanDefaultActive  \* cfg.ScanDefaultActive

Threads == Callers \cup {Ticker}

ASSUME NobodyAssumption == Nobody \notin Threads
ASSUME NoEPCAssumption == NoEPC \notin EPCs
ASSUME QueueSizeAssumption == QueueSize \in Nat
ASSUME SubmitRetryAssumption == SubmitRetry \in Nat
ASSUME ScanDefaultAssumption == ScanDefaultActive \in BOOLEAN

VARIABLES
    drafts,      \* ERP: EPCs with an open draft
    late,        \* ERP: submits the client gave up on, still to be executed
    cache,       \* cache.Store.epcs
    scanActive,  \* s.scanActive
    queued,      \* s.queued
    inflight,    \* s.inflight
    recentSeen,  \* keys of s.recentSeen
    stale,       \* those of recentSeen last seen more than RecentSeenTTL ago
    queue,       \* s.queue
    mu,          \* goroutine inside collectReplayCandidates, or Nobody
    pc, op, arg, scan, todo, cur,  \* per thread, see TypeOK
    wpc, hand, attempt, reply      \* per worker, see TypeOK

erpVars    == <<drafts, late>>
seenVars   == <<recentSeen, stale>>
threadVars == <<pc, op, arg, scan, todo, cur>>
workerVars == <<wpc, hand, attempt, reply>>
vars == <<erpVars, cache, scanActive, queued, inflight, seenVars, queue, mu,
          threadVars, workerVars>>

(***************************************************************************)
(* pc: what the goroutine does next.  op: the operation it runs.  arg: the *)
(* EPCs of the webhook or of the ERP answer.  scan: EPCs of recentSeen     *)
(* still to be looked up.  todo: replay candidates still to be enqueued.   *)
(* cur: the EPC being looked up or sent.                                   *)
(***************************************************************************)
ThreadPc == {"idle", "lookup", "replace", "collect", "reading", "gate",
             "enqueue", "send", "drop"}
Ops == {"none", "epc", "draft", "refresh", "scan"}
WorkerPc == {"idle", "taken", "check", "lock", "submit", "reply", "unlock"}
Replies == {"none", "submitted", "not_found", "error"}

TypeOK ==
    /\ drafts \in SUBSET EPCs /\ late \in SUBSET EPCs
    /\ cache \in SUBSET EPCs /\ scanActive \in BOOLEAN
    /\ queued \in SUBSET EPCs /\ inflight \in SUBSET EPCs
    /\ recentSeen \in SUBSET EPCs /\ stale \in SUBSET recentSeen
    /\ queue \in Seq(EPCs) /\ Len(queue) <= QueueSize
    /\ mu \in Threads \cup {Nobody}
    /\ pc \in [Threads -> ThreadPc] /\ op \in [Threads -> Ops]
    /\ arg \in [Threads -> SUBSET EPCs]
    /\ scan \in [Threads -> SUBSET EPCs]
    /\ todo \in [Threads -> SUBSET EPCs]
    /\ cur \in [Threads -> EPCs \cup {NoEPC}]
    /\ \A t \in Threads : pc[t] \in {"lookup", "send", "drop"} => cur[t] \in EPCs
    /\ wpc \in [Workers -> WorkerPc]
    /\ hand \in [Workers -> EPCs \cup {NoEPC}]
    /\ \A w \in Workers : wpc[w] # "idle" => hand[w] \in EPCs
    /\ attempt \in [Workers -> 0..SubmitRetry]
    /\ reply \in [Workers -> Replies]

\* The state New builds; the cache is empty until the first refresh.
ServiceInit ==
    /\ cache = {} /\ scanActive = ScanDefaultActive
    /\ queued = {} /\ inflight = {}
    /\ recentSeen = {} /\ stale = {}
    /\ queue = <<>> /\ mu = Nobody
    /\ pc = [t \in Threads |-> "idle"] /\ op = [t \in Threads |-> "none"]
    /\ arg = [t \in Threads |-> {}] /\ scan = [t \in Threads |-> {}]
    /\ todo = [t \in Threads |-> {}] /\ cur = [t \in Threads |-> NoEPC]
    /\ wpc = [w \in Workers |-> "idle"] /\ hand = [w \in Workers |-> NoEPC]
    /\ attempt = [w \in Workers |-> 0] /\ reply = [w \in Workers |-> "none"]

Init == drafts \in SUBSET EPCs /\ late = {} /\ ServiceInit

-----------------------------------------------------------------------------
(***************************************************************************)
(* Steps of the request goroutines and of the refresh loop.                *)
(***************************************************************************)
Fresh == recentSeen \ stale   \* what gcRecentSeenLocked keeps

Goto(t, label) == pc' = [pc EXCEPT ![t] = label]

Return(t) ==
    /\ Goto(t, "idle")
    /\ op' = [op EXCEPT ![t] = "none"]
    /\ todo' = [todo EXCEPT ![t] = {}]

\* Fault: a reading that is looked up whether scanning is on or off.
HandleEPCUngated(t, e) ==
    /\ pc[t] = "idle" /\ mu = Nobody
    /\ recentSeen' = (Fresh \cup {e})
    /\ stale' = {}
    /\ Goto(t, "lookup")
    /\ op' = [op EXCEPT ![t] = "epc"]
    /\ cur' = [cur EXCEPT ![t] = e]
    /\ UNCHANGED <<erpVars, cache, scanActive, queued, inflight, queue, mu,
                   arg, scan, todo, workerVars>>

\* HandleEPC, the section that stamps the EPC and reads scanActive.
HandleEPC(t, e) ==
    /\ pc[t] = "idle" /\ mu = Nobody
    /\ recentSeen' = (Fresh \cup {e})
    /\ stale' = {}
    /\ IF scanActive
         THEN /\ Goto(t, "lookup")
              /\ op' = [op EXCEPT ![t] = "epc"]
              /\ cur' = [cur EXCEPT ![t] = e]
         ELSE UNCHANGED <<pc, op, cur>>
    /\ UNCHANGED <<erpVars, cache, scanActive, queued, inflight, queue, mu,
                   arg, scan, todo, workerVars>>

\* HandleEPC after the section: a cached EPC is to be enqueued, a miss returns.
Lookup(t) ==
    /\ pc[t] = "lookup"
    /\ cur' = [cur EXCEPT ![t] = NoEPC]
    /\ IF cur[t] \in cache
         THEN /\ Goto(t, "enqueue")
              /\ todo' = [todo EXCEPT ![t] = {cur[t]}]
              /\ UNCHANGED op
         ELSE Return(t)
    /\ UNCHANGED <<erpVars, cache, scanActive, queued, inflight, seenVars,
                   queue, mu, arg, scan, workerVars>>

\* AddDraftEPCs up to cache.Add; the webhook may be late, repeated or empty.
AddDraftEPCs(t, epcs) ==
    /\ pc[t] = "idle"
    /\ cache' = cache \cup epcs
    /\ Goto(t, "collect")
    /\ op' = [op EXCEPT ![t] = "draft"]
    /\ arg' = [arg EXCEPT ![t] = epcs]
    /\ UNCHANGED <<erpVars, scanActive, queued, inflight, seenVars, queue, mu,
                   scan, todo, cur, workerVars>>

\* RefreshCache up to a successful FetchDraftEPCs.  A failed fetch changes
\* nothing but counters: it is a stuttering step.
RefreshCache(t) ==
    /\ pc[t] = "idle"
    /\ Goto(t, "replace")
    /\ op' = [op EXCEPT ![t] = "refresh"]
    /\ arg' = [arg EXCEPT ![t] = drafts]
    /\ UNCHANGED <<erpVars, cache, scanActive, queued, inflight, seenVars,
                   queue, mu, scan, todo, cur, workerVars>>

\* cache.Replace with the answer, which may be out of date by now.
Replace(t) ==
    /\ pc[t] = "replace"
    /\ cache' = arg[t]
    /\ Goto(t, "collect")
    /\ UNCHANGED <<erpVars, scanActive, queued, inflight, seenVars, queue, mu,
                   op, arg, scan, todo, cur, workerVars>>

\* Fault: a scan start that replays nothing.
SetScanActiveNoReplay(t, active) ==
    /\ pc[t] = "idle" /\ mu = Nobody
    /\ scanActive' = active
    /\ UNCHANGED <<erpVars, cache, queued, inflight, seenVars, queue, mu,
                   threadVars, workerVars>>

\* SetScanActive, its section; only a change to TRUE goes on to a replay.
SetScanActive(t, active) ==
    /\ pc[t] = "idle" /\ mu = Nobody
    /\ scanActive' = active
    /\ IF active /\ ~scanActive
         THEN /\ Goto(t, "collect")
              /\ op' = [op EXCEPT ![t] = "scan"]
         ELSE UNCHANGED <<pc, op>>
    /\ UNCHANGED <<erpVars, cache, queued, inflight, seenVars, queue, mu,
                   arg, scan, todo, cur, workerVars>>

\* collectReplayCandidates takes s.mu and drops expired entries; an empty
\* focus means every recent EPC.
Collect(t) ==
    /\ pc[t] = "collect" /\ mu = Nobody
    /\ mu' = t
    /\ recentSeen' = Fresh /\ stale' = {}
    /\ scan' = [scan EXCEPT ![t] = IF arg[t] = {} THEN Fresh
                                                  ELSE Fresh \cap arg[t]]
    /\ arg' = [arg EXCEPT ![t] = {}]
    /\ Goto(t, "reading")
    /\ UNCHANGED <<erpVars, cache, scanActive, queued, inflight, queue, op,
                   todo, cur, workerVars>>

\* One cache.Has of its loop; the map is ranged in any order.
ReadCandidate(t, e) ==
    /\ pc[t] = "reading" /\ e \in scan[t]
    /\ scan' = [scan EXCEPT ![t] = @ \ {e}]
    /\ todo' = [todo EXCEPT ![t] = IF e \in cache THEN @ \cup {e} ELSE @]
    /\ UNCHANGED <<erpVars, cache, scanActive, queued, inflight, seenVars,
                   queue, mu, pc, op, arg, cur, workerVars>>

\* It returns and releases s.mu; a scan start replays without asking again.
Collected(t) ==
    /\ pc[t] = "reading" /\ scan[t] = {}
    /\ mu' = Nobody
    /\ Goto(t, IF op[t] = "scan" THEN "enqueue" ELSE "gate")
    /\ UNCHANGED <<erpVars, cache, scanActive, queued, inflight, seenVars,
                   queue, op, arg, scan, todo, cur, workerVars>>

\* "if s.ScanActive()" before the replay of AddDraftEPCs and RefreshCache.
Gate(t) ==
    /\ pc[t] = "gate" /\ mu = Nobody
    /\ IF scanActive
         THEN Goto(t, "enqueue") /\ UNCHANGED <<op, todo>>
         ELSE Return(t)
    /\ UNCHANGED <<erpVars, cache, scanActive, queued, inflight, seenVars,
                   queue, mu, arg, scan, cur, workerVars>>

\* enqueue, first section: refuse an EPC already queued or in flight ...
Refuse(t, e) ==
    /\ pc[t] = "enqueue" /\ mu = Nobody
    /\ e \in todo[t] \cap (queued \cup inflight)
    /\ todo' = [todo EXCEPT ![t] = @ \ {e}]
    /\ UNCHANGED <<erpVars, cache, scanActive, queued, inflight, seenVars,
                   queue, mu, pc, op, arg, scan, cur, workerVars>>

\* Fault: enqueue that looks at inflight only.
ReserveAgain(t, e) ==
    /\ pc[t] = "enqueue" /\ mu = Nobody
    /\ e \in todo[t] \ inflight
    /\ queued' = queued \cup {e}
    /\ todo' = [todo EXCEPT ![t] = @ \ {e}]
    /\ cur' = [cur EXCEPT ![t] = e]
    /\ Goto(t, "send")
    /\ UNCHANGED <<erpVars, cache, scanActive, inflight, seenVars, queue, mu,
                   op, arg, scan, workerVars>>

\* ... or reserve it.
Reserve(t, e) ==
    /\ pc[t] = "enqueue" /\ mu = Nobody
    /\ e \in todo[t] \ (queued \cup inflight)
    /\ queued' = queued \cup {e}
    /\ todo' = [todo EXCEPT ![t] = @ \ {e}]
    /\ cur' = [cur EXCEPT ![t] = e]
    /\ Goto(t, "send")
    /\ UNCHANGED <<erpVars, cache, scanActive, inflight, seenVars, queue, mu,
                   op, arg, scan, workerVars>>

\* Fault: a channel one entry larger than cfg.QueueSize.
SendOneMore(t) ==
    /\ pc[t] = "send" /\ Len(queue) <= QueueSize
    /\ queue' = Append(queue, cur[t])
    /\ cur' = [cur EXCEPT ![t] = NoEPC]
    /\ Goto(t, "enqueue")
    /\ UNCHANGED <<erpVars, cache, scanActive, queued, inflight, seenVars, mu,
                   op, arg, scan, todo, workerVars>>

\* The non-blocking send; a full channel is remembered and undone next.
Send(t) ==
    /\ pc[t] = "send"
    /\ IF Len(queue) < QueueSize
         THEN /\ queue' = Append(queue, cur[t])
              /\ cur' = [cur EXCEPT ![t] = NoEPC]
              /\ Goto(t, "enqueue")
         ELSE Goto(t, "drop") /\ UNCHANGED <<queue, cur>>
    /\ UNCHANGED <<erpVars, cache, scanActive, queued, inflight, seenVars, mu,
                   op, arg, scan, todo, workerVars>>

Drop(t) ==
    /\ pc[t] = "drop" /\ mu = Nobody
    /\ queued' = queued \ {cur[t]}
    /\ cur' = [cur EXCEPT ![t] = NoEPC]
    /\ Goto(t, "enqueue")
    /\ UNCHANGED <<erpVars, cache, scanActive, inflight, seenVars, queue, mu,
                   op, arg, scan, todo, workerVars>>

Finish(t) ==
    /\ pc[t] = "enqueue" /\ todo[t] = {}
    /\ Return(t)
    /\ UNCHANGED <<erpVars, cache, scanActive, queued, inflight, seenVars,
                   queue, mu, arg, scan, cur, workerVars>>

Call(t) ==
    \/ \E e \in EPCs : HandleEPC(t, e)
    \/ \E epcs \in SUBSET EPCs : AddDraftEPCs(t, epcs)
    \/ RefreshCache(t)
    \/ \E active \in BOOLEAN : SetScanActive(t, active)

Continue(t) ==
    \/ Lookup(t) \/ Replace(t)
    \/ Collect(t) \/ (\E e \in EPCs : ReadCandidate(t, e)) \/ Collected(t)
    \/ Gate(t)
    \/ \E e \in EPCs : Refuse(t, e) \/ Reserve(t, e)
    \/ Send(t) \/ Drop(t) \/ Finish(t)

-----------------------------------------------------------------------------
(***************************************************************************)
(* Steps of a worker goroutine.                                            *)
(***************************************************************************)
WGoto(w, label) == wpc' = [wpc EXCEPT ![w] = label]

Rest(w) ==
    /\ WGoto(w, "idle")
    /\ hand' = [hand EXCEPT ![w] = NoEPC]

\* worker: the receive from s.queue ...
Take(w) ==
    /\ wpc[w] = "idle" /\ queue # <<>>
    /\ hand' = [hand EXCEPT ![w] = Head(queue)]
    /\ queue' = Tail(queue)
    /\ WGoto(w, "taken")
    /\ UNCHANGED <<erpVars, cache, scanActive, queued, inflight, seenVars, mu,
                   threadVars, attempt, reply>>

\* Fault: a worker that never forgets the reservation.
UnqueueLeaks(w) ==
    /\ wpc[w] = "taken" /\ mu = Nobody
    /\ WGoto(w, "check")
    /\ UNCHANGED <<erpVars, cache, scanActive, queued, inflight, seenVars,
                   queue, mu, threadVars, hand, attempt, reply>>

\* ... and the section that forgets the reservation.
Unqueue(w) ==
    /\ wpc[w] = "taken" /\ mu = Nobody
    /\ queued' = queued \ {hand[w]}
    /\ WGoto(w, "check")
    /\ UNCHANGED <<erpVars, cache, scanActive, inflight, seenVars, queue, mu,
                   threadVars, hand, attempt, reply>>

\* processSubmit: an EPC that has left the cache is not submitted.
Check(w) ==
    /\ wpc[w] = "check"
    /\ IF hand[w] \in cache
         THEN WGoto(w, "lock") /\ UNCHANGED hand
         ELSE Rest(w)
    /\ UNCHANGED <<erpVars, cache, scanActive, queued, inflight, seenVars,
                   queue, mu, threadVars, attempt, reply>>

\* Fault: a session opened without asking whether one is open.
LockInflightBlind(w) ==
    /\ wpc[w] = "lock" /\ mu = Nobody
    /\ inflight' = inflight \cup {hand[w]}
    /\ WGoto(w, "submit")
    /\ UNCHANGED <<erpVars, cache, scanActive, queued, seenVars, queue, mu,
                   threadVars, hand, attempt, reply>>

LockInflight(w) ==
    /\ wpc[w] = "lock" /\ mu = Nobody
    /\ IF hand[w] \in inflight
         THEN Rest(w) /\ UNCHANGED inflight
         ELSE /\ inflight' = inflight \cup {hand[w]}
              /\ WGoto(w, "submit")
              /\ UNCHANGED hand
    /\ UNCHANGED <<erpVars, cache, scanActive, queued, seenVars, queue, mu,
                   threadVars, attempt, reply>>

Answer(w, status) ==
    /\ wpc[w] = "submit"
    /\ reply' = [reply EXCEPT ![w] = status]
    /\ WGoto(w, "reply")
    /\ UNCHANGED <<cache, scanActive, queued, inflight, seenVars, queue, mu,
                   threadVars, hand, attempt>>

\* SubmitByEPC answered in time: "submitted" closes the draft.
SubmitAnswered(w) ==
    IF hand[w] \in drafts
      THEN /\ Answer(w, "submitted")
           /\ drafts' = drafts \ {hand[w]} /\ UNCHANGED late
      ELSE Answer(w, "not_found") /\ UNCHANGED erpVars

\* SubmitByEPC failed: refused or unreachable, or timed out with the request
\* still on its way through the ERP.
SubmitFailed(w) ==
    /\ Answer(w, "error")
    /\ late' \in {late, late \cup {hand[w]}}
    /\ UNCHANGED drafts

\* A final answer takes the EPC out of the cache.
RemoveCached(w) ==
    /\ wpc[w] = "reply" /\ reply[w] \in {"submitted", "not_found"}
    /\ cache' = cache \ {hand[w]}
    /\ WGoto(w, "unlock")
    /\ UNCHANGED <<erpVars, scanActive, queued, inflight, seenVars, queue, mu,
                   threadVars, hand, attempt, reply>>

Retry(w) ==
    /\ wpc[w] = "reply" /\ reply[w] = "error" /\ attempt[w] < SubmitRetry
    /\ attempt' = [attempt EXCEPT ![w] = @ + 1]
    /\ reply' = [reply EXCEPT ![w] = "none"]
    /\ WGoto(w, "submit")
    /\ UNCHANGED <<erpVars, cache, scanActive, queued, inflight, seenVars,
                   queue, mu, threadVars, hand>>

\* Fault: a failed session that returns without unlockInflight.
GiveUpLocked(w) ==
    /\ wpc[w] = "reply" /\ reply[w] = "error" /\ attempt[w] = SubmitRetry
    /\ attempt' = [attempt EXCEPT ![w] = 0]
    /\ reply' = [reply EXCEPT ![w] = "none"]
    /\ Rest(w)
    /\ UNCHANGED <<erpVars, cache, scanActive, queued, inflight, seenVars,
                   queue, mu, threadVars>>

\* Fault: a session that forgets the draft it could not close.
GiveUpForgets(w) ==
    /\ wpc[w] = "reply" /\ reply[w] = "error" /\ attempt[w] = SubmitRetry
    /\ cache' = cache \ {hand[w]}
    /\ WGoto(w, "unlock")
    /\ UNCHANGED <<erpVars, scanActive, queued, inflight, seenVars, queue, mu,
                   threadVars, hand, attempt, reply>>

GiveUp(w) ==
    /\ wpc[w] = "reply" /\ reply[w] = "error" /\ attempt[w] = SubmitRetry
    /\ WGoto(w, "unlock")
    /\ UNCHANGED <<erpVars, cache, scanActive, queued, inflight, seenVars,
                   queue, mu, threadVars, hand, attempt, reply>>

\* The deferred unlockInflight, after the synchronous notification.
UnlockInflight(w) ==
    /\ wpc[w] = "unlock" /\ mu = Nobody
    /\ inflight' = inflight \ {hand[w]}
    /\ attempt' = [attempt EXCEPT ![w] = 0]
    /\ reply' = [reply EXCEPT ![w] = "none"]
    /\ Rest(w)
    /\ UNCHANGED <<erpVars, cache, scanActive, queued, seenVars, queue, mu,
                   threadVars>>

Work(w) ==
    \/ Take(w) \/ Unqueue(w) \/ Check(w) \/ LockInflight(w)
    \/ SubmitAnswered(w) \/ SubmitFailed(w)
    \/ RemoveCached(w) \/ Retry(w) \/ GiveUp(w) \/ UnlockInflight(w)

-----------------------------------------------------------------------------
(***************************************************************************)
(* The environment: the ERP, the clock and the operating system.           *)
(***************************************************************************)
serviceVars == <<cache, scanActive, queued, inflight, queue, mu, threadVars,
                 workerVars>>

CreateDraft(e) ==
    /\ e \notin drafts
    /\ drafts' = drafts \cup {e}
    /\ UNCHANGED <<late, seenVars, serviceVars>>

\* A request that timed out at the client is executed after all.
LateSubmit(e) ==
    /\ e \in late
    /\ late' = late \ {e} /\ drafts' = drafts \ {e}
    /\ UNCHANGED <<seenVars, serviceVars>>

\* RecentSeenTTL passes since the last reading of e.
Age(e) ==
    /\ e \in Fresh
    /\ stale' = stale \cup {e}
    /\ UNCHANGED <<erpVars, recentSeen, serviceVars>>

\* The process is killed and started again; only the ERP remembers, and may
\* still execute the requests that were on their way.
Restart ==
    /\ cache' = {} /\ scanActive' = ScanDefaultActive
    /\ queued' = {} /\ inflight' = {} /\ recentSeen' = {} /\ stale' = {}
    /\ queue' = <<>> /\ mu' = Nobody
    /\ pc' = [t \in Threads |-> "idle"] /\ op' = [t \in Threads |-> "none"]
    /\ arg' = [t \in Threads |-> {}] /\ scan' = [t \in Threads |-> {}]
    /\ todo' = [t \in Threads |-> {}] /\ cur' = [t \in Threads |-> NoEPC]
    /\ wpc' = [w \in Workers |-> "idle"] /\ hand' = [w \in Workers |-> NoEPC]
    /\ attempt' = [w \in Workers |-> 0] /\ reply' = [w \in Workers |-> "none"]
    /\ \E S \in SUBSET {hand[w] : w \in {v \in Workers : wpc[v] = "submit"}} :
         late' = late \cup S
    /\ UNCHANGED drafts

Environment ==
    \/ \E e \in EPCs : CreateDraft(e) \/ LateSubmit(e) \/ Age(e)
    \/ Restart

Next ==
    \/ \E c \in Callers : Call(c)
    \/ RefreshCache(Ticker)
    \/ \E t \in Threads : Continue(t)
    \/ \E w \in Workers : Work(w)
    \/ Environment

Spec == Init /\ [][Next]_vars
=============================================================================
