----------------------- MODULE EPCServiceProperties -----------------------
(***************************************************************************)
(* What the EPC matcher has to guarantee: who may hold an EPC, which       *)
(* matches may be lost, and what must happen in the end.                   *)
(***************************************************************************)
EXTENDS EPCService, Functions

-----------------------------------------------------------------------------
(***************************************************************************)
(* Ownership of an EPC inside the service.                                 *)
(***************************************************************************)
InSession == {w \in Workers : wpc[w] \in {"submit", "reply", "unlock"}}
Taking    == {w \in Workers : wpc[w] = "taken"}
Sending   == {t \in Threads : pc[t] \in {"send", "drop"}}
Queue     == Range(queue)

\* The set inflight is exactly what the workers between lockInflight and the
\* deferred unlockInflight hold: nothing leaks, nothing is released early.
InflightExact == inflight = {hand[w] : w \in InSession}

\* No two workers are in a submit session for the same EPC, whatever the
\* interleaving of check, lock, retries and unlock (processSubmit).
OneSessionPerEPC ==
    \A v, w \in InSession : v # w => hand[v] # hand[w]

\* A reservation in queued has exactly one owner: a goroutine between the
\* section of enqueue and its send or undo, an entry of the channel, or a
\* worker that has received but not yet unqueued.  A second owner would delete
\* the reservation of the first; an owner lost would block the EPC for ever.
OneReservationPerEPC ==
    /\ queued = {cur[t] : t \in Sending} \cup Queue \cup {hand[w] : w \in Taking}
    /\ IsInjective(queue)
    /\ \A s, t \in Sending : s # t => cur[s] # cur[t]
    /\ \A v, w \in Taking : v # w => hand[v] # hand[w]
    /\ \A t \in Sending : cur[t] \notin Queue
    /\ \A w \in Taking : hand[w] \notin Queue
    /\ \A t \in Sending, w \in Taking : cur[t] # hand[w]

-----------------------------------------------------------------------------
(***************************************************************************)
(* Matches: an EPC read recently whose draft is cached while scanning.     *)
(***************************************************************************)
\* Some goroutine is still going to look at e and enqueue it.
Noticed(t, e) ==
    \/ pc[t] = "lookup" /\ cur[t] = e
    \/ pc[t] = "collect" /\ (arg[t] = {} \/ e \in arg[t])
    \/ e \in scan[t] \cup todo[t]

\* e is reserved, or a worker is on its way to a verdict on it.
Pending(e) ==
    \/ e \in queued
    \/ \E w \in Workers :
         hand[w] = e /\ wpc[w] \in {"check", "lock", "submit", "reply"}

Match(e) == scanActive /\ e \in Fresh \cap cache

\* A match nobody is going to submit until the next replay of e.
Forgotten(e) ==
    Match(e) /\ ~Pending(e) /\ \A t \in Threads : ~Noticed(t, e)

\* A session of e is past its verdict but still listed in inflight.
Closing(e) == \E w \in Workers : hand[w] = e /\ wpc[w] = "unlock"

\* The ways in which the code gives a match up, each a step on e.
QueueFull(e)     == \E t \in Threads : cur[t] = e /\ Drop(t)
RetriesSpent(e)  == \E w \in Workers : hand[w] = e /\ GiveUp(w)
RefusedBusy(e)   == Closing(e) /\ \E t \in Threads : Refuse(t, e)
LockRefused(e)   == Closing(e) /\ \E w \in Workers : hand[w] = e /\ LockInflight(w)

LossExplained ==
    \A e \in EPCs :
      Forgotten(e)' => \/ Forgotten(e)
                       \/ QueueFull(e) \/ RetriesSpent(e)
                       \/ RefusedBusy(e) \/ LockRefused(e)

\* While the EPC is read within its TTL, scanning is on and its draft is cached,
\* it is on its way to a submit, and falls from it only by a full queue, by the
\* last failed attempt, or by a refusal while the previous session of the EPC is
\* being closed: no interleaving of readings, webhooks, refreshes, scan commands
\* and workers loses it in another way (HandleEPC, AddDraftEPCs, RefreshCache,
\* SetScanActive against worker and processSubmit).  What takes the draft out of
\* the cache is OpenDraftKept's.
NoSilentLoss == [][LossExplained]_vars

\* An EPC whose submit succeeded is replayed when a new draft for it arrives:
\* when enqueue refuses it although the new draft is open and cached, some
\* reservation or session is still on its way to a verdict on it.
\* (TestSubmittedEPCCanReplayWhenNewDraftArrives; AddDraftEPCs reports the EPC
\* as replayed either way.)
SubmittedEPCReplays ==
    [][\A t \in Threads, e \in EPCs, w \in Workers :
         (/\ op[t] = "draft" /\ Refuse(t, e)
          /\ hand[w] = e /\ reply[w] = "submitted"
          /\ e \in cache \cap drafts)
         => Pending(e)]_vars
=============================================================================
