------------------------- MODULE EPCServiceLiveness -------------------------
(***************************************************************************)
(* What the EPC matcher must do in the end, and the scheduling it needs.   *)
(***************************************************************************)
EXTENDS EPCServiceProperties

CONSTANT Rivals   \* EPCs whose submits the ERP may refuse for ever

Watched == EPCs \ Rivals

(***************************************************************************)
(* Every goroutine that is not parked in a receive goes on (WF); a         *)
(* contended s.mu is granted in the end (sync.Mutex serves a waiter after  *)
(* 1 ms), hence SF of the steps that take it; the ticker keeps firing and  *)
(* a fetch gets through now and then; a submit of a watched EPC attempted  *)
(* for ever is answered some time.                                         *)
(***************************************************************************)
SubmitGetsThrough(e) == \E w \in Workers : hand[w] = e /\ SubmitAnswered(w)

Fairness ==
    /\ \A t \in Threads : SF_vars(Continue(t))
    /\ \A w \in Workers : SF_vars(Work(w))
    /\ WF_vars(RefreshCache(Ticker))
    /\ \A e \in Watched : SF_vars(SubmitGetsThrough(e))

FairSpec == Spec /\ Fairness

(***************************************************************************)
(* A smaller environment for TLC.  First the rivals are read, while        *)
(* scanning is off; from then on they compete with the watched EPCs for    *)
(* queue and worker and are never got rid of, for the ERP refuses their    *)
(* submits.  A watched EPC is read, expires, is read again, gets webhooks  *)
(* and drafts, and its submits are answered or fail.  Requests that        *)
(* outlive their client and restarts are in the safety run.                *)
(***************************************************************************)
LiveInit == Init /\ Rivals \subseteq drafts

LiveCall(c) ==
    \/ \E e \in Watched : HandleEPC(c, e)
    \/ AddDraftEPCs(c, Watched)
    \/ \E active \in BOOLEAN : SetScanActive(c, active)

LiveWork(w) == Work(w) /\ late' = {} /\ Rivals \subseteq drafts'

Competition ==
    \/ \E c \in Callers : LiveCall(c)
    \/ RefreshCache(Ticker)
    \/ \E t \in Threads : Continue(t)
    \/ \E w \in Workers : LiveWork(w)
    \/ \E e \in Watched : CreateDraft(e) \/ Age(e)

LiveNext ==
    IF Rivals \subseteq recentSeen
      THEN Competition
      ELSE \E c \in Callers, e \in Rivals \ recentSeen : HandleEPC(c, e)

LiveSpec == LiveInit /\ [][LiveNext]_vars /\ Fairness

-----------------------------------------------------------------------------
\* While scanning stays on, no restart comes and the tag is in the field, or read
\* again and again after its TTL, an open draft is closed, unless the tag finds
\* the queue full for ever: the periodic refresh and the next reading make up for
\* a match dropped at a full queue, spent retries, the refusal of a tag that is
\* queued or in session, a webhook overwritten by an older fetch and a reading
\* that expired before its draft came.  (The refusal at lockInflight needs a
\* second worker and is left to the safety run.)
MatchedDraftCloses ==
    \A e \in Watched :
      <>[]scanActive /\ []<>(e \in Fresh) /\ <>[][~Restart]_vars =>
        []<>(e \notin drafts) \/ []<><<QueueFull(e)>>_vars

\* Once scanning stays off the pipeline empties: nothing re-enqueues itself
\* (HandleEPC and the replays are gated by scanActive, retries are bounded).
StopDrains == <>[](~scanActive) => <>[](queued = {} /\ inflight = {})
=============================================================================
