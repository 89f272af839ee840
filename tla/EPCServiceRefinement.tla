------------------------ MODULE EPCServiceRefinement ------------------------
(***************************************************************************)
(* The EPC matcher implements DraftClosing.  recentSeen forgets after its  *)
(* TTL and at a restart, so a history variable keeps every EPC it held;    *)
(* the open sessions of the abstract specification are s.inflight.  Two    *)
(* more tell which drafts an answer of the ERP cannot know of.             *)
(***************************************************************************)
EXTENDS EPCServiceProperties

VARIABLES
    read,       \* history: every EPC that HandleEPC has stamped
    sinceFetch, \* history, per thread: drafts opened since its fetch was answered
    sinceReply  \* history, per worker: drafts opened since its submit was answered

HInit ==
    /\ Init /\ read = {}
    /\ sinceFetch = [t \in Threads |-> {}]
    /\ sinceReply = [w \in Workers |-> {}]

Opened == drafts' \ drafts

HNext ==
    /\ Next
    /\ read' = read \cup recentSeen'
    /\ sinceFetch' = [t \in Threads |->
         IF pc[t] = "replace" /\ pc'[t] = "replace" THEN sinceFetch[t] \cup Opened ELSE {}]
    /\ sinceReply' = [w \in Workers |->
         IF wpc[w] = "reply" /\ wpc'[w] = "reply" THEN sinceReply[w] \cup Opened ELSE {}]

hvars == <<vars, read, sinceFetch, sinceReply>>

HSpec == HInit /\ [][HNext]_hvars

Promise == INSTANCE DraftClosing WITH session <- inflight

\* Every draft the service closes belongs to a tag that was read, and closes
\* inside the one session of that tag (HandleEPC to SubmitByEPC, through
\* every replay, retry, refresh and restart).
ImplementsDraftClosing == Promise!Spec

\* An open draft leaves the cache only with a restart, or because the ERP answered
\* before it was opened: by a refresh whose list was fetched before (RefreshCache
\* over a webhook's EPC), or by a session whose submit was answered before
\* (processSubmit's Remove after AddDraftEPCs).  A draft that was open when the
\* ERP answered stays, whatever failed, was refused or dropped since.
OpenDraftKept ==
    [][\A e \in cache \cap drafts :
         e \notin cache' =>
           \/ Restart
           \/ \E t \in Threads : Replace(t) /\ e \in sinceFetch[t]
           \/ \E w \in Workers : RemoveCached(w) /\ hand[w] = e /\ e \in sinceReply[w]]_hvars

\* Wherever an EPC is on its way to a submit, it has been read: the replays
\* of webhooks and refreshes enqueue no EPC merely because a draft has it.
OnlyReadEPCs ==
    /\ recentSeen \cup queued \cup inflight \subseteq read
    /\ Queue \subseteq read
    /\ \A t \in Threads : scan[t] \cup todo[t] \cup ({cur[t]} \ {NoEPC}) \subseteq read
    /\ \A w \in Workers : {hand[w]} \ {NoEPC} \subseteq read
=============================================================================
