---------------------------- MODULE DraftClosing ----------------------------
(***************************************************************************)
(* What the EPC matcher promises to the ERP, without cache, queue, workers *)
(* or locks: a draft closes only for a tag that has been read, and only    *)
(* inside the one session open for that tag, or by a request such a        *)
(* session gave up on.                                                     *)
(***************************************************************************)
CONSTANT EPCs

VARIABLES
    drafts,   \* EPCs with an open draft
    late,     \* EPCs with an abandoned request on its way to the ERP
    read,     \* EPCs that have ever been read
    session   \* EPCs with a submit session open

vars == <<drafts, late, read, session>>

Init == drafts \in SUBSET EPCs /\ late = {} /\ read = {} /\ session = {}

Open(e)  == drafts' = drafts \cup {e} /\ UNCHANGED <<late, read, session>>

Read(e)  == read' = read \cup {e} /\ UNCHANGED <<drafts, late, session>>

Begin(e) ==
    /\ e \in read \ session
    /\ session' = session \cup {e}
    /\ UNCHANGED <<drafts, late, read>>

Close(e) ==
    /\ e \in session
    /\ drafts' = drafts \ {e}
    /\ UNCHANGED <<late, read, session>>

Abandon(e) ==
    /\ e \in session
    /\ late' = late \cup {e}
    /\ UNCHANGED <<drafts, read, session>>

End(e) ==
    /\ e \in session
    /\ session' = session \ {e}
    /\ UNCHANGED <<drafts, late, read>>

LateClose(e) ==
    /\ e \in late
    /\ late' = late \ {e} /\ drafts' = drafts \ {e}
    /\ UNCHANGED <<read, session>>

\* The process dies with its sessions; their requests may still arrive.
Crash ==
    /\ session' = {}
    /\ \E S \in SUBSET session : late' = late \cup S
    /\ UNCHANGED <<drafts, read>>

Next ==
    \/ \E e \in EPCs : \/ Open(e) \/ Read(e) \/ Begin(e) \/ Close(e)
                       \/ Abandon(e) \/ End(e) \/ LateClose(e)
    \/ Crash

Spec == Init /\ [][Next]_vars
=============================================================================
