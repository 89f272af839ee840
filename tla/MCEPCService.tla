---------------------------- MODULE MCEPCService ----------------------------
(***************************************************************************)
(* Bounds and symmetry for the model-checking runs of EPCService.          *)
(***************************************************************************)
EXTENDS EPCServiceProperties, TLC

Symmetry == Permutations(EPCs) \cup Permutations(Workers)

\* The run with two EPCs and retries is about the queue and the reservations: of
\* the requests that outlive their client it keeps those of a process that died,
\* until the next one has read a tag, and it leaves out the passing of
\* RecentSeenTTL.  The run with two workers has both.
ShortHistory == (late = {} \/ recentSeen = {}) /\ stale = {}
=============================================================================
