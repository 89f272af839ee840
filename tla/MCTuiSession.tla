---------------------------- MODULE MCTuiSession ----------------------------
(***************************************************************************)
(* Candidates and ports for TuiSession.                                    *)
(***************************************************************************)
EXTENDS TuiSession

Candidate(host, port, verified) == [host |-> host, port |-> port, verified |-> verified]

Symmetry == Permutations(Callers) \cup Permutations(Sessions)

MCScanPorts == <<1>>

MCScanResults ==
    {<<>>, <<Candidate("h1", 1, FALSE)>>,
     <<Candidate("h1", 1, FALSE), Candidate("h2", 1, TRUE)>>}

MCOneScan == {<<>>, <<Candidate("h1", 1, TRUE), Candidate("h2", 1, TRUE)>>}
=============================================================================
