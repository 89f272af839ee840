------------------------------ MODULE MCDiscovery ------------------------------
(***************************************************************************)
(* A small network for Discovery: one interface, a port given twice,       *)
(* readers that answer some probe, and a talkative host that answers none. *)
(***************************************************************************)
EXTENDS Discovery

Symmetry == Permutations(Workers)

MCLocals == {[ip |-> <<10, 0, 0, 10>>, ones |-> 30]}
MCNeighbors == {<<10, 0, 0, 9>>, <<10, 0, 0, 77>>}
MCPorts == <<2022, 8080, 2022>>

Silent == [i \in 1..6 |-> {}]
MCFound ==
    (<<<<10, 0, 0, 9>>, 8080>> :> [answers |-> [Silent EXCEPT ![4] = {1}], keywords |-> 0])
    @@ (<<<<10, 0, 0, 77>>, 2022>> :> [answers |-> Silent, keywords |-> 6])
    @@ (<<<<10, 0, 0, 20>>, 2022>> :> [answers |-> [Silent EXCEPT ![1] = {1}, ![2] = {33}],
                                       keywords |-> 0])
    @@ (<<<<192, 168, 1, 1>>, 2022>> :> [answers |-> Silent, keywords |-> 1])
=============================================================================
