----------------------------- MODULE MCTraversal -----------------------------
(* The parts of traversal that own something outside the process: the gateway *)
(* mappings of a Forward, the local ports, and the exchanges with the gateway.*)
(* Each has state of its own; "part" says which of them a behaviour is about. *)
EXTENDS MappingLife, Ports, GatewayExchange, TLC

VARIABLE part

ForwardSymmetry == Permutations(Forwards)

Init ==
    /\ LifeInit /\ PortsInit /\ XInit
    /\ part \in {"mappings", "ports", "exchanges"}
    /\ part # "exchanges" => kind = "pcp"

Next ==
    \/ part = "mappings" /\ LifeNext /\ UNCHANGED <<portVars, xVars, part>>
    \/ part = "ports" /\ PortsNext /\ UNCHANGED <<lifeVars, xVars, part>>
    \/ part = "exchanges" /\ XNext /\ UNCHANGED <<lifeVars, portVars, part>>

Spec == Init /\ [][Next]_<<lifeVars, portVars, xVars, part>>
==============================================================================
