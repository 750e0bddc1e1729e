------------------------------- MODULE MCNode -------------------------------
(***************************************************************************)
(* What an Agent knows of the world, part by part: whether a Forward is    *)
(* reachable, which Controller key to trust, which strategies its network  *)
(* allows, what its gateway and the STUN servers tell it.  Each part has   *)
(* state of its own; "part" says which of them a behaviour is about.       *)
(***************************************************************************)
EXTENDS Activation, Rotation, Upnp, Detection, Stun

VARIABLE part

\* f1 asks for public port 1, f2 for any.
PortWanted == [c \in Callers |-> IF c = "f1" THEN 1 ELSE 0]

ProductionOrder == <<"explicit-gateway", "direct-v4", "stun-only">>

Forward(strategy, udp, port, manual) ==
    [strategy |-> strategy, udp |-> udp, port |-> port, manual |-> manual]

ForwardSpecs == {
    Forward("auto", FALSE, 1, "none"),
    Forward("auto", TRUE, 0, "none"),
    Forward("explicit-gateway", FALSE, 0, "none"),
    Forward("manual-static-v4", FALSE, 0, "private"),
    Forward("manual-static-v4", FALSE, 0, "none")}

Seen(global, port) == [global |-> global, port |-> port]

SeenEndpoints == {Seen(TRUE, 1), Seen(FALSE, 1), Seen(TRUE, 2)}

(***************************************************************************)
(* A Forward is not opened while attempts of a pass are under way: they    *)
(* share no variable that either writes, so their steps commute.  A save   *)
(* and a Forward being opened do interleave.                               *)
(***************************************************************************)
PassAside == opening'.pc = "idle" \/ pass'.pc # "running"

Others(x) ==
    /\ x # "activation" => gateway = TRUE
    /\ x # "rotation" => first = 1
    /\ x # "upnp" => \A g \in Gateways : device[g] = [second |-> TRUE, mangles |-> FALSE]
    /\ x # "detection" => network = "cpe"
    /\ x # "stun" => medium = "udp"

NodeInit ==
    /\ ActInit /\ RotInit /\ UpnpInit /\ DetInit /\ StunInit
    /\ part \in {"activation", "rotation", "upnp", "detection", "stun", "evidence"}
    /\ Others(part)

NodeNext ==
    /\ UNCHANGED part
    /\ \/ /\ part = "activation" /\ ActNext
          /\ UNCHANGED <<rotVars, upnpVars, detVars, stunVars>>
       \/ /\ part = "rotation" /\ RotNext
          /\ UNCHANGED <<actVars, upnpVars, detVars, stunVars>>
       \/ /\ part = "upnp" /\ UpnpNext
          /\ UNCHANGED <<actVars, rotVars, detVars, stunVars>>
       \/ /\ part = "detection" /\ DetNext /\ PassAside
          /\ UNCHANGED <<actVars, rotVars, upnpVars, stunVars>>
       \/ /\ part = "stun" /\ ExchangeNext
          /\ UNCHANGED <<actVars, rotVars, upnpVars, detVars>>
       \/ /\ part = "evidence" /\ LookNext
          /\ UNCHANGED <<actVars, rotVars, upnpVars, detVars>>

NodeSpec ==
    NodeInit /\ [][NodeNext]_<<actVars, rotVars, upnpVars, detVars, stunVars, part>>
=============================================================================
