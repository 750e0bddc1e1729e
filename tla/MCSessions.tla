------------------------------ MODULE MCSessions ------------------------------
(* The goroutines that serve an installed Forward: TCP sessions, UDP sessions, *)
(* the rate limiter, and the renewal of the mapping in front of them.  Each    *)
(* has state of its own; "part" says which of them a behaviour is about.       *)
EXTENDS TcpForward, UdpForward, Limiter, Renewal

CONSTANTS i1, i2

\* Two clients behind one address, and one behind another.
MCClients == {[ip |-> i1, port |-> 1], [ip |-> i1, port |-> 2], [ip |-> i2, port |-> 1]}

VARIABLE part

allVars == <<tcpVars, udpVars, limiterVars, renewVars, part>>

Init ==
    /\ TcpInit /\ UdpInit /\ LimiterInit /\ RenewInit
    /\ part \in {"tcp", "udp", "limiter", "renewal"}
    /\ part # "renewal" => grant = Lease /\ timer = Interval

Next ==
    \/ part = "tcp" /\ TcpNext /\ UNCHANGED <<udpVars, limiterVars, renewVars,
                                              part>>
    \/ part = "udp" /\ UdpNext /\ UNCHANGED <<tcpVars, limiterVars, renewVars,
                                              part>>
    \/ part = "limiter" /\ LimiterNext /\ UNCHANGED <<tcpVars, udpVars, renewVars,
                                                      part>>
    \/ part = "renewal" /\ RenewNext /\ UNCHANGED <<tcpVars, udpVars, limiterVars,
                                                    part>>

Spec == Init /\ [][Next]_allVars /\ TcpFairness /\ UdpFairness /\ RenewFairness
===============================================================================
