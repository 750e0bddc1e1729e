----------------------------- MODULE UdpForward -----------------------------
(***************************************************************************)
(* One UDP data plane (internal/forward/udp/forward.go): the ingress loop  *)
(* that creates a connected socket per client, the reply loop of each      *)
(* session, the expirer, and Close.  A session is removed by whoever takes *)
(* it out of its shard, and only that one returns its charge.  The FD,     *)
(* buffer and ephemeral-port counters move with the session counter.       *)
(***************************************************************************)
EXTENDS Naturals, FiniteSets

CONSTANTS UdpClients,        \* the clients' addresses, each an ip and a port
          MaxSessions, MaxSessionsPerIP,
          MaxSockets         \* bound: backend sockets dialed in a behaviour

\* A limit of 0 is no limit.
ASSUME UdpAssumption ==
    /\ UdpClients # {}
    /\ MaxSessions \in Nat /\ MaxSessionsPerIP \in Nat /\ MaxSockets \in Nat

VARIABLES ingress,   \* Run: "idle", "read", "reserve", "dial", "insert", "write", "done"
          packet,    \* the client of the datagram in hand
          fresh,     \* the candidate session, or NoSession
          shards,    \* client -> session
          sock,      \* session -> client, socket, reply loop
          idle,      \* sessions older than the idle cutoff
          active, perIP,
          ending,    \* Forward.closed, and the ingress socket with it
          expirer,   \* "none", "running", "done"
          old,       \* sessions the expirer took
          drain,     \* Close: shards still to empty
          taken,     \* sessions Close took
          joined     \* waitDone

udpVars == <<ingress, packet, fresh, shards, sock, idle, active, perIP, ending, expirer, old,
             drain, taken, joined>>

Ips == {c.ip : c \in UdpClients}
Sockets == 1..MaxSockets
NoSession == 0
Unused == [client |-> CHOOSE c \in UdpClients : TRUE, open |-> FALSE, reply |-> "none"]
InMap == {s \in Sockets : \E c \in UdpClients : shards[c] = s}

ReserveCounts(ip) == active' = active + 1 /\ perIP' = [perIP EXCEPT ![ip] = @ + 1]
ReleaseCounts(ip) == active' = active - 1 /\ perIP' = [perIP EXCEPT ![ip] = @ - 1]
Counters == <<active, perIP>>
Teardown == <<ending, expirer, old, drain, taken, joined>>

UdpRunStarts ==
    /\ ingress = "idle"
    /\ ingress' = "read" /\ expirer' = "running"
    /\ UNCHANGED <<packet, fresh, shards, sock, idle, active, perIP, ending, old,
                   drain, taken, joined>>

(* forward: a live session is touched under its shard's lock. *)
Datagram(c) ==
    /\ ingress = "read" /\ ~ending
    /\ IF shards[c] # NoSession
       THEN idle' = idle \ {shards[c]} /\ UNCHANGED <<ingress, packet>>
       ELSE ingress' = "reserve" /\ packet' = c /\ UNCHANGED idle
    /\ UNCHANGED <<fresh, shards, sock>> /\ UNCHANGED Counters /\ UNCHANGED Teardown

(* The closed check and reserve: every limit before any charge. *)
UdpReserve ==
    /\ ingress = "reserve"
    /\ IF \/ ending
          \/ MaxSessions > 0 /\ active >= MaxSessions
          \/ MaxSessionsPerIP > 0 /\ perIP[packet.ip] >= MaxSessionsPerIP
       THEN ingress' = "read" /\ UNCHANGED Counters
       ELSE ingress' = "dial" /\ ReserveCounts(packet.ip)
    /\ UNCHANGED <<packet, fresh, shards, sock, idle>> /\ UNCHANGED Teardown

UdpDialFails ==
    /\ ingress = "dial"
    /\ ingress' = "read" /\ ReleaseCounts(packet.ip)
    /\ UNCHANGED <<packet, fresh, shards, sock, idle>> /\ UNCHANGED Teardown

UdpDials ==
    /\ ingress = "dial"
    /\ \E s \in Sockets :
        /\ sock[s] = Unused /\ \A r \in 1..(s - 1) : sock[r] # Unused
        /\ fresh' = s
        /\ sock' = [sock EXCEPT ![s] = [client |-> packet, open |-> TRUE, reply |-> "none"]]
    /\ ingress' = "insert"
    /\ UNCHANGED <<packet, shards,
                   idle>> /\ UNCHANGED Counters /\ UNCHANGED Teardown

InsertUnfenced ==
    /\ ingress = "insert"
    /\ shards' = [shards EXCEPT ![packet] = fresh]
    /\ sock' = [sock EXCEPT ![fresh].reply = "reading"]
    /\ ingress' = "write" /\ UNCHANGED <<packet, fresh, idle>>
    /\ UNCHANGED Counters /\ UNCHANGED Teardown

(* The candidate is published unless Close came first. *)
Insert ==
    /\ ingress = "insert"
    /\ IF ending
       THEN /\ sock' = [sock EXCEPT ![fresh].open = FALSE, ![fresh].reply = "done"]
            /\ ReleaseCounts(packet.ip)
            /\ ingress' = "read" /\ fresh' = NoSession /\ UNCHANGED shards
       ELSE /\ shards' = [shards EXCEPT ![packet] = fresh]
            /\ sock' = [sock EXCEPT ![fresh].reply = "reading"]
            /\ ingress' = "write" /\ UNCHANGED <<active, perIP, fresh>>
    /\ UNCHANGED <<packet, idle>> /\ UNCHANGED Teardown

(* remove: only the session that is still the shard's current one. *)
Remove(s, reply) ==
    IF shards[sock[s].client] = s
    THEN /\ shards' = [shards EXCEPT ![sock[s].client] = NoSession]
         /\ sock' = [sock EXCEPT ![s].open = FALSE, ![s].reply = reply]
         /\ ReleaseCounts(sock[s].client.ip)
    ELSE sock' = [sock EXCEPT ![s].reply = reply] /\ UNCHANGED <<shards, active,
                                                                 perIP>>

(* The first write of a new session; its failure removes the session. *)
FirstWrite ==
    /\ ingress = "write"
    /\ \/ UNCHANGED <<shards, sock>> /\ UNCHANGED Counters
       \/ Remove(fresh, sock[fresh].reply)
    /\ ingress' = "read" /\ fresh' = NoSession
    /\ UNCHANGED <<packet, idle>> /\ UNCHANGED Teardown

(* The read loop ends with its socket or on a fatal error. *)
UdpRunEnds ==
    /\ ingress = "read"
    /\ ingress' = "done"
    /\ UNCHANGED <<packet, fresh, shards, sock,
                   idle>> /\ UNCHANGED Counters /\ UNCHANGED Teardown
------------------------------------------------------------------------------
(* replyLoop: an ICMP error, a failed write to the client or the closed    *)
(* socket ends it.                                                         *)
ReplyEnds(s) ==
    /\ sock[s].reply = "reading"
    /\ Remove(s, "done")
    /\ UNCHANGED <<ingress, packet, fresh, idle>> /\ UNCHANGED Teardown

ReplyPasses(s) ==
    /\ sock[s].reply = "reading" /\ sock[s].open /\ s \in idle
    /\ idle' = idle \ {s}
    /\ UNCHANGED <<ingress, packet, fresh, shards,
                   sock>> /\ UNCHANGED Counters /\ UNCHANGED Teardown

GoesIdle(s) ==
    /\ s \in InMap /\ s \notin idle
    /\ idle' = idle \cup {s}
    /\ UNCHANGED <<ingress, packet, fresh, shards,
                   sock>> /\ UNCHANGED Counters /\ UNCHANGED Teardown

(* expirer: the old sessions leave the shard under its lock ... *)
ExpirerTakes(c) ==
    /\ expirer = "running" /\ old = {}
    /\ shards[c] \in idle
    /\ old' = {shards[c]} /\ shards' = [shards EXCEPT ![c] = NoSession]
    /\ UNCHANGED <<ingress, packet, fresh, sock, idle, active, perIP, ending,
                   expirer, drain, taken, joined>>

(* ... and are closed and uncharged outside it. *)
ExpirerCloses(s) ==
    /\ s \in old
    /\ old' = old \ {s}
    /\ sock' = [sock EXCEPT ![s].open = FALSE]
    /\ ReleaseCounts(sock[s].client.ip)
    /\ UNCHANGED <<ingress, packet, fresh, shards, idle, ending, expirer, drain,
                   taken, joined>>

ExpirerExitsLast ==
    /\ expirer = "running" /\ old = {} /\ joined
    /\ expirer' = "done"
    /\ UNCHANGED <<ingress, packet, fresh, shards, sock, idle, active, perIP,
                   ending, old, drain, taken, joined>>

ExpirerExits ==
    /\ expirer = "running" /\ old = {} /\ ending
    /\ expirer' = "done"
    /\ UNCHANGED <<ingress, packet, fresh, shards, sock, idle, active, perIP,
                   ending, old, drain, taken, joined>>
------------------------------------------------------------------------------
(* closeOnce: by the owner, or by the watcher when the context ends. *)
UdpClose ==
    /\ ~ending
    /\ ending' = TRUE /\ drain' = UdpClients
    /\ UNCHANGED <<ingress, packet, fresh, shards, sock, idle, active, perIP,
                   expirer, old, taken, joined>>

(* The shards are emptied one by one, in the order of the slice. *)
CloseTakes ==
    /\ ending /\ drain # {} /\ taken = {}
    /\ LET c == CHOOSE c \in drain : TRUE
       IN  /\ drain' = drain \ {c}
           /\ taken' = IF shards[c] = NoSession THEN {} ELSE {shards[c]}
           /\ shards' = [shards EXCEPT ![c] = NoSession]
    /\ UNCHANGED <<ingress, packet, fresh, sock, idle, active, perIP, ending,
                   expirer, old, joined>>

CloseCloses(s) ==
    /\ s \in taken
    /\ taken' = taken \ {s}
    /\ sock' = [sock EXCEPT ![s].open = FALSE]
    /\ ReleaseCounts(sock[s].client.ip)
    /\ UNCHANGED <<ingress, packet, fresh, shards, idle, ending, expirer, old,
                   drain, joined>>

(* wg.Wait: the expirer and every reply loop; the ingress loop is not in   *)
(* the group.                                                              *)
UdpJoin ==
    /\ ending /\ drain = {} /\ taken = {} /\ ~joined
    /\ expirer # "running" /\ \A s \in Sockets : sock[s].reply # "reading"
    /\ joined' = TRUE
    /\ UNCHANGED <<ingress, packet, fresh, shards, sock, idle, active, perIP,
                   ending, expirer, old, drain, taken>>
------------------------------------------------------------------------------
UdpInit ==
    /\ ingress = "idle" /\ packet = (CHOOSE c \in UdpClients : TRUE) /\ fresh = NoSession
    /\ shards = [c \in UdpClients |-> NoSession]
    /\ sock = [s \in Sockets |-> Unused]
    /\ idle = {} /\ active = 0 /\ perIP = [i \in Ips |-> 0]
    /\ ending = FALSE /\ expirer = "none" /\ old = {} /\ drain = {} /\ taken = {} /\ joined = FALSE

IngressWork == UdpReserve \/ UdpDials \/ UdpDialFails \/ Insert \/ FirstWrite
ExpirerWork == ExpirerExits \/ (\E c \in UdpClients : ExpirerTakes(c)) \/ (\E s \in Sockets : ExpirerCloses(s))
CloserWork == UdpJoin \/ CloseTakes \/ (\E s \in Sockets : CloseCloses(s))

UdpNext ==
    \/ UdpRunStarts \/ UdpRunEnds \/ UdpClose
    \/ IngressWork \/ ExpirerWork \/ CloserWork
    \/ \E c \in UdpClients : Datagram(c)
    \/ \E s \in Sockets : ReplyEnds(s) \/ ReplyPasses(s) \/ GoesIdle(s)

(* Goroutines run, a dial has a deadline, the sweep ticker ticks, and a    *)
(* read of a closed socket returns.                                        *)
UdpFairness ==
    /\ WF_udpVars(IngressWork) /\ WF_udpVars(ExpirerWork) /\ WF_udpVars(CloserWork)
    /\ \A s \in Sockets : WF_udpVars(~sock[s].open /\ ReplyEnds(s))

UdpSpec == UdpInit /\ [][UdpNext]_udpVars /\ UdpFairness
------------------------------------------------------------------------------
(* The loops and tables stay well formed, and no counter passes its limit. *)
UdpTypeOK ==
    /\ ingress \in {"idle", "read", "reserve", "dial", "insert", "write", "done"}
    /\ packet \in UdpClients /\ fresh \in Sockets \cup {NoSession}
    /\ shards \in [UdpClients -> Sockets \cup {NoSession}]
    /\ sock \in [Sockets -> [client : UdpClients, open : BOOLEAN, reply : {"none", "reading", "done"}]]
    /\ idle \subseteq Sockets /\ old \subseteq Sockets /\ taken \subseteq Sockets
    /\ drain \subseteq UdpClients /\ expirer \in {"none", "running", "done"}
    /\ ending \in BOOLEAN /\ joined \in BOOLEAN
    /\ active \in Nat /\ perIP \in [Ips -> Nat]
    /\ MaxSessions > 0 => active <= MaxSessions
    /\ MaxSessionsPerIP > 0 => \A i \in Ips : perIP[i] <= MaxSessionsPerIP

Charged == InMap \cup old \cup taken
InHand == ingress \in {"dial", "insert"}

(* A session is in one place only: in the shard of its client, with the    *)
(* expirer or with Close.  An open socket is one of these sessions or the  *)
(* candidate, whose client has no session yet: the branch of forward that  *)
(* finds an existing one is never taken, with one ingress loop.            *)
OneHolderPerSession ==
    /\ \A c \in UdpClients : shards[c] # NoSession => sock[shards[c]].client = c
    /\ InMap \cap (old \cup taken) = {} /\ old \cap taken = {}
    /\ \A s \in Charged : sock[s].reply # "none"
    /\ \A s \in Sockets : sock[s].open => s \in Charged \/ (s = fresh /\ ingress = "insert")
    /\ ingress \in {"insert", "write"} => fresh \in Sockets
    /\ ingress = "insert" => sock[fresh].client = packet /\ sock[fresh].reply = "none"
    /\ ingress = "write" => sock[fresh].reply # "none"
    /\ ingress \in {"reserve", "dial", "insert"} => shards[packet] = NoSession

(* Close empties each shard once, and nothing enters one behind it; the    *)
(* expirer stays until it has closed what it took.                         *)
DrainInOrder ==
    /\ ending => \A c \in UdpClients \ drain : shards[c] = NoSession
    /\ old # {} => expirer = "running"
    /\ joined => ending /\ drain = {} /\ Charged = {}

(* Every charge has one holder: the counters equal the sessions in the     *)
(* shards, in the hands of the expirer or of Close, and the one being      *)
(* dialed, and never fall short of the sockets that are open.              *)
CountersAreExact ==
    /\ active = Cardinality(Charged) + (IF InHand THEN 1 ELSE 0)
    /\ \A i \in Ips : perIP[i] = Cardinality({s \in Charged : sock[s].client.ip = i})
                                 + (IF InHand /\ packet.ip = i THEN 1 ELSE 0)
    /\ Cardinality({s \in Sockets : sock[s].open}) <= active

(* After Close has joined, no session, reply loop or backend socket is     *)
(* left but the candidate that the ingress loop is about to throw away.    *)
UdpClosedIsDrained ==
    joined => /\ InMap = {}
              /\ \A s \in Sockets : /\ sock[s].reply # "reading"
                                    /\ sock[s].open => s = fresh /\ ingress = "insert"

(* The sessions of a UDP Forward are accounted for from the first datagram *)
(* to Close: the counters are exact and a joined Close left none behind.   *)
UdpInv ==
    /\ UdpTypeOK /\ CountersAreExact /\ UdpClosedIsDrained
    /\ OneHolderPerSession /\ DrainInOrder

(* Close returns every charge, that of a dial in flight included, and      *)
(* joins the expirer and every reply loop.                                 *)
ChargesReturn == ending ~> (joined /\ active = 0)
==============================================================================
