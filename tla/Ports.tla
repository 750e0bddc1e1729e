-------------------------------- MODULE Ports --------------------------------
(***************************************************************************)
(* Socket ownership: the agent-global PortRegistry                         *)
(* (internal/traversal/portregistry.go) and the SharedPortRegistry of      *)
(* reuse-enabled listeners (internal/traversal/stun/sharedport.go), over   *)
(* the port space of the host.  Acquire is one critical section.  The      *)
(* plain Release checks its entry, closes the socket outside the lock and  *)
(* checks again; the shared Release runs under the lock, and races the     *)
(* connections that DialFrom opens from the same tuple.                    *)
(***************************************************************************)
EXTENDS Naturals, FiniteSets

CONSTANTS Owners, PortNumbers, MaxLeases

ASSUME PortsAssumption == MaxLeases \in Nat

VARIABLES table,       \* per registry: tuple -> lease, or NoLeaseId
          generation,  \* per registry: the generation counter
          lease,       \* the leases issued
          opened,      \* leases whose listening socket is open
          calls,       \* plain Release calls in progress
          dials,       \* per shared lease: the connection being dialed
          released     \* shared leases whose Release ran

portVars == <<table, generation, lease, opened, calls, dials, released>>

Registries == {"plain", "shared"}
Wildcard == "0.0.0.0"
Tuples == [proto : {"tcp", "udp"}, addr : {Wildcard, "source"}, port : PortNumbers]
Leases == 1..MaxLeases
NoLeaseId == 0
Callers == {"drain", "stop"}
Vacant == [reg |-> "none", key |-> [proto |-> "tcp", addr |-> Wildcard, port |-> 0],
           owner |-> "none", gen |-> 0]

(* TupleKey.overlaps, and sharedOverlaps: same protocol and port, with     *)
(* equal or wildcard addresses.                                            *)
Overlaps(k, m) ==
    /\ k.proto = m.proto /\ k.port = m.port
    /\ k.addr = m.addr \/ Wildcard \in {k.addr, m.addr}

OverlapsLocked(r, k) == \E m \in Tuples : table[r][m] # NoLeaseId /\ Overlaps(m, k)

(* External: the host refuses a bind that conflicts with an open socket,   *)
(* unless both sockets carry the reuse options.                            *)
HostRefuses(r, k) ==
    \E l \in opened : /\ Overlaps(lease[l].key, k)
                      /\ ~(r = "shared" /\ lease[l].reg = "shared")

(* Acquire and AcquireUDP: overlap check, bind, and publication of the     *)
(* actual tuple.  A request for port 0 is checked on the port it got.      *)
(* The shared registry, which serves TCP only, proceeds the same way.      *)
Acquire(r, o, k) ==
    /\ ~OverlapsLocked(r, k) /\ ~HostRefuses(r, k)
    /\ \E l \in Leases :
        /\ lease[l] = Vacant /\ \A m \in 1..(l - 1) : lease[m] # Vacant
        /\ generation' = [generation EXCEPT ![r] = @ + 1]
        /\ lease' = [lease EXCEPT ![l] = [reg |-> r, key |-> k, owner |-> o, gen |-> generation[r] + 1]]
        /\ table' = [table EXCEPT ![r][k] = l]
        /\ opened' = opened \cup {l}
    /\ UNCHANGED <<calls, dials, released>>

SharedAcquire(o, k) == k.proto = "tcp" /\ Acquire("shared", o, k)

CurrentByOwner(l) ==
    LET e == table[lease[l].reg][lease[l].key]
    IN  e # NoLeaseId /\ lease[e].owner = lease[l].owner

(* The entry still matches the owner, the generation and the lease. *)
Current(l) ==
    LET e == table[lease[l].reg][lease[l].key]
    IN  /\ e # NoLeaseId
        /\ lease[e].owner = lease[l].owner /\ lease[e].gen = lease[l].gen /\ e = l

(* PortRegistry.release, first check; two callers may overlap. *)
ReleaseCheck(l, c) ==
    /\ lease[l].reg = "plain" /\ calls[l][c] = "none" /\ Current(l)
    /\ calls' = [calls EXCEPT ![l][c] = "checked"]
    /\ UNCHANGED <<table, generation, lease, opened, dials, released>>

(* closeSocket outside the lock.  net.ErrClosed counts as closed; another  *)
(* failure returns with the entry in place, to be retried.                 *)
ReleaseClose(l, c) ==
    /\ calls[l][c] = "checked"
    /\ \/ opened' = opened \ {l} /\ calls' = [calls EXCEPT ![l][c] = "closed"]
       \/ l \in opened /\ calls' = [calls EXCEPT ![l][c] = "none"] /\ UNCHANGED opened
    /\ UNCHANGED <<table, generation, lease, dials, released>>

(* The second check: only the entry of this very lease is removed. *)
ReleaseFinish(l, c) ==
    /\ calls[l][c] = "closed"
    /\ table' = IF Current(l) THEN [table EXCEPT !["plain"][lease[l].key] = NoLeaseId] ELSE table
    /\ calls' = [calls EXCEPT ![l][c] = "none"]
    /\ UNCHANGED <<generation, lease, opened, dials, released>>

(* The data plane closes the listener it serves before it releases it. *)
ForwardCloses(l) ==
    /\ l \in opened
    /\ opened' = opened \ {l}
    /\ UNCHANGED <<table, generation, lease, calls, dials, released>>
------------------------------------------------------------------------------
(* SharedPortLease.Dial checks released, connects without a lock, and      *)
(* checks again before it hands the socket to the lease.                   *)
DialBegin(l) ==
    /\ lease[l].reg = "shared" /\ dials[l] = "none" /\ Current(l) /\ l \notin released
    /\ dials' = [dials EXCEPT ![l] = "dialing"]
    /\ UNCHANGED <<table, generation, lease, opened, calls, released>>

DialEnds(l) ==
    /\ dials[l] = "dialing"
    /\ dials' = [dials EXCEPT ![l] = IF l \in released THEN "none" ELSE "owned"]
    /\ UNCHANGED <<table, generation, lease, opened, calls, released>>

DialFails(l) ==
    /\ dials[l] = "dialing"
    /\ dials' = [dials EXCEPT ![l] = "none"]
    /\ UNCHANGED <<table, generation, lease, opened, calls, released>>

(* The observer closes the connection after its exchange. *)
ObserverCloses(l) ==
    /\ dials[l] = "owned"
    /\ dials' = [dials EXCEPT ![l] = "none"]
    /\ UNCHANGED <<table, generation, lease, opened, calls, released>>

(* SharedPortLease.Release: the connections go first; a listener that      *)
(* does not close keeps the entry.                                         *)
SharedRelease(l) ==
    /\ lease[l].reg = "shared" /\ Current(l)
    /\ released' = released \cup {l}
    /\ dials' = [dials EXCEPT ![l] = IF @ = "owned" THEN "none" ELSE @]
    /\ \/ /\ opened' = opened \ {l}
          /\ table' = [table EXCEPT !["shared"][lease[l].key] = NoLeaseId]
       \/ l \in opened /\ UNCHANGED <<opened, table>>
    /\ UNCHANGED <<generation, lease, calls>>
------------------------------------------------------------------------------
PortsInit ==
    /\ table = [r \in Registries |-> [k \in Tuples |-> NoLeaseId]]
    /\ generation = [r \in Registries |-> 0]
    /\ lease = [l \in Leases |-> Vacant]
    /\ opened = {} /\ released = {}
    /\ calls = [l \in Leases |-> [c \in Callers |-> "none"]]
    /\ dials = [l \in Leases |-> "none"]

PortsNext ==
    \/ \E o \in Owners, k \in Tuples : Acquire("plain", o, k) \/ SharedAcquire(o, k)
    \/ \E l \in Leases, c \in Callers : ReleaseCheck(l, c) \/ ReleaseClose(l, c) \/ ReleaseFinish(l, c)
    \/ \E l \in Leases : \/ ForwardCloses(l) \/ SharedRelease(l)
                         \/ DialBegin(l) \/ DialEnds(l) \/ DialFails(l) \/ ObserverCloses(l)

PortsSpec == PortsInit /\ [][PortsNext]_portVars
------------------------------------------------------------------------------
IssuedLeases == [reg : Registries, key : Tuples, owner : Owners, gen : 1..MaxLeases]

(* The tables, the leases and the release calls stay well formed. *)
PortsTypeOK ==
    /\ table \in [Registries -> [Tuples -> 0..MaxLeases]]
    /\ generation \in [Registries -> 0..MaxLeases]
    /\ lease \in [Leases -> IssuedLeases \cup {Vacant}]
    /\ opened \subseteq Leases /\ released \subseteq Leases
    /\ calls \in [Leases -> [Callers -> {"none", "checked", "closed"}]]
    /\ dials \in [Leases -> {"none", "dialing", "owned"}]

(* Leases are numbered in the order of issue over both registries, and a   *)
(* generation names one lease of its registry: what the stale releases of  *)
(* an earlier lease are told apart by.                                     *)
LeasesNumbered ==
    /\ \E n \in 0..MaxLeases :
        /\ \A l \in Leases : lease[l] # Vacant <=> l <= n
        /\ generation["plain"] + generation["shared"] = n
    /\ \A l \in Leases : lease[l] # Vacant => lease[l].gen <= generation[lease[l].reg]
    /\ \A l, m \in Leases :
        l # m /\ lease[l] # Vacant /\ lease[l].reg = lease[m].reg => lease[l].gen # lease[m].gen

(* One tuple, one owner: no two entries of a registry overlap, and no two  *)
(* listening sockets of the agent do, whichever registry issued them.      *)
OneOwnerPerTuple ==
    /\ \A r \in Registries : \A k, m \in Tuples :
        k # m /\ NoLeaseId \notin {table[r][k], table[r][m]} => ~Overlaps(k, m)
    /\ \A l, m \in opened : l # m => ~Overlaps(lease[l].key, lease[m].key)

(* No socket outlives its ownership: an open listener has its entry, and a *)
(* connection handed to a lease belongs to one that is not released.  A    *)
(* stale release, a failed close or a dial that loses the race to Release  *)
(* leaves neither an unowned descriptor nor a live socket without entry.   *)
SocketsAreOwned ==
    /\ \A l \in opened : table[lease[l].reg][lease[l].key] = l
    /\ \A l \in Leases : dials[l] = "owned" =>
        l \notin released /\ table["shared"][lease[l].key] = l

(* An entry points to a lease of its registry and tuple. *)
EntriesMatchLeases ==
    /\ \A r \in Registries : \A k \in Tuples : table[r][k] # NoLeaseId =>
        lease[table[r][k]].reg = r /\ lease[table[r][k]].key = k
    /\ \A l \in opened \cup released : lease[l] # Vacant

(* The calls in progress: a Release that closed its socket still finds it  *)
(* closed at its second check, and a dial belongs to a shared lease that   *)
(* keeps its entry until Release runs (release, Dial).                     *)
CallsMatchLeases ==
    /\ \A l \in Leases, c \in Callers :
        /\ calls[l][c] # "none" => lease[l].reg = "plain"
        /\ calls[l][c] = "closed" => l \notin opened
    /\ \A l \in Leases :
        /\ dials[l] # "none" => lease[l].reg = "shared"
        /\ dials[l] # "none" /\ l \notin released => table["shared"][lease[l].key] = l

(* Tuples and sockets have one owner each, in both registries and over     *)
(* releases that come late, twice or during a dial (portregistry.go).      *)
PortOwnership ==
    /\ PortsTypeOK /\ OneOwnerPerTuple /\ SocketsAreOwned
    /\ LeasesNumbered /\ EntriesMatchLeases /\ CallsMatchLeases
==============================================================================
