--------------------------- MODULE TraversalProofs ---------------------------
(***************************************************************************)
(* Proofs about the traversal components: who owns a port and a socket     *)
(* (Ports), what becomes of the gateway mapping of a Forward (MappingLife) *)
(* and what the exchanges of a mapping client conclude (GatewayExchange).  *)
(* The three share no variable; each invariant is inductive by itself.     *)
(***************************************************************************)
EXTENDS MappingLife, Ports, GatewayExchange, TLAPS

USE Zenon
-----------------------------------------------------------------------------
(* Ports *)

(* Both registries start empty.                                            *)
LEMMA PortsInitial == PortsInit => PortOwnership
<1> SUFFICES ASSUME PortsInit PROVE PortOwnership
  OBVIOUS
<1> USE PortsAssumption DEF PortsInit, Leases, NoLeaseId
<1>1. PortsTypeOK
  BY SMT DEF PortsTypeOK
<1>2. OneOwnerPerTuple /\ SocketsAreOwned /\ EntriesMatchLeases /\ CallsMatchLeases
  BY DEF OneOwnerPerTuple, SocketsAreOwned, EntriesMatchLeases, CallsMatchLeases
<1>3. LeasesNumbered
  BY SMT DEF LeasesNumbered, Registries
<1> QED
  BY <1>1, <1>2, <1>3 DEF PortOwnership

(* What the fields of an issued lease may be, in the form the steps use.    *)
LEMMA LeaseFields ==
  ASSUME PortsTypeOK, NEW l \in Leases
  PROVE  \/ lease[l] = Vacant /\ lease[l].reg = "none"
         \/ /\ lease[l] # Vacant /\ lease[l].reg \in Registries /\ lease[l].key \in Tuples
            /\ lease[l].gen \in 1..MaxLeases
<1>1. lease[l] \in IssuedLeases \cup {Vacant}
  BY DEF PortsTypeOK
<1>2. CASE lease[l] \in IssuedLeases
  BY SMT, <1>2 DEF IssuedLeases, Vacant, Registries
<1>3. CASE lease[l] = Vacant
  BY SMT, <1>3 DEF Vacant
<1> QED
  BY <1>1, <1>2, <1>3

(* Acquire publishes a fresh lease on a tuple nothing overlaps, in the     *)
(* registry or on the host.                                                *)
LEMMA AcquireStep ==
  ASSUME PortOwnership, NEW r \in Registries, NEW o \in Owners, NEW k \in Tuples, Acquire(r, o, k)
  PROVE  PortOwnership'
<1> USE PortsAssumption DEF NoLeaseId
<1> DEFINE new == [reg |-> r, key |-> k, owner |-> o, gen |-> generation[r] + 1]
<1>0. PortsTypeOK /\ OneOwnerPerTuple /\ SocketsAreOwned
      /\ LeasesNumbered /\ EntriesMatchLeases /\ CallsMatchLeases
  BY DEF PortOwnership
<1>1. PICK l \in Leases :
        /\ lease[l] = Vacant /\ \A m \in 1..(l - 1) : lease[m] # Vacant
        /\ generation' = [generation EXCEPT ![r] = @ + 1]
        /\ lease' = [lease EXCEPT ![l] = new]
        /\ table' = [table EXCEPT ![r][k] = l]
        /\ opened' = opened \cup {l}
  BY DEF Acquire
<1>2. UNCHANGED <<calls, dials, released>> /\ ~OverlapsLocked(r, k) /\ ~HostRefuses(r, k)
  BY DEF Acquire
<1>3. table[r][k] = 0
  BY <1>2 DEF OverlapsLocked, Overlaps
<1>4. PICK n \in 0..MaxLeases :
        /\ \A m \in Leases : lease[m] # Vacant <=> m <= n
        /\ generation["plain"] + generation["shared"] = n
  BY <1>0 DEF LeasesNumbered
<1>5. l = n + 1 /\ n + 1 \in 0..MaxLeases
  <2>1. ~(l <= n)
    BY <1>1, <1>4
  <2>2. ASSUME l > n + 1 PROVE FALSE
    <3>1. n + 1 \in 1..(l - 1) /\ n + 1 \in Leases
      BY SMT, <2>2 DEF Leases
    <3> QED
      BY SMT, <3>1, <1>1, <1>4
  <2> QED
    BY SMT, <2>1, <2>2 DEF Leases
<1>6. generation[r] + 1 \in 1..MaxLeases
  BY SMT, <1>0, <1>4, <1>5 DEF PortsTypeOK, Registries
<1>7. new \in IssuedLeases /\ new # Vacant
  BY <1>6 DEF IssuedLeases, Vacant, Registries
<1>8. /\ lease'[l] = new /\ \A m \in Leases : m # l => lease'[m] = lease[m]
      /\ table'[r][k] = l
      /\ \A q \in Registries, m \in Tuples : q # r \/ m # k => table'[q][m] = table[q][m]
  BY <1>0, <1>1 DEF PortsTypeOK
<1>9. PortsTypeOK'
  BY SMT, <1>0, <1>1, <1>2, <1>5, <1>6, <1>7 DEF PortsTypeOK, Leases
<1>10. LeasesNumbered'
  <2>1. /\ \A m \in Leases : lease'[m] # Vacant <=> m <= n + 1
        /\ generation'["plain"] + generation'["shared"] = n + 1
    BY SMT, <1>0, <1>1, <1>4, <1>5, <1>7, <1>8 DEF PortsTypeOK, Registries, Leases
  <2>2. \A q \in Registries : generation'[q] = IF q = r THEN generation[q] + 1 ELSE generation[q]
    BY <1>0, <1>1 DEF PortsTypeOK
  <2>3. ASSUME NEW m \in Leases, lease'[m] # Vacant
        PROVE  lease'[m].gen <= generation'[lease'[m].reg]
    <3>1. CASE m = l
      BY SMT, <3>1, <1>8, <1>6, <2>2
    <3>2. CASE m # l
      <4>1. /\ lease[m] # Vacant /\ lease[m].reg \in Registries /\ lease[m].gen \in Nat
            /\ lease[m].gen <= generation[lease[m].reg] /\ generation[lease[m].reg] \in Nat
        BY SMT, <3>2, <2>3, <1>0, <1>8, LeaseFields DEF LeasesNumbered, PortsTypeOK
      <4> QED
        BY SMT, <4>1, <3>2, <1>8, <2>2
    <3> QED
      BY <3>1, <3>2
  <2>4. ASSUME NEW a \in Leases, NEW b \in Leases, a # b, lease'[a] # Vacant,
               lease'[a].reg = lease'[b].reg
        PROVE  lease'[a].gen # lease'[b].gen
    <3>1. lease'[b] # Vacant
      BY SMT, <2>4, <1>0, <1>8, <1>7, LeaseFields DEF Registries
    <3>2. ASSUME NEW m \in Leases, m # l, lease[m] # Vacant, lease[m].reg = r
          PROVE  lease[m].gen # generation[r] + 1
      BY SMT, <3>2, <1>0, <1>6, LeaseFields DEF LeasesNumbered, PortsTypeOK
    <3>3. CASE a = l
      BY SMT, <3>1, <3>2, <3>3, <2>4, <1>8
    <3>4. CASE b = l
      BY SMT, <3>1, <3>2, <3>4, <2>4, <1>8
    <3>5. CASE a # l /\ b # l
      BY SMT, <3>5, <2>4, <1>0, <1>8 DEF LeasesNumbered
    <3> QED
      BY <3>3, <3>4, <3>5
  <2> QED
    BY <2>1, <2>3, <2>4, <1>5 DEF LeasesNumbered
<1>11. \A q \in Registries, m \in Tuples : table'[q][m] = l <=> q = r /\ m = k
  <2>1. l # 0 /\ lease[l].reg \notin Registries
    BY SMT, <1>1 DEF Leases, Vacant, Registries
  <2> QED
    BY SMT, <2>1, <1>0, <1>8 DEF EntriesMatchLeases
<1>12. EntriesMatchLeases'
  <2>1. ASSUME NEW q \in Registries, NEW m \in Tuples, table'[q][m] # 0
        PROVE  lease'[table'[q][m]].reg = q /\ lease'[table'[q][m]].key = m
    <3>1. CASE q = r /\ m = k
      BY SMT, <3>1, <1>8
    <3>2. CASE q # r \/ m # k
      <4>1. table'[q][m] = table[q][m] /\ table[q][m] \in Leases /\ table[q][m] # l
        BY SMT, <3>2, <2>1, <1>0, <1>8, <1>11 DEF PortsTypeOK, Leases
      <4> QED
        BY SMT, <4>1, <2>1, <1>0, <1>8 DEF EntriesMatchLeases
    <3> QED
      BY <3>1, <3>2
  <2>2. \A m \in opened' \cup released' : lease'[m] # Vacant
    BY <1>0, <1>1, <1>2, <1>7, <1>8 DEF EntriesMatchLeases, PortsTypeOK
  <2> QED
    BY <2>1, <2>2 DEF EntriesMatchLeases
<1>13. ASSUME NEW m \in Leases, m # l, lease[m].reg \in Registries, table[lease[m].reg][lease[m].key] = m
       PROVE  table'[lease[m].reg][lease[m].key] = m
  BY SMT, <1>13, <1>0, <1>1, <1>3, <1>8, LeaseFields DEF Registries, Leases
<1>14. CallsMatchLeases'
  <2>1. \A c \in Callers : calls[l][c] = "none" /\ dials[l] = "none"
    BY <1>0, <1>1, LeaseFields DEF CallsMatchLeases, PortsTypeOK
  <2>2. ASSUME NEW m \in Leases, NEW c \in Callers
        PROVE  /\ calls'[m][c] # "none" => lease'[m].reg = "plain"
               /\ calls'[m][c] = "closed" => m \notin opened'
    BY SMT, <2>1, <1>0, <1>1, <1>2, <1>8 DEF CallsMatchLeases
  <2>3. ASSUME NEW m \in Leases, dials'[m] # "none"
        PROVE  /\ lease'[m].reg = "shared"
               /\ m \notin released' => table'["shared"][lease'[m].key] = m
    BY SMT, <2>1, <2>3, <1>0, <1>2, <1>8, <1>13 DEF CallsMatchLeases, Registries, Callers
  <2> QED
    BY <2>2, <2>3 DEF CallsMatchLeases
<1>15. SocketsAreOwned'
  <2>1. ASSUME NEW m \in opened' PROVE table'[lease'[m].reg][lease'[m].key] = m
    <3>1. CASE m = l
      BY SMT, <3>1, <1>8
    <3>2. CASE m # l
      BY SMT, <3>2, <1>0, <1>1, <1>8, <1>13, LeaseFields DEF SocketsAreOwned, EntriesMatchLeases, PortsTypeOK
    <3> QED
      BY <3>1, <3>2
  <2>2. ASSUME NEW m \in Leases, dials'[m] = "owned"
        PROVE  m \notin released' /\ table'["shared"][lease'[m].key] = m
    BY <2>2, <1>0, <1>2, <1>14 DEF SocketsAreOwned, CallsMatchLeases
  <2> QED
    BY <2>1, <2>2 DEF SocketsAreOwned
<1>16. OneOwnerPerTuple'
  <2>1. ASSUME NEW a \in opened, Overlaps(lease[a].key, k) \/ Overlaps(k, lease[a].key)
        PROVE  FALSE
    <3>1. Overlaps(lease[a].key, k)
      BY <2>1 DEF Overlaps
    <3>2. r = "shared" /\ lease[a].reg = "shared"
      BY <3>1, <1>2 DEF HostRefuses
    <3>3. table["shared"][lease[a].key] = a /\ a # 0 /\ lease[a].key \in Tuples
      BY SMT, <3>2, <1>0, LeaseFields DEF SocketsAreOwned, PortsTypeOK, Leases
    <3> QED
      BY <3>1, <3>2, <3>3, <1>2 DEF OverlapsLocked
  <2>2. \A a, b \in opened' : a # b => ~Overlaps(lease'[a].key, lease'[b].key)
    BY SMT, <2>1, <1>0, <1>1, <1>8 DEF OneOwnerPerTuple, PortsTypeOK
  <2>3. \A m \in Tuples : table[r][m] # 0 => ~Overlaps(m, k) /\ ~Overlaps(k, m)
    BY <1>2 DEF OverlapsLocked, Overlaps
  <2>4. \A q \in Registries : \A a, b \in Tuples :
          a # b /\ NoLeaseId \notin {table'[q][a], table'[q][b]} => ~Overlaps(a, b)
    BY SMT, <2>3, <1>0, <1>8 DEF OneOwnerPerTuple
  <2> QED
    BY <2>2, <2>4 DEF OneOwnerPerTuple
<1> QED
  BY <1>9, <1>10, <1>12, <1>14, <1>15, <1>16 DEF PortOwnership

(* A step of a release or of a dial leaves leases and their numbers alone. *)
LEMMA LeasesKept ==
  ASSUME LeasesNumbered, UNCHANGED <<generation, lease>>
  PROVE  LeasesNumbered'
BY DEF LeasesNumbered

(* The plain Release: its first check, the close outside the lock, and the *)
(* second check, which may find the tuple with a later lease.              *)
LEMMA ReleaseSteps ==
  ASSUME PortOwnership, NEW l \in Leases, NEW c \in Callers,
         ReleaseCheck(l, c) \/ ReleaseClose(l, c) \/ ReleaseFinish(l, c) \/ ForwardCloses(l)
  PROVE  PortOwnership'
<1> USE PortsAssumption DEF NoLeaseId
<1>0. PortsTypeOK /\ OneOwnerPerTuple /\ SocketsAreOwned
      /\ LeasesNumbered /\ EntriesMatchLeases /\ CallsMatchLeases
  BY DEF PortOwnership
<1>1. UNCHANGED <<generation, lease, dials, released>> /\ opened' \subseteq opened
  BY DEF ReleaseCheck, ReleaseClose, ReleaseFinish, ForwardCloses
<1>2. LeasesNumbered'
  BY <1>0, <1>1, LeasesKept
<1>3. CASE ReleaseCheck(l, c) \/ ReleaseClose(l, c) \/ ForwardCloses(l)
  <2>1. table' = table
    BY <1>3 DEF ReleaseCheck, ReleaseClose, ForwardCloses
  <2>2. \/ calls' = calls
        \/ lease[l].reg = "plain" /\ calls' = [calls EXCEPT ![l][c] = "checked"]
        \/ lease[l].reg = "plain" /\ calls' = [calls EXCEPT ![l][c] = "none"]
        \/ lease[l].reg = "plain" /\ l \notin opened' /\ calls' = [calls EXCEPT ![l][c] = "closed"]
    BY <1>3, <1>0 DEF ReleaseCheck, ReleaseClose, ForwardCloses, CallsMatchLeases
  <2>3. calls' \in [Leases -> [Callers -> {"none", "checked", "closed"}]]
    <3>1. calls \in [Leases -> [Callers -> {"none", "checked", "closed"}]]
      BY <1>0 DEF PortsTypeOK
    <3> QED
      BY SMT, <2>2, <3>1
  <2>4. PortsTypeOK'
    BY <2>1, <2>3, <1>0, <1>1 DEF PortsTypeOK
  <2>5. OneOwnerPerTuple' /\ SocketsAreOwned' /\ EntriesMatchLeases'
    BY <2>1, <1>0, <1>1 DEF OneOwnerPerTuple, SocketsAreOwned, EntriesMatchLeases
  <2>6. ASSUME NEW m \in Leases, NEW d \in Callers
        PROVE  /\ calls'[m][d] # "none" => lease[m].reg = "plain"
               /\ calls'[m][d] = "closed" => m \notin opened'
    <3>1. CASE m = l /\ d = c
      BY SMT, <3>1, <2>2, <1>0, <1>1 DEF CallsMatchLeases, PortsTypeOK
    <3>2. CASE m # l \/ d # c
      BY SMT, <3>2, <2>2, <1>0, <1>1 DEF CallsMatchLeases, PortsTypeOK
    <3> QED
      BY <3>1, <3>2
  <2>7. CallsMatchLeases'
    BY <2>1, <2>6, <1>0, <1>1 DEF CallsMatchLeases
  <2> QED
    BY <1>2, <2>4, <2>5, <2>7 DEF PortOwnership
<1>4. CASE ReleaseFinish(l, c)
  <2>1. l \notin opened /\ lease[l].reg = "plain" /\ lease[l].key \in Tuples
    BY <1>4, <1>0, LeaseFields DEF ReleaseFinish, CallsMatchLeases
  <2>2. opened' = opened /\ calls' = [calls EXCEPT ![l][c] = "none"]
    BY <1>4 DEF ReleaseFinish
  <2>3. \/ table' = table
        \/ /\ table["plain"][lease[l].key] = l
           /\ table' = [table EXCEPT !["plain"][lease[l].key] = 0]
    BY <1>4, <2>1 DEF ReleaseFinish, Current
  <2>4. /\ table' \in [Registries -> [Tuples -> 0..MaxLeases]]
        /\ \A q \in Registries, k \in Tuples :
             \/ table'[q][k] = table[q][k]
             \/ q = "plain" /\ table[q][k] = l /\ table'[q][k] = 0
    BY SMT, <2>1, <2>3, <1>0 DEF PortsTypeOK, Registries
  <2>5. PortsTypeOK'
    BY <2>2, <2>4, <1>0, <1>1 DEF PortsTypeOK
  <2>6. OneOwnerPerTuple'
    BY <2>2, <2>4, <1>0, <1>1 DEF OneOwnerPerTuple
  <2>7. EntriesMatchLeases'
    BY SMT, <2>2, <2>4, <1>0, <1>1 DEF EntriesMatchLeases
  <2>8. SocketsAreOwned'
    <3>1. ASSUME NEW m \in opened' PROVE table'[lease'[m].reg][lease'[m].key] = m
      BY SMT, <2>1, <2>2, <2>4, <1>0, <1>1, LeaseFields DEF SocketsAreOwned, EntriesMatchLeases, PortsTypeOK
    <3>2. ASSUME NEW m \in Leases, dials'[m] = "owned"
          PROVE  m \notin released' /\ table'["shared"][lease'[m].key] = m
      BY SMT, <3>2, <2>4, <1>0, <1>1, LeaseFields DEF SocketsAreOwned, CallsMatchLeases, Registries
    <3> QED
      BY <3>1, <3>2 DEF SocketsAreOwned
  <2>9. CallsMatchLeases'
    <3>1. ASSUME NEW m \in Leases, NEW d \in Callers
          PROVE  /\ calls'[m][d] # "none" => lease'[m].reg = "plain"
                 /\ calls'[m][d] = "closed" => m \notin opened'
      BY SMT, <2>2, <1>0, <1>1 DEF CallsMatchLeases, PortsTypeOK
    <3>2. ASSUME NEW m \in Leases, dials'[m] # "none"
          PROVE  /\ lease'[m].reg = "shared"
                 /\ m \notin released' => table'["shared"][lease'[m].key] = m
      BY <3>2, <2>4, <1>0, <1>1, LeaseFields DEF CallsMatchLeases, Registries
    <3> QED
      BY <3>1, <3>2 DEF CallsMatchLeases
  <2> QED
    BY <1>2, <2>5, <2>6, <2>7, <2>8, <2>9 DEF PortOwnership
<1> QED
  BY <1>3, <1>4

(* The shared Release and the dials that race it.                          *)
LEMMA SharedSteps ==
  ASSUME PortOwnership, NEW l \in Leases,
         SharedRelease(l) \/ DialBegin(l) \/ DialEnds(l) \/ DialFails(l) \/ ObserverCloses(l)
  PROVE  PortOwnership'
<1> USE PortsAssumption DEF NoLeaseId
<1>0. PortsTypeOK /\ OneOwnerPerTuple /\ SocketsAreOwned
      /\ LeasesNumbered /\ EntriesMatchLeases /\ CallsMatchLeases
  BY DEF PortOwnership
<1>1. UNCHANGED <<generation, lease, calls>> /\ LeasesNumbered'
  BY <1>0, LeasesKept DEF SharedRelease, DialBegin, DialEnds, DialFails, ObserverCloses
<1>2. CASE DialBegin(l) \/ DialEnds(l) \/ DialFails(l) \/ ObserverCloses(l)
  <2>1. UNCHANGED <<table, opened, released>>
    BY <1>2 DEF DialBegin, DialEnds, DialFails, ObserverCloses
  <2>2. \/ dials' = [dials EXCEPT ![l] = "none"]
        \/ /\ lease[l].reg = "shared" /\ table["shared"][lease[l].key] = l /\ l \notin released
           /\ dials' = [dials EXCEPT ![l] = "dialing"] \/ dials' = [dials EXCEPT ![l] = "owned"]
    BY <1>2, <1>0 DEF DialBegin, DialEnds, DialFails, ObserverCloses, CallsMatchLeases, Current
  <2>3. PortsTypeOK'
    BY <2>1, <2>2, <1>0, <1>1 DEF PortsTypeOK
  <2>4. OneOwnerPerTuple' /\ EntriesMatchLeases'
    BY <2>1, <1>0, <1>1 DEF OneOwnerPerTuple, EntriesMatchLeases
  <2>5. CallsMatchLeases' /\ SocketsAreOwned'
    BY SMT, <2>1, <2>2, <1>0, <1>1 DEF CallsMatchLeases, SocketsAreOwned, PortsTypeOK
  <2> QED
    BY <1>1, <2>3, <2>4, <2>5 DEF PortOwnership
<1>3. CASE SharedRelease(l)
  <2>1. lease[l].reg = "shared" /\ table["shared"][lease[l].key] = l /\ lease[l].key \in Tuples
        /\ lease[l] # Vacant
    BY <1>3, <1>0, LeaseFields DEF SharedRelease, Current
  <2>2. /\ released' = released \cup {l}
        /\ dials' = [dials EXCEPT ![l] = IF @ = "owned" THEN "none" ELSE @]
    BY <1>3 DEF SharedRelease
  <2>3. \/ UNCHANGED <<opened, table>>
        \/ /\ opened' = opened \ {l}
           /\ table' = [table EXCEPT !["shared"][lease[l].key] = 0]
    BY <1>3 DEF SharedRelease
  <2>4. /\ table' \in [Registries -> [Tuples -> 0..MaxLeases]] /\ opened' \subseteq opened
        /\ \A q \in Registries, k \in Tuples :
             \/ table'[q][k] = table[q][k]
             \/ q = "shared" /\ table[q][k] = l /\ table'[q][k] = 0 /\ l \notin opened'
    <3>1. table \in [Registries -> [Tuples -> 0..MaxLeases]] /\ "shared" \in Registries
      BY <1>0 DEF PortsTypeOK, Registries
    <3> QED
      BY SMT, <2>1, <2>3, <3>1
  <2>5. PortsTypeOK'
    BY <2>2, <2>4, <1>0, <1>1 DEF PortsTypeOK
  <2>6. OneOwnerPerTuple'
    BY <2>4, <1>0, <1>1 DEF OneOwnerPerTuple
  <2>7. EntriesMatchLeases'
    BY SMT, <2>1, <2>2, <2>4, <1>0, <1>1 DEF EntriesMatchLeases
  <2>8. ASSUME NEW m \in Leases, dials'[m] # "none"
        PROVE  dials[m] # "none" /\ (dials'[m] = "owned" => m # l /\ dials[m] = "owned")
    BY <2>8, <2>2, <1>0 DEF PortsTypeOK
  <2>9. CallsMatchLeases'
    <3>1. ASSUME NEW m \in Leases, dials'[m] # "none", m \notin released'
          PROVE  table'["shared"][lease'[m].key] = m
      BY SMT, <3>1, <2>2, <2>4, <2>8, <1>0, <1>1, LeaseFields DEF CallsMatchLeases, Registries
    <3> QED
      BY SMT, <3>1, <2>4, <2>8, <1>0, <1>1 DEF CallsMatchLeases
  <2>10. SocketsAreOwned'
    <3>1. ASSUME NEW m \in opened' PROVE table'[lease'[m].reg][lease'[m].key] = m
      <4>1. /\ m \in opened /\ m \in Leases /\ table[lease[m].reg][lease[m].key] = m
            /\ lease[m].reg \in Registries /\ lease[m].key \in Tuples
        BY <2>4, <1>0, LeaseFields DEF SocketsAreOwned, EntriesMatchLeases, PortsTypeOK
      <4> QED
        BY <4>1, <2>4, <1>1
    <3> QED
      BY <3>1, <2>2, <2>8, <2>9, <1>0 DEF SocketsAreOwned, CallsMatchLeases
  <2> QED
    BY <1>1, <2>5, <2>6, <2>7, <2>9, <2>10 DEF PortOwnership
<1> QED
  BY <1>2, <1>3

(* For every set of owners, of ports and number of leases, a tuple and a   *)
(* socket have one owner, whatever the releases and dials in progress.     *)
THEOREM PortsSafe == PortsSpec => []PortOwnership
<1>1. PortOwnership /\ [PortsNext]_portVars => PortOwnership'
  <2> SUFFICES ASSUME PortOwnership, [PortsNext]_portVars PROVE PortOwnership'
    OBVIOUS
  <2>1. CASE \E o \in Owners, k \in Tuples : Acquire("plain", o, k) \/ SharedAcquire(o, k)
    BY <2>1, AcquireStep DEF SharedAcquire, Registries
  <2>2. CASE UNCHANGED portVars
    <3> USE <2>2 DEF portVars, PortOwnership
    <3>1. PortsTypeOK' /\ LeasesNumbered'
      BY DEF PortsTypeOK, LeasesNumbered
    <3>2. OneOwnerPerTuple'
      BY DEF OneOwnerPerTuple
    <3>3. SocketsAreOwned' /\ EntriesMatchLeases'
      BY DEF SocketsAreOwned, EntriesMatchLeases
    <3>4. CallsMatchLeases'
      BY DEF CallsMatchLeases
    <3> QED
      BY <3>1, <3>2, <3>3, <3>4
  <2>3. "drain" \in Callers
    BY DEF Callers
  <2> QED
    BY <2>1, <2>2, <2>3, ReleaseSteps, SharedSteps DEF PortsNext
<1> QED
  BY <1>1, PortsInitial, PTL DEF PortsSpec

-----------------------------------------------------------------------------
(* MappingLife *)

(* The stop of a deletion has captured the actors of the Forward.           *)
Stopped == cmd \in {"stopping", "complete"} \/ erased = "done"

(* What LifeInv says of one acquisition.                                    *)
Tracked(i) ==
    /\ i \in held => Owned(i) \/ i \in journal \/ i \in excused
    /\ RecordsFollow(i)
    /\ acq[i].stage = "live" =>
          /\ ~Stopped
          /\ acq[i].meta /\ cmd # "commit" /\ applied.row => applied.ref \in {NoRef, i}
    /\ acq[i].stage \in {"mapped", "acquired"} => owner = acq[i].by
    /\ acq[i].stage \in {"pending", "unmapped", "stuck"} =>
          (Stopped => i \in stopping \/ acq[i].by = "reopen")

(* What it says of the two threads and the durable rows.                    *)
ThreadsAgree ==
    /\ owner = "apply" => cmd = "apply"
    /\ owner = "reopen" => pass.pc = "finish"
    /\ cmd = "down" => pass.pc = "idle"
    /\ cmd \in {"apply", "commit"} => erased = "none"
    /\ cmd = "delete" => erased \in {"intent", "tombstone"}
    /\ cmd \in {"stop", "stopping", "complete"} => erased = "tombstone"
    /\ cmd # "stopping" => stopping = {}
    /\ erased \in {"tombstone", "done"} => ~applied.row

OneLive == \A i, j \in Acquisitions : acq[i].stage = "live" /\ acq[j].stage = "live" => i = j

OneBuilt ==
    \A i, j \in Acquisitions :
        acq[i].stage \in {"mapped", "acquired"} /\ acq[j].stage \in {"mapped", "acquired"} => i = j

(* LifeInv, acquisition by acquisition.                                     *)
LEMMA LifeParts ==
  ASSUME LifeInv
  PROVE  LifeTypeOK /\ ThreadsAgree /\ OneLive /\ OneBuilt /\ \A i \in Acquisitions : Tracked(i)
<1>1. LifeTypeOK /\ ThreadsAgree /\ OneLive
  BY DEF LifeInv, OneActor, ThreadsAgree, DeletedIsReleased, OneLive, Live
<1>2. ASSUME NEW i \in Acquisitions PROVE Tracked(i)
  <2>1. acq[i].by \in {"apply", "reopen"}
    BY <1>1 DEF LifeTypeOK, AcquisitionStates
  <2>2. acq[i].stage \in {"mapped", "acquired"} => owner = acq[i].by
    BY <2>1 DEF LifeInv, OneActor, Building
  <2>3. Stopped /\ acq[i].stage \in {"pending", "unmapped", "stuck"} => i \in stopping \/ acq[i].by = "reopen"
    BY DEF LifeInv, DeletedIsReleased, Pending, Stopped
  <2>4. acq[i].stage = "live" =>
          /\ ~Stopped
          /\ acq[i].meta /\ cmd # "commit" /\ applied.row => applied.ref \in {NoRef, i}
    BY DEF LifeInv, DeletedIsReleased, RefIsCurrent, Live, Stopped
  <2> QED
    BY <2>2, <2>3, <2>4 DEF Tracked, LifeInv, MappingAccounted
<1>3. OneBuilt
  <2>1. \A i \in Acquisitions : acq[i].by \in {"apply", "reopen"}
    BY <1>1 DEF LifeTypeOK, AcquisitionStates
  <2>2. \A i \in Acquisitions : acq[i].stage \in {"mapped", "acquired"} =>
          i \in Building("apply") \cup Building("reopen")
    BY <2>1 DEF Building
  <2> QED
    BY <2>2 DEF LifeInv, OneActor, OneBuilt
<1> QED
  BY <1>1, <1>2, <1>3

(* And back, in the next state.                                             *)
LEMMA LifeWhole ==
  ASSUME LifeTypeOK', ThreadsAgree', OneLive', OneBuilt', \A i \in Acquisitions : Tracked(i)'
  PROVE  LifeInv'
<1>1. MappingAccounted'
  BY DEF Tracked, MappingAccounted, LifeTypeOK
<1>2. RefIsCurrent'
  BY DEF Tracked, RefIsCurrent, Live
<1>3. DeletedIsReleased'
  BY DEF Tracked, ThreadsAgree, DeletedIsReleased, Live, Pending, Stopped
<1>4. OneActor'
  <2>1. (\A by \in {"apply", "reopen"} : Building(by) # {} => owner = by)'
    BY DEF Tracked, Building
  <2>2. (\A i, j \in Live : i = j)'
    BY DEF OneLive, Live
  <2>3. (\A i, j \in Building("apply") \cup Building("reopen") : i = j)'
    BY DEF OneBuilt, Building
  <2> QED
    BY <2>1, <2>2, <2>3 DEF OneActor, ThreadsAgree
<1>5. \A i \in Acquisitions : RecordsFollow(i)'
  BY DEF Tracked
<1> QED
  BY <1>1, <1>2, <1>3, <1>4, <1>5 DEF LifeInv

(* The agent starts with nothing mapped and nothing recorded.               *)
LEMMA LifeInitial == LifeInit => LifeInv
<1> SUFFICES ASSUME LifeInit PROVE LifeInv
  OBVIOUS
<1>1. 0 \in 0..MaxAcquisitions /\ 0 \in 0..MaxFaults /\ 0 \in 0..MaxIncidents /\ 0 \in 0..MaxDeaths
  BY SMT, LifeAssumption
<1>2. LifeTypeOK
  BY <1>1 DEF LifeInit, LifeTypeOK, Unused, AcquisitionStates, Stages, Idle, PassStates, PassSteps, NoRef
<1>3. \A i \in Acquisitions : acq[i].stage = "none"
  BY DEF LifeInit, Unused
<1>4. Live = {} /\ Pending = {} /\ \A by \in {"apply", "reopen"} : Building(by) = {}
  BY <1>3 DEF Live, Pending, Building
<1>5. \A i \in Acquisitions : RecordsFollow(i)
  BY <1>3 DEF RecordsFollow, LifeInit, Idle
<1> QED
  BY <1>2, <1>4, <1>5 DEF LifeInv, MappingAccounted, RefIsCurrent, DeletedIsReleased, OneActor, LifeInit

(* The counters of faults and incidents.                                    *)
LEMMA Counted ==
  ASSUME LifeTypeOK
  PROVE  /\ Fault => faults' \in 0..MaxFaults
         /\ Mishap => mishaps' \in 0..MaxIncidents
BY SMT, LifeAssumption DEF LifeTypeOK, Fault, Mishap

(* One acquisition moves to another stage.                                  *)
LEMMA StageFacts ==
  ASSUME LifeTypeOK, NEW i \in Acquisitions, NEW s \in Stages, Stage(i, s)
  PROVE  /\ acq' \in [Acquisitions -> AcquisitionStates]
         /\ acq'[i].stage = s /\ acq'[i].by = acq[i].by /\ acq'[i].meta = acq[i].meta
         /\ \A j \in Acquisitions : j # i => acq'[j] = acq[j]
<1>1. acq[i] \in AcquisitionStates /\ acq \in [Acquisitions -> AcquisitionStates]
  BY DEF LifeTypeOK
<1>2. [acq[i] EXCEPT !.stage = s] \in AcquisitionStates
  BY <1>1 DEF AcquisitionStates
<1> QED
  BY <1>1, <1>2 DEF Stage, AcquisitionStates

(* What a released acquisition leaves.                                      *)
LEMMA GoneFacts == Gone \in AcquisitionStates /\ Gone.stage = "gone"
BY DEF Gone, Unused, AcquisitionStates, Stages

(* One acquisition is released.                                             *)
LEMMA DropFacts ==
  ASSUME LifeTypeOK, NEW i \in Acquisitions, Drop(i)
  PROVE  /\ acq' \in [Acquisitions -> AcquisitionStates] /\ acq'[i].stage = "gone"
         /\ \A j \in Acquisitions : j # i => acq'[j] = acq[j]
BY GoneFacts DEF LifeTypeOK, Drop

(* A recovery pass moves on without writing a record or a mapping.          *)
LEMMA PassMoves ==
  ASSUME LifeInv, UNCHANGED <<held, journal, erased, acq, owner, stopping, excused>>,
         pass' \in PassStates, faults' \in 0..MaxFaults, mishaps' \in 0..MaxIncidents, deaths' = deaths,
         pass'.records \cup pass'.doomed \cup pass'.freed
            \subseteq journal \cup pass.records \cup pass.doomed \cup pass.freed,
         pass'.freed \subseteq pass.freed,
         owner # "reopen", cmd' = "down" => pass'.pc = "idle",
         cmd' = cmd \/ (cmd = "boot" /\ cmd' = "idle") \/ (cmd = "down" /\ cmd' = "boot"),
         applied' = applied \/ applied' = [applied EXCEPT !.ref = NoRef]
  PROVE  LifeInv'
<1>1. LifeTypeOK /\ ThreadsAgree /\ OneLive /\ OneBuilt /\ \A i \in Acquisitions : Tracked(i)
  BY LifeParts
<1>2. 0 \in 0..MaxAcquisitions
  BY SMT, LifeAssumption
<1>3. /\ applied' \in [row : BOOLEAN, ref : 0..MaxAcquisitions]
      /\ applied'.row = applied.row /\ applied'.ref \in {applied.ref, NoRef}
  BY <1>1, <1>2 DEF LifeTypeOK, NoRef
<1>4. LifeTypeOK'
  BY <1>1, <1>3 DEF LifeTypeOK
<1>5. ThreadsAgree' /\ OneLive' /\ OneBuilt' /\ (Stopped' <=> Stopped)
  BY <1>1, <1>3 DEF ThreadsAgree, OneLive, OneBuilt, Stopped
<1>6. ASSUME NEW i \in Acquisitions PROVE Tracked(i)'
  <2>1. RecordsFollow(i)'
    BY <1>1 DEF Tracked, RecordsFollow, Owned
  <2> QED
    BY <1>1, <1>3, <1>5, <2>1 DEF Tracked, Owned
<1> QED
  BY <1>4, <1>5, <1>6, LifeWhole

(* The steps of a recovery pass up to the evacuation, and the boot around   *)
(* it.                                                                      *)
LEMMA PassStep ==
  ASSUME LifeInv,
         PassStart \/ PassSkip \/ PassLiveRefs \/ PassList \/ PassApplied \/ PassTombstones \/ PassIntents \/ Start \/ Serve
  PROVE  LifeInv'
<1>1. LifeTypeOK /\ ThreadsAgree /\ pass \in PassStates
  BY LifeParts DEF LifeTypeOK
<1>2. UNCHANGED <<held, journal, erased, acq, owner, stopping, excused>> /\ deaths' = deaths
  BY DEF PassStart, PassSkip, PassLiveRefs, PassList, PassApplied, PassTombstones, PassIntents, Start, Serve, Steady
<1>3. faults' \in 0..MaxFaults /\ mishaps' \in 0..MaxIncidents
  BY <1>1, Counted
     DEF PassStart, PassSkip, PassLiveRefs, PassList, PassApplied, PassTombstones, PassIntents, Start, Serve, Steady, LifeTypeOK
<1>4. cmd' = cmd \/ (cmd = "boot" /\ cmd' = "idle") \/ (cmd = "down" /\ cmd' = "boot")
  BY DEF PassStart, PassSkip, PassLiveRefs, PassList, PassApplied, PassTombstones, PassIntents, Start, Serve
<1>5. applied' = applied \/ applied' = [applied EXCEPT !.ref = NoRef]
  BY DEF PassStart, PassSkip, PassLiveRefs, PassList, PassApplied, PassTombstones, PassIntents, Start, Serve
<1>6. Idle \in PassStates /\ Idle.records = {} /\ Idle.doomed = {} /\ Idle.freed = {} /\ NoRef \in 0..MaxAcquisitions
  <2>1. 0 \in 0..MaxAcquisitions
    BY SMT, LifeAssumption
  <2> QED
    BY <2>1 DEF Idle, PassStates, PassSteps, NoRef
<1> DEFINE Sound(p) == /\ p \in PassStates
                       /\ p.records \cup p.doomed \cup p.freed
                            \subseteq journal \cup pass.records \cup pass.doomed \cup pass.freed
                       /\ p.freed \subseteq pass.freed
<1>7. CASE PassStart \/ Start
  <2>1. pass' = [Idle EXCEPT !.pc = "reopen", !.row = applied.row] /\ applied.row \in BOOLEAN
    BY <1>1, <1>7 DEF PassStart, Start, LifeTypeOK
  <2>2. Sound(pass')
    BY <1>6, <2>1 DEF PassStates, PassSteps
  <2>3. owner # "reopen" /\ cmd' # "down"
    BY <1>1, <1>7 DEF PassStart, Start, ThreadsAgree
  <2> QED
    BY <1>2, <1>3, <1>4, <1>5, <2>2, <2>3, PassMoves
<1>8. CASE PassSkip \/ PassLiveRefs \/ PassList \/ PassApplied \/ PassTombstones \/ PassIntents
  <2>1. owner # "reopen" /\ cmd' # "down"
    BY <1>1, <1>8 DEF PassSkip, PassLiveRefs, PassList, PassApplied, PassTombstones, PassIntents, ThreadsAgree
  <2>2. {i \in Live : acq[i].jid} \subseteq Acquisitions /\ Orphans \subseteq pass.records
        /\ pass.records \subseteq Acquisitions
    BY <1>1 DEF Live, Orphans, PassStates
  <2>3. CASE PassSkip
    <3>1. Sound(pass')
      BY <1>1, <2>3 DEF PassSkip, PassStates, PassSteps
    <3> QED
      BY <1>2, <1>3, <1>4, <1>5, <2>1, <3>1, PassMoves
  <2>7. CASE PassList
    <3>1. journal \subseteq Acquisitions
      BY <1>1 DEF LifeTypeOK
    <3>2. Sound(pass')
      BY <1>1, <2>7, <3>1 DEF PassList, PassStates, PassSteps
    <3> QED
      BY <1>2, <1>3, <1>4, <1>5, <2>1, <3>2, PassMoves
  <2>4. CASE PassLiveRefs
    <3>1. Sound(pass')
      BY <1>6, <2>2, <2>4 DEF PassLiveRefs, PassStates, PassSteps
    <3> QED
      BY <1>2, <1>3, <1>4, <1>5, <2>1, <3>1, PassMoves
  <2>6. CASE PassApplied
    <3>1. applied.ref \in 0..MaxAcquisitions
      BY <1>1 DEF LifeTypeOK
    <3>2. Sound(pass')
      BY <1>1, <2>6, <3>1 DEF PassApplied, PassStates, PassSteps
    <3> QED
      BY <1>2, <1>3, <1>4, <1>5, <2>1, <3>2, PassMoves
  <2>8. CASE PassTombstones
    <3> DEFINE f == erased \in {"tombstone", "done"}
    <3>0. f \in BOOLEAN
      BY SMT
    <3>1. pass' = [pass EXCEPT !.pc = "intents", !.fenced = f]
      BY <2>8 DEF PassTombstones
    <3> HIDE DEF f
    <3>2. Sound(pass')
      BY <1>1, <3>0, <3>1 DEF PassStates, PassSteps
    <3> QED
      BY <1>2, <1>3, <1>4, <1>5, <2>1, <3>2, PassMoves
  <2>5. CASE PassIntents
    <3>1. Sound(pass')
      BY <1>6, <2>2, <2>5 DEF PassIntents, PassStates, PassSteps
    <3> QED
      BY <1>2, <1>3, <1>4, <1>5, <2>1, <3>1, PassMoves
  <2> QED
    BY <1>8, <2>3, <2>4, <2>5, <2>6, <2>7, <2>8
<1>9. CASE Serve
  <2>1. owner # "reopen" /\ pass' = pass /\ cmd' # "down"
    BY <1>1, <1>9 DEF Serve, ThreadsAgree
  <2> QED
    BY <1>1, <1>2, <1>3, <1>4, <1>5, <2>1, PassMoves
<1> QED
  BY <1>7, <1>8, <1>9

(* The evacuation: a mapping is deleted, then the records go.               *)
LEMMA EvacuationStep ==
  ASSUME LifeInv, PassCommit \/ \E i \in Acquisitions : PassRelease(i)
  PROVE  LifeInv'
<1>1. LifeTypeOK /\ ThreadsAgree /\ OneLive /\ OneBuilt /\ (\A i \in Acquisitions : Tracked(i)) /\ pass \in PassStates
  BY LifeParts DEF LifeTypeOK
<1>2. ASSUME NEW i \in Acquisitions, PassRelease(i) PROVE LifeInv'
  <2>1. /\ UNCHANGED <<journal, applied, erased, acq, owner, cmd, stopping, excused, mishaps, deaths>>
        /\ pass.pc = "release" /\ i \in pass.doomed /\ held' \subseteq held
        /\ faults' \in 0..MaxFaults
    BY <1>1, <1>2, Counted DEF PassRelease, LifeTypeOK
  <2>2. /\ pass' \in PassStates /\ pass'.pc = "release" /\ pass'.records = pass.records
        /\ pass'.doomed \subseteq pass.doomed
        /\ \/ pass'.freed = pass.freed \cup {i} /\ held' = held \ {i}
           \/ pass'.freed = pass.freed
    <3>1. CASE held' = held \ {i} /\ pass' = [pass EXCEPT !.doomed = @ \ {i}, !.freed = @ \cup {i}]
      BY <1>1, <2>1, <3>1 DEF PassStates
    <3>2. CASE pass' = [pass EXCEPT !.doomed = @ \ {i}]
      BY <1>1, <2>1, <3>2 DEF PassStates
    <3> QED
      BY <1>2, <3>1, <3>2 DEF PassRelease
  <2>3. LifeTypeOK' /\ ThreadsAgree' /\ OneLive' /\ OneBuilt'
    BY <1>1, <2>1, <2>2 DEF LifeTypeOK, ThreadsAgree, OneLive, OneBuilt
  <2>4. ASSUME NEW j \in Acquisitions PROVE Tracked(j)'
    <3>1. RecordsFollow(j)'
      BY <1>1, <2>1, <2>2 DEF Tracked, RecordsFollow, Owned
    <3> QED
      BY <1>1, <2>1, <2>2, <3>1 DEF Tracked, Owned, Stopped
  <2> QED
    BY <2>3, <2>4, LifeWhole
<1>3. CASE PassCommit
  <2>1. /\ UNCHANGED <<held, applied, erased, acq, owner, cmd, stopping, faults, mishaps, deaths>>
        /\ pass.pc = "release" /\ pass' = Idle /\ journal' = journal \ pass.freed
        /\ excused' = excused \cup {i \in pass.freed : Owned(i)}
    BY <1>3 DEF PassCommit, Steady
  <2>2. Idle \in PassStates /\ Idle.records = {} /\ Idle.doomed = {} /\ Idle.freed = {} /\ Idle.pc = "idle"
    <3>1. 0 \in 0..MaxAcquisitions
      BY SMT, LifeAssumption
    <3> QED
      BY <3>1 DEF Idle, PassStates, PassSteps, NoRef
  <2>3. LifeTypeOK' /\ ThreadsAgree' /\ OneLive' /\ OneBuilt'
    BY <1>1, <2>1, <2>2 DEF LifeTypeOK, ThreadsAgree, OneLive, OneBuilt, PassStates
  <2>4. ASSUME NEW j \in Acquisitions PROVE Tracked(j)'
    <3>1. RecordsFollow(j)'
      BY <1>1, <2>1, <2>2 DEF Tracked, RecordsFollow, Owned
    <3>2. j \in held => Owned(j) \/ j \in journal' \/ j \in excused'
      BY <1>1, <2>1 DEF Tracked, RecordsFollow
    <3> QED
      BY <1>1, <2>1, <3>1, <3>2 DEF Tracked, Owned, Stopped
  <2> QED
    BY <2>3, <2>4, LifeWhole
<1> QED
  BY <1>2, <1>3

(* One acquisition moves on, and its mapping, its record and    *)
(* its excuse with it; the threads and the pass stay where they are.        *)
LEMMA OneMoves ==
  ASSUME LifeInv, NEW i \in Acquisitions, acq' \in [Acquisitions -> AcquisitionStates],
         \A j \in Acquisitions : j # i => acq'[j] = acq[j],
         acq'[i].stage # "gone" => acq'[i].by = acq[i].by,
         held' \subseteq held \cup {i}, held \subseteq held' \cup {i},
         journal' \subseteq journal \cup {i}, journal \subseteq journal' \cup {i},
         excused' \subseteq excused \cup {i}, excused \subseteq excused' \cup {i},
         UNCHANGED <<erased, applied, owner, cmd, stopping, pass, deaths>>,
         faults' \in 0..MaxFaults, mishaps' \in 0..MaxIncidents,
         acq'[i].stage = "live" => acq[i].stage = "live" /\ acq'[i].meta = acq[i].meta,
         acq'[i].stage \in {"mapped", "acquired"} => acq[i].stage \in {"mapped", "acquired"},
         acq'[i].stage \in {"pending", "unmapped", "stuck"} =>
            acq[i].stage \in {"pending", "unmapped", "stuck"},
         Tracked(i) => /\ RecordsFollow(i)'
                       /\ i \in held' => Owned(i)' \/ i \in journal' \/ i \in excused'
  PROVE  LifeInv'
<1>1. LifeTypeOK /\ ThreadsAgree /\ OneLive /\ OneBuilt /\ (\A j \in Acquisitions : Tracked(j))
  BY LifeParts
<1>2. LifeTypeOK' /\ ThreadsAgree' /\ OneLive' /\ OneBuilt'
  <2>1. held' \subseteq Acquisitions /\ journal' \subseteq Acquisitions /\ excused' \subseteq Acquisitions
    BY <1>1 DEF LifeTypeOK
  <2>2. LifeTypeOK' /\ ThreadsAgree'
    BY <1>1, <2>1 DEF LifeTypeOK, ThreadsAgree
  <2>3. \A j \in Acquisitions :
          /\ acq'[j].stage = "live" => acq[j].stage = "live"
          /\ acq'[j].stage \in {"mapped", "acquired"} => acq[j].stage \in {"mapped", "acquired"}
    OBVIOUS
  <2> QED
    BY <1>1, <2>2, <2>3 DEF OneLive, OneBuilt
<1>3. Tracked(i)'
  BY <1>1 DEF Tracked, Stopped
<1>4. ASSUME NEW j \in Acquisitions, j # i PROVE Tracked(j)'
  <2>1. /\ (j \in held' <=> j \in held) /\ (j \in journal' <=> j \in journal)
        /\ (j \in excused' <=> j \in excused) /\ acq'[j] = acq[j]
    BY <1>4
  <2>2. RecordsFollow(j) /\ (Owned(j)' <=> Owned(j))
    BY <1>1, <2>1 DEF Tracked, Owned
  <2>3. RecordsFollow(j)'
    BY <2>1, <2>2 DEF RecordsFollow
  <2> QED
    BY <1>1, <2>1, <2>2, <2>3 DEF Tracked, Stopped
<1> QED
  BY <1>2, <1>3, <1>4, LifeWhole

(* Renewal, release and the gateway itself.                                 *)
LEMMA MappingStep ==
  ASSUME LifeInv, NEW i \in Acquisitions, Renew(i) \/ ReleaseMapping(i) \/ ReleaseRecord(i) \/ GatewayForgets(i)
  PROVE  LifeInv'
<1>1. LifeTypeOK /\ Tracked(i) /\ acq[i] \in AcquisitionStates /\ acq \in [Acquisitions -> AcquisitionStates]
  BY LifeParts DEF LifeTypeOK
<1>2. RecordsFollow(i)
  BY <1>1 DEF Tracked
<1>3. CASE Renew(i)
  <2>1. /\ acq[i].stage \in {"acquired", "live", "pending"} /\ held' = held \cup {i}
        /\ UNCHANGED <<applied, erased, owner, cmd, stopping, pass, deaths>> /\ mishaps' \in 0..MaxIncidents
    BY <1>1, <1>3, Counted DEF Renew
  <2>2. /\ faults' \in 0..MaxFaults /\ i \in journal' \cup excused'
        /\ journal' \in {journal, journal \cup {i}}
        /\ excused' \in {excused, excused \cup {i}, excused \ {i}}
    BY <1>1, <1>2, <1>3, <2>1, Counted DEF Renew, JournalPut, RecordsFollow, LifeTypeOK
  <2>3. /\ acq' \in [Acquisitions -> AcquisitionStates] /\ acq'[i].stage = acq[i].stage
        /\ acq'[i].by = acq[i].by /\ acq'[i].meta = acq[i].meta
        /\ \A j \in Acquisitions : j # i => acq'[j] = acq[j]
    <3>1. CASE acq' = acq
      BY <1>1, <3>1
    <3>2. ASSUME NEW done \in BOOLEAN, acq' = [acq EXCEPT ![i].jid = @ \/ done]
          PROVE  <2>3!:
      <4> DEFINE new == [acq[i] EXCEPT !.jid = @ \/ done]
      <4>1. new \in AcquisitionStates /\ new.stage = acq[i].stage /\ new.by = acq[i].by /\ new.meta = acq[i].meta
        BY <1>1 DEF AcquisitionStates
      <4>2. acq' = [acq EXCEPT ![i] = new]
        BY <3>2
      <4> HIDE DEF new
      <4> QED
        BY <1>1, <4>1, <4>2
    <3> QED
      BY <1>3, <3>1, <3>2 DEF Renew
  <2>4. RecordsFollow(i)' /\ Owned(i)'
    BY <1>2, <2>1, <2>2, <2>3 DEF RecordsFollow, Owned
  <2> QED
    BY <2>1, <2>2, <2>3, <2>4, OneMoves
<1>4. CASE ReleaseMapping(i)
  <2>1. /\ acq[i].stage = "pending" /\ faults' \in 0..MaxFaults
        /\ UNCHANGED <<journal, applied, erased, owner, cmd, stopping, pass, excused, mishaps, deaths>>
        /\ \/ held' = held \ {i} /\ Stage(i, "unmapped")
           \/ held' \in {held, held \ {i}} /\ Stage(i, "stuck")
    BY <1>1, <1>4, Counted DEF ReleaseMapping, LifeTypeOK
  <2>2. /\ acq' \in [Acquisitions -> AcquisitionStates] /\ acq'[i].by = acq[i].by
        /\ \A j \in Acquisitions : j # i => acq'[j] = acq[j]
        /\ \/ held' = held \ {i} /\ acq'[i].stage = "unmapped"
           \/ held' \in {held, held \ {i}} /\ acq'[i].stage = "stuck"
    BY <1>1, <2>1, StageFacts DEF Stages
  <2>3. RecordsFollow(i)' /\ Owned(i)'
    BY <1>2, <2>1, <2>2 DEF RecordsFollow, Owned
  <2> QED
    BY <1>1, <2>1, <2>2, <2>3, OneMoves DEF LifeTypeOK
<1>5. CASE ReleaseRecord(i)
  <2>1. /\ acq[i].stage = "unmapped" /\ faults' \in 0..MaxFaults
        /\ UNCHANGED <<held, applied, erased, owner, cmd, stopping, pass, excused, mishaps, deaths>>
        /\ \/ journal' = journal \ {i} /\ Drop(i)
           \/ journal' = journal /\ Stage(i, "stuck")
    BY <1>1, <1>5, Counted DEF ReleaseRecord, LifeTypeOK
  <2>2. /\ acq' \in [Acquisitions -> AcquisitionStates]
        /\ \A j \in Acquisitions : j # i => acq'[j] = acq[j]
        /\ \/ journal' = journal \ {i} /\ acq'[i].stage = "gone"
           \/ journal' = journal /\ acq'[i].stage = "stuck" /\ acq'[i].by = acq[i].by
    BY <1>1, <2>1, StageFacts, DropFacts DEF Stages
  <2>3. RecordsFollow(i)' /\ i \notin held'
    BY <1>2, <2>1, <2>2 DEF RecordsFollow, Owned
  <2> QED
    BY <1>1, <2>1, <2>2, <2>3, OneMoves DEF LifeTypeOK
<1>6. CASE GatewayForgets(i)
  <2>1. /\ UNCHANGED <<journal, applied, erased, acq, owner, cmd, stopping, pass, excused, faults, deaths>>
        /\ i \in held /\ held' = held \ {i} /\ mishaps' \in 0..MaxIncidents
    BY <1>1, <1>6, Counted DEF GatewayForgets
  <2>2. Tracked(i) => RecordsFollow(i)' /\ i \notin held'
    BY <1>2, <2>1 DEF RecordsFollow, Owned
  <2> QED
    BY <1>1, <2>1, <2>2, OneMoves DEF LifeTypeOK
<1> QED
  BY <1>3, <1>4, <1>5, <1>6

(* Map: a fresh acquisition, its mapping on the gateway; or no acquisition  *)
(* behind a mapping that was granted and not answered.                      *)
LEMMA MapStep ==
  ASSUME LifeInv, ApplyMap \/ ReopenMap
  PROVE  LifeInv'
<1>1. LifeTypeOK /\ ThreadsAgree /\ OneLive /\ OneBuilt /\ (\A j \in Acquisitions : Tracked(j))
      /\ pass \in PassStates /\ acq \in [Acquisitions -> AcquisitionStates]
  BY LifeParts DEF LifeTypeOK
<1> DEFINE Asked(i, by, s) ==
        /\ owner = "nobody" /\ erased = "none" /\ Grants(i, by, s)
        /\ UNCHANGED <<journal, applied, erased, stopping, mishaps, deaths>>
        /\ \/ /\ s = "mapped" /\ owner' = by /\ UNCHANGED <<excused, faults>>
              /\ \/ by = "apply" /\ cmd = "idle" /\ cmd' = "apply" /\ pass' = pass
                 \/ by = "reopen" /\ pass.pc = "reopen" /\ cmd' = cmd /\ pass' = [pass EXCEPT !.pc = "finish"]
           \/ /\ s = "gone" /\ owner' = owner /\ Fault /\ excused' = excused \cup {i} /\ cmd' = cmd
              /\ pass' = pass \/ (pass.pc = "reopen" /\ pass' = [pass EXCEPT !.pc = "failed"])
<1>2. \E by \in {"apply", "reopen"} : \E i \in Acquisitions, s \in {"mapped", "gone"} : Asked(i, by, s)
  <2>1. ApplyMap => \E i \in Acquisitions, s \in {"mapped", "gone"} : Asked(i, "apply", s)
    BY DEF ApplyMap, Map, Unanswered
  <2>2. ReopenMap => \E i \in Acquisitions, s \in {"mapped", "gone"} : Asked(i, "reopen", s)
    BY DEF ReopenMap, Map, Unanswered
  <2> QED
    BY <2>1, <2>2
<1>2a. PICK by \in {"apply", "reopen"} : \E i \in Acquisitions, s \in {"mapped", "gone"} : Asked(i, by, s)
  BY <1>2
<1>3. PICK i \in Acquisitions, s \in {"mapped", "gone"} : Asked(i, by, s)
  BY <1>2a
<1>3a. acq[i].stage = "none" /\ held' = held \cup {i}
  BY <1>3 DEF Grants
<1>4. /\ acq' \in [Acquisitions -> AcquisitionStates] /\ acq'[i].stage = s /\ acq'[i].by = by
      /\ \A j \in Acquisitions : j # i => acq'[j] = acq[j]
  <2>1. [Unused EXCEPT !.stage = s, !.by = by] \in AcquisitionStates
    BY DEF Unused, AcquisitionStates, Stages
  <2>2. acq' = [acq EXCEPT ![i] = [Unused EXCEPT !.stage = s, !.by = by]]
    BY <1>3 DEF Grants
  <2> QED
    BY <1>1, <2>1, <2>2 DEF Unused
<1>5. /\ pass' \in PassStates /\ pass'.records = pass.records /\ pass'.doomed = pass.doomed
      /\ pass'.freed = pass.freed /\ (owner' = "reopen" => pass'.pc = "finish")
      /\ (pass' = pass \/ pass.pc = "reopen")
  BY <1>1, <1>3 DEF PassStates, PassSteps
<1>6. LifeTypeOK'
  <2>1. faults' \in 0..MaxFaults /\ excused' \subseteq Acquisitions
    BY <1>1, <1>3, Counted DEF LifeTypeOK
  <2> QED
    BY <1>1, <1>3, <1>3a, <1>4, <1>5, <2>1 DEF LifeTypeOK
<1>7. ThreadsAgree' /\ ~Stopped'
  BY <1>1, <1>3, <1>5 DEF ThreadsAgree, Stopped
<1>8. \A j \in Acquisitions : j # i => acq'[j].stage \notin {"mapped", "acquired"}
  BY <1>1, <1>3, <1>4 DEF Tracked, LifeTypeOK, AcquisitionStates
<1>9. OneLive' /\ OneBuilt'
  BY <1>1, <1>4, <1>8 DEF OneLive, OneBuilt
<1>10. Tracked(i)'
  <2>1. i \notin journal \cup pass.records \cup pass.doomed \cup pass.freed
    BY <1>1, <1>3a DEF Tracked, RecordsFollow
  <2>2. RecordsFollow(i)'
    BY <1>3, <1>4, <1>5, <2>1 DEF RecordsFollow
  <2> QED
    BY <1>3, <1>3a, <1>4, <2>2 DEF Tracked, Owned
<1>11. ASSUME NEW j \in Acquisitions, j # i PROVE Tracked(j)'
  <2>1. /\ acq'[j] = acq[j] /\ (j \in held' <=> j \in held) /\ (j \in excused' <=> j \in excused)
        /\ (Owned(j)' <=> Owned(j)) /\ RecordsFollow(j)
    BY <1>1, <1>3, <1>3a, <1>4, <1>11 DEF Tracked, Owned
  <2>2. RecordsFollow(j)'
    BY <1>3, <1>5, <2>1 DEF RecordsFollow
  <2>3. cmd' # "commit" => cmd # "commit"
    BY <1>3
  <2> QED
    BY <1>1, <1>3, <1>7, <1>8, <1>11, <2>1, <2>2, <2>3 DEF Tracked
<1> QED
  BY <1>6, <1>7, <1>9, <1>10, <1>11, LifeWhole

(* The end of a failed acquisition, in either thread.                       *)
LEMMA CompensateStep ==
  ASSUME LifeInv, NEW by \in {"apply", "reopen"}, Compensate(by)
  PROVE  LifeInv'
<1>1. LifeTypeOK /\ ThreadsAgree /\ OneLive /\ OneBuilt /\ (\A j \in Acquisitions : Tracked(j))
      /\ pass \in PassStates /\ acq \in [Acquisitions -> AcquisitionStates]
  BY LifeParts DEF LifeTypeOK
<1>2. PICK i \in Building(by) :
        /\ acq[i].stage = "mapped" /\ Drop(i) /\ Ends(by)
        /\ \/ held' = held \ {i} /\ UNCHANGED <<excused, faults>>
           \/ Fault /\ excused' = excused \cup {i} /\ held' \in {held, held \ {i}}
        /\ UNCHANGED <<journal, applied, erased, mishaps, deaths, stopping>>
  BY DEF Compensate
<1>3. i \in Acquisitions /\ acq[i].by = by /\ owner = by
  BY <1>1, <1>2 DEF Building, Tracked
<1>4. /\ acq' \in [Acquisitions -> AcquisitionStates] /\ acq'[i].stage = "gone"
      /\ \A j \in Acquisitions : j # i => acq'[j] = acq[j]
  BY <1>1, <1>2, <1>3, DropFacts
<1>5. /\ owner' = "nobody" /\ pass' \in PassStates /\ pass'.records = pass.records
      /\ pass'.doomed = pass.doomed /\ pass'.freed = pass.freed
      /\ cmd' \in {cmd, "idle"} /\ (cmd' = "down" => pass'.pc = "idle")
      /\ (cmd' # "commit" <=> cmd # "commit") /\ (cmd' = cmd \/ cmd = "apply")
  <2>1. owner' = "nobody" /\ cmd' \in {cmd, "idle"} /\ (by # "apply" => cmd' = cmd)
    BY <1>2 DEF Ends
  <2>2. /\ pass' \in PassStates /\ pass'.records = pass.records
        /\ pass'.doomed = pass.doomed /\ pass'.freed = pass.freed /\ (by # "reopen" => pass' = pass)
    BY <1>1, <1>2 DEF Ends, PassStates, PassSteps
  <2>3. by = "apply" => cmd = "apply"
    BY <1>1, <1>3 DEF ThreadsAgree
  <2>4. by = "reopen" => cmd # "down"
    BY <1>1, <1>3 DEF ThreadsAgree
  <2> QED
    BY <1>1, <2>1, <2>2, <2>3, <2>4 DEF ThreadsAgree
<1>6. faults' \in 0..MaxFaults
  BY <1>1, <1>2, Counted DEF LifeTypeOK
<1>7. LifeTypeOK' /\ ThreadsAgree' /\ OneLive' /\ OneBuilt' /\ (Stopped' => Stopped)
  <2>1. LifeTypeOK'
    BY <1>1, <1>2, <1>3, <1>4, <1>5, <1>6 DEF LifeTypeOK
  <2>2. ThreadsAgree' /\ (Stopped' => Stopped)
    BY <1>1, <1>2, <1>5 DEF ThreadsAgree, Stopped
  <2> QED
    BY <1>1, <1>4, <2>1, <2>2 DEF OneLive, OneBuilt
<1>8. Tracked(i)'
  <2>1. RecordsFollow(i)' /\ (i \in held' => i \in excused')
    BY <1>1, <1>2, <1>3, <1>4, <1>5 DEF Tracked, RecordsFollow
  <2> QED
    BY <1>4, <2>1 DEF Tracked
<1>9. ASSUME NEW j \in Acquisitions, j # i PROVE Tracked(j)'
  <2>1. /\ acq'[j] = acq[j] /\ (j \in held' <=> j \in held) /\ (j \in excused' <=> j \in excused)
        /\ (Owned(j)' <=> Owned(j)) /\ RecordsFollow(j)
    BY <1>1, <1>2, <1>4, <1>9 DEF Tracked, Owned
  <2>2. RecordsFollow(j)'
    BY <1>2, <1>5, <2>1 DEF RecordsFollow
  <2>3. acq[j].stage \notin {"mapped", "acquired"}
    BY <1>1, <1>2, <1>3, <1>9 DEF OneBuilt
  <2> QED
    BY <1>1, <1>2, <1>5, <1>7, <2>1, <2>2, <2>3 DEF Tracked
<1> QED
  BY <1>7, <1>8, <1>9, LifeWhole

(* The record of a new acquisition is written, or is not.                   *)
LEMMA AcquiredStep ==
  ASSUME LifeInv, NEW by \in {"apply", "reopen"}, Acquired(by)
  PROVE  LifeInv'
<1>1. LifeTypeOK /\ (\A j \in Acquisitions : Tracked(j)) /\ acq \in [Acquisitions -> AcquisitionStates]
  BY LifeParts DEF LifeTypeOK
<1>2. PICK i \in Building(by), done \in BOOLEAN, kept \in BOOLEAN :
        /\ acq[i].stage = "mapped" /\ JournalPut(i, done, kept)
        /\ acq' = [acq EXCEPT ![i].stage = "acquired", ![i].jid = done, ![i].meta = done]
        /\ UNCHANGED <<held, applied, erased, owner, cmd, stopping, pass, mishaps, deaths>>
  BY DEF Acquired
<1>3. i \in Acquisitions /\ acq[i] \in AcquisitionStates
  BY <1>1 DEF Building
<1>4. /\ faults' \in 0..MaxFaults /\ i \in journal' \cup excused'
      /\ journal' \in {journal, journal \cup {i}}
      /\ excused' \in {excused, excused \cup {i}, excused \ {i}}
  BY <1>1, <1>2, Counted DEF JournalPut, LifeTypeOK
<1>5. /\ acq' \in [Acquisitions -> AcquisitionStates] /\ acq'[i].stage = "acquired"
      /\ acq'[i].by = acq[i].by /\ \A j \in Acquisitions : j # i => acq'[j] = acq[j]
  <2> DEFINE new == [acq[i] EXCEPT !.stage = "acquired", !.jid = done, !.meta = done]
  <2>1. new \in AcquisitionStates /\ new.stage = "acquired" /\ new.by = acq[i].by
    BY <1>3 DEF AcquisitionStates, Stages
  <2>2. acq' = [acq EXCEPT ![i] = new]
    BY <1>2
  <2> HIDE DEF new
  <2> QED
    BY <1>1, <1>3, <2>1, <2>2
<1>6. RecordsFollow(i) /\ RecordsFollow(i)' /\ Owned(i)'
  BY <1>1, <1>2, <1>3, <1>4, <1>5 DEF Tracked, RecordsFollow, Owned
<1>7. mishaps' \in 0..MaxIncidents
  BY <1>1, <1>2 DEF LifeTypeOK
<1> QED
  BY <1>2, <1>3, <1>4, <1>5, <1>6, <1>7, OneMoves

(* The install lock: the actor becomes reachable, or is left to the drain.  *)
LEMMA PublishStep ==
  ASSUME LifeInv, ApplyPublish \/ ReopenPublish
  PROVE  LifeInv'
<1>1. LifeTypeOK /\ ThreadsAgree /\ OneLive /\ OneBuilt /\ (\A j \in Acquisitions : Tracked(j))
      /\ pass \in PassStates /\ acq \in [Acquisitions -> AcquisitionStates]
      /\ applied \in [row : BOOLEAN, ref : 0..MaxAcquisitions]
  BY LifeParts DEF LifeTypeOK
<1> DEFINE Publishes(by, i, s) ==
        /\ acq[i].stage = "acquired" /\ Stage(i, s) /\ owner' = "nobody"
        /\ UNCHANGED <<held, journal, erased, stopping, excused, deaths>>
        /\ s = "live" => erased = "none" /\ Live = {}
        /\ \/ /\ by = "apply" /\ applied' = applied /\ pass' = pass /\ faults' = faults
              /\ cmd' = (IF s = "live" THEN "commit" ELSE "idle")
              /\ mishaps' = mishaps \/ Mishap
           \/ /\ by = "reopen" /\ cmd' = cmd /\ mishaps' = mishaps /\ (faults' = faults \/ Fault)
              /\ \/ pass' = [pass EXCEPT !.pc = "refs"]
                 \/ pass' = [pass EXCEPT !.pc = "failed"]
              /\ applied' = (IF s = "live" /\ acq[i].meta /\ applied.row
                             THEN [applied EXCEPT !.ref = i] ELSE applied)
<1>0. \E by \in {"apply", "reopen"} : \E i \in Building(by), s \in {"live", "pending"} : Publishes(by, i, s)
  <2>1. ApplyPublish => \E i \in Building("apply"), s \in {"live", "pending"} : Publishes("apply", i, s)
    BY DEF ApplyPublish
  <2>2. ReopenPublish => \E i \in Building("reopen"), s \in {"live", "pending"} : Publishes("reopen", i, s)
    BY DEF ReopenPublish
  <2> QED
    BY <2>1, <2>2
<1>1a. PICK by \in {"apply", "reopen"} : \E i \in Building(by), s \in {"live", "pending"} : Publishes(by, i, s)
  BY <1>0
<1>2. PICK i \in Building(by), s \in {"live", "pending"} : Publishes(by, i, s)
  BY <1>1a
<1>3. i \in Acquisitions /\ acq[i].by = by /\ owner = by
  BY <1>1, <1>2 DEF Building, Tracked
<1>4. /\ acq' \in [Acquisitions -> AcquisitionStates] /\ acq'[i].stage = s
      /\ acq'[i].by = by /\ acq'[i].meta = acq[i].meta
      /\ \A j \in Acquisitions : j # i => acq'[j] = acq[j]
  BY <1>1, <1>2, <1>3, StageFacts DEF Stages
<1>5. /\ pass' \in PassStates /\ pass'.records = pass.records
      /\ pass'.doomed = pass.doomed /\ pass'.freed = pass.freed
  <2>1. CASE pass' = pass
    BY <1>1, <2>1
  <2>2. CASE pass' = [pass EXCEPT !.pc = "refs"]
    BY <1>1, <2>2 DEF PassStates, PassSteps
  <2>3. CASE pass' = [pass EXCEPT !.pc = "failed"]
    BY <1>1, <2>3 DEF PassStates, PassSteps
  <2> QED
    BY <1>2, <2>1, <2>2, <2>3
<1>6. /\ applied' \in [row : BOOLEAN, ref : 0..MaxAcquisitions] /\ applied'.row = applied.row
      /\ (by = "reopen" /\ s = "live" /\ acq[i].meta /\ applied.row => applied'.ref = i)
      /\ (s # "live" => applied' = applied)
  <2>1. i \in 0..MaxAcquisitions
    BY SMT, <1>3, LifeAssumption DEF Acquisitions
  <2> QED
    BY <1>1, <1>2, <2>1
<1>7. faults' \in 0..MaxFaults /\ mishaps' \in 0..MaxIncidents
  BY <1>1, <1>2, Counted DEF LifeTypeOK
<1>8. LifeTypeOK'
  BY <1>1, <1>2, <1>4, <1>5, <1>6, <1>7 DEF LifeTypeOK
<1>9. ThreadsAgree' /\ OneLive' /\ OneBuilt' /\ (Stopped' => Stopped /\ by = "reopen" /\ s # "live")
  <2>1. ThreadsAgree' /\ (Stopped' => Stopped /\ by = "reopen" /\ s # "live")
    BY <1>1, <1>2, <1>3, <1>6 DEF ThreadsAgree, Stopped
  <2>2. s = "live" => \A j \in Acquisitions : acq[j].stage # "live"
    BY <1>2 DEF Live
  <2>3. \A j \in Acquisitions : j # i /\ acq'[j].stage = "live" => acq[j].stage = "live" /\ s # "live"
    BY <1>4, <2>2
  <2>4. OneLive'
    BY <1>1, <1>4, <2>3 DEF OneLive
  <2>5. OneBuilt'
    BY <1>1, <1>2, <1>4 DEF OneBuilt
  <2> QED
    BY <2>1, <2>4, <2>5
<1>10. Tracked(i)'
  <2>1. RecordsFollow(i)' /\ Owned(i)'
    BY <1>1, <1>2, <1>3, <1>4, <1>5 DEF Tracked, RecordsFollow, Owned
  <2> QED
    BY <1>2, <1>3, <1>4, <1>6, <1>9, <2>1 DEF Tracked
<1>11. ASSUME NEW j \in Acquisitions, j # i PROVE Tracked(j)'
  <2>1. RecordsFollow(j)'
    BY <1>1, <1>2, <1>4, <1>5, <1>11 DEF Tracked, RecordsFollow, Owned
  <2>2. acq[j].stage \notin {"mapped", "acquired"} /\ (s = "live" => acq[j].stage # "live")
    BY <1>1, <1>2, <1>3, <1>11 DEF OneBuilt, Live
  <2>3. s # "live" => applied' = applied /\ (cmd' # "commit" => cmd # "commit")
    BY <1>1, <1>2, <1>3, <1>6 DEF ThreadsAgree
  <2> QED
    BY <1>1, <1>2, <1>4, <1>9, <1>11, <2>1, <2>2, <2>3 DEF Tracked, Owned
<1> QED
  BY <1>8, <1>9, <1>10, <1>11, LifeWhole

(* What the update of one stage makes of an acquisition.                    *)
LEMMA StageMoves ==
  ASSUME LifeTypeOK, NEW s \in Stages, NEW j \in Acquisitions
  PROVE  /\ [acq[j] EXCEPT !.stage = s] \in AcquisitionStates
         /\ [acq[j] EXCEPT !.stage = s].stage = s
         /\ [acq[j] EXCEPT !.stage = s].by = acq[j].by
         /\ acq[j] \in AcquisitionStates
BY DEF LifeTypeOK, AcquisitionStates

(* The actor that serves is stopped, if there is one.                       *)
LEMMA StopStep ==
  ASSUME LifeInv, acq' \in [Acquisitions -> AcquisitionStates],
         \A j \in Acquisitions :
             /\ acq'[j].by = acq[j].by
             /\ acq[j].stage = "live" => acq'[j].stage = "pending"
             /\ acq[j].stage # "live" => acq'[j] = acq[j],
         UNCHANGED <<held, journal, excused, applied, erased, owner, pass, deaths>>,
         faults' \in 0..MaxFaults, mishaps' \in 0..MaxIncidents,
         \/ UNCHANGED <<cmd, stopping>>
         \/ cmd = "commit" /\ cmd' = "idle" /\ UNCHANGED stopping
         \/ cmd = "stop" /\ cmd' = "stopping" /\ stopping' = Live \cup Pending
  PROVE  LifeInv'
<1>1. LifeTypeOK /\ ThreadsAgree /\ OneLive /\ OneBuilt /\ (\A j \in Acquisitions : Tracked(j))
  BY LifeParts
<1>2. \A j \in Acquisitions :
        /\ acq'[j].stage # "live"
        /\ acq'[j].stage \in {"mapped", "acquired"} => acq[j].stage \in {"mapped", "acquired"}
  OBVIOUS
<1>3. LifeTypeOK' /\ ThreadsAgree'
  <2>1. stopping' \subseteq Acquisitions
    BY <1>1 DEF LifeTypeOK, Live, Pending
  <2> QED
    BY <1>1, <2>1 DEF LifeTypeOK, ThreadsAgree
<1>3a. Stopped' => (Stopped /\ stopping' = stopping) \/ stopping' = Live \cup Pending
  BY <1>1 DEF ThreadsAgree, Stopped
<1>4. OneLive' /\ OneBuilt'
  BY <1>1, <1>2 DEF OneLive, OneBuilt
<1>5. ASSUME NEW j \in Acquisitions PROVE Tracked(j)'
  <2>1. CASE acq[j].stage = "live"
    <3>0. acq'[j].stage = "pending"
      BY <2>1
    <3>1. acq'[j].stage = "pending" /\ (Stopped' => j \in stopping')
      BY <1>1, <1>3a, <2>1, <3>0 DEF Tracked, Live
    <3>2. RecordsFollow(j)' /\ Owned(j)'
      BY <1>1, <2>1, <3>1 DEF Tracked, RecordsFollow, Owned
    <3> QED
      BY <3>1, <3>2 DEF Tracked
  <2>2. CASE acq[j].stage # "live"
    <3>0. acq'[j] = acq[j]
      BY <2>2
    <3>1. acq'[j] = acq[j] /\ RecordsFollow(j) /\ (Owned(j)' <=> Owned(j))
      BY <1>1, <3>0 DEF Tracked, Owned
    <3>2. RecordsFollow(j)'
      BY <3>1 DEF RecordsFollow
    <3>3. acq[j].stage \in {"pending", "unmapped", "stuck"} /\ Stopped' => j \in stopping' \/ acq[j].by = "reopen"
      BY <1>1, <1>3a DEF Tracked, Pending
    <3> QED
      BY <1>1, <2>2, <3>1, <3>2, <3>3 DEF Tracked
  <2> QED
    BY <2>1, <2>2
<1> QED
  BY <1>3, <1>4, <1>5, LifeWhole

(* The actor is torn down, or the command thread writes the applied row     *)
(* from the actor that serves.                                              *)
LEMMA CommandStep ==
  ASSUME LifeInv, Commit \/ HotUpdate \/ TearDown \/ (Stop /\ cmd' = "stopping")
  PROVE  LifeInv'
<1>1. LifeTypeOK /\ ThreadsAgree /\ OneLive /\ OneBuilt /\ (\A j \in Acquisitions : Tracked(j))
      /\ faults \in 0..MaxFaults /\ mishaps \in 0..MaxIncidents
  BY LifeParts DEF LifeTypeOK
<1>2. CASE TearDown \/ (Stop /\ cmd' = "stopping") \/ (Commit /\ Fault /\ Retire /\ UNCHANGED applied)
  <2>1. /\ Retire
        /\ UNCHANGED <<held, journal, excused, applied, erased, owner, pass, deaths>>
        /\ faults' \in 0..MaxFaults /\ mishaps' \in 0..MaxIncidents
    BY <1>1, <1>2, Counted DEF Stop, TearDown, Commit
  <2>2. \/ UNCHANGED <<cmd, stopping>>
        \/ cmd = "commit" /\ cmd' = "idle" /\ UNCHANGED stopping
        \/ cmd = "stop" /\ cmd' = "stopping" /\ stopping' = Live \cup Pending
    BY <1>2 DEF Stop, TearDown, Commit
  <2>3. /\ acq' \in [Acquisitions -> AcquisitionStates]
        /\ \A j \in Acquisitions :
               /\ acq'[j].by = acq[j].by
               /\ acq[j].stage = "live" => acq'[j].stage = "pending"
               /\ acq[j].stage # "live" => acq'[j] = acq[j]
    <3> DEFINE S == Live
    <3>1. acq' = [i \in Acquisitions |-> IF i \in S THEN [acq[i] EXCEPT !.stage = "pending"] ELSE acq[i]]
      BY <2>1 DEF Retire
    <3>2. "pending" \in Stages
      BY DEF Stages
    <3>3. \A j \in Acquisitions : j \in S <=> acq[j].stage = "live"
      BY DEF Live
    <3> HIDE DEF S
    <3>4. /\ acq' \in [Acquisitions -> AcquisitionStates]
          /\ \A j \in Acquisitions :
                 /\ acq'[j].by = acq[j].by
                 /\ j \in S => acq'[j].stage = "pending"
                 /\ j \notin S => acq'[j] = acq[j]
      BY <1>1, <3>1, <3>2, StageMoves
    <3> QED
      BY <3>3, <3>4
  <2> QED
    BY <2>1, <2>2, <2>3, StopStep
<1>3. CASE /\ cmd \in {"idle", "commit"} /\ cmd' = "idle" /\ erased = "none"
           /\ UNCHANGED <<held, journal, erased, acq, owner, stopping, pass, excused, faults, mishaps, deaths>>
           /\ \/ \E i \in Live : applied' = Refers(i)
              \/ Live = {} /\ applied' = applied
  <2>1. applied' \in [row : BOOLEAN, ref : 0..MaxAcquisitions]
    <3>1. \A i \in Live : i \in 0..MaxAcquisitions
      BY SMT, LifeAssumption DEF Live, Acquisitions
    <3>2. NoRef \in 0..MaxAcquisitions
      BY SMT, LifeAssumption DEF NoRef
    <3>3. \A i \in Live : Refers(i) \in [row : BOOLEAN, ref : 0..MaxAcquisitions]
      BY <3>1, <3>2 DEF Refers
    <3> QED
      BY <1>1, <1>3, <3>3 DEF LifeTypeOK
  <2>2. \A j \in Live : applied'.ref \in {NoRef, j}
    <3>1. \A i, j \in Live : i = j
      BY <1>1 DEF OneLive, Live
    <3>2. \A i \in Live : Refers(i).ref \in {NoRef, i}
      BY DEF Refers
    <3> QED
      BY <1>3, <3>1, <3>2
  <2>3. LifeTypeOK' /\ ThreadsAgree' /\ OneLive' /\ OneBuilt'
    BY <1>1, <1>3, <2>1 DEF LifeTypeOK, ThreadsAgree, OneLive, OneBuilt
  <2>4. ASSUME NEW j \in Acquisitions PROVE Tracked(j)'
    <3>1. RecordsFollow(j)' /\ (Owned(j)' <=> Owned(j))
      BY <1>1, <1>3 DEF Tracked, RecordsFollow, Owned
    <3>2. acq[j].stage = "live" => applied'.ref \in {NoRef, j}
      BY <2>2 DEF Live
    <3>3. ~Stopped'
      BY <1>3 DEF Stopped
    <3> QED
      BY <1>1, <1>3, <3>1, <3>2, <3>3 DEF Tracked
  <2> QED
    BY <2>3, <2>4, LifeWhole
<1>4. Commit => erased = "none"
  BY <1>1 DEF Commit, ThreadsAgree
<1> QED
  BY <1>2, <1>3, <1>4 DEF Commit, HotUpdate, Steady

(* The steps of a deletion leave the acquisitions alone.  From the stop on  *)
(* nothing serves, and what is pending was captured or comes from a reopen; *)
(* so the intent is cleared only when every captured actor is gone.         *)
LEMMA DeletionStep ==
  ASSUME LifeInv, DeleteIntent \/ DeleteCommit \/ Stop \/ StopEnds \/ DeleteComplete
  PROVE  LifeInv'
<1>1. LifeTypeOK /\ ThreadsAgree /\ OneLive /\ OneBuilt /\ (\A j \in Acquisitions : Tracked(j))
  BY LifeParts
<1>2. CASE Stop /\ cmd' = "stopping"
  BY <1>2, CommandStep
<1>3. CASE ~(Stop /\ cmd' = "stopping")
  <2>1. /\ UNCHANGED <<held, journal, acq, owner, pass, excused, mishaps, deaths>>
        /\ faults' \in 0..MaxFaults
    BY <1>1, <1>3, Counted DEF DeleteIntent, DeleteCommit, Stop, StopEnds, DeleteComplete, Steady, LifeTypeOK
  <2>2. /\ cmd \in {"idle", "delete", "stop", "stopping", "complete"}
        /\ cmd' \in {"idle", "delete", "stop", "complete"}
        /\ stopping' = {} /\ erased' \in {"none", "intent", "tombstone", "done"}
    BY <1>1, <1>3
       DEF DeleteIntent, DeleteCommit, Stop, StopEnds, DeleteComplete, Steady, LifeTypeOK, ThreadsAgree
  <2>3. /\ applied' \in [row : BOOLEAN, ref : 0..MaxAcquisitions]
        /\ applied' = applied \/ ~applied'.row
    <3>1. NoRef \in 0..MaxAcquisitions
      BY SMT, LifeAssumption DEF NoRef
    <3>2. [row |-> FALSE, ref |-> NoRef] \in [row : BOOLEAN, ref : 0..MaxAcquisitions]
      BY <3>1
    <3>3. applied' = applied \/ applied' = [row |-> FALSE, ref |-> NoRef]
      BY DEF DeleteIntent, DeleteCommit, Stop, StopEnds, DeleteComplete
    <3> QED
      BY <1>1, <3>2, <3>3 DEF LifeTypeOK
  <2>4. ThreadsAgree'
    <3>1. CASE DeleteIntent
      BY <1>1, <2>1, <2>2, <3>1 DEF DeleteIntent, ThreadsAgree, LifeTypeOK
    <3>2. CASE DeleteCommit
      <4>1. cmd = "delete" /\ owner # "apply" /\ erased \in {"intent", "tombstone"}
        BY <1>1, <3>2 DEF DeleteCommit, ThreadsAgree
      <4>2. CASE erased' = "tombstone" /\ cmd' = "stop" /\ ~applied'.row
        BY <1>1, <2>1, <2>2, <4>1, <4>2 DEF ThreadsAgree
      <4>3. CASE cmd' = "idle" /\ UNCHANGED <<erased, applied>>
        BY <1>1, <2>1, <2>2, <4>1, <4>3 DEF ThreadsAgree
      <4>4. \/ erased' = "tombstone" /\ cmd' = "stop" /\ applied' = [row |-> FALSE, ref |-> NoRef]
            \/ cmd' = "idle" /\ UNCHANGED <<erased, applied>>
        BY <3>2 DEF DeleteCommit
      <4>5. ~[row |-> FALSE, ref |-> NoRef].row
        OBVIOUS
      <4> QED
        BY <4>2, <4>3, <4>4, <4>5
    <3>3. CASE Stop
      BY <1>1, <1>3, <2>1, <2>2, <3>3 DEF Stop, ThreadsAgree
    <3>4. CASE StopEnds
      BY <1>1, <2>1, <2>2, <3>4 DEF StopEnds, ThreadsAgree
    <3>5. CASE DeleteComplete
      <4>1. ~applied'.row /\ owner # "apply" /\ cmd' = "idle"
        BY <1>1, <3>5 DEF DeleteComplete, ThreadsAgree
      <4> QED
        BY <1>1, <2>1, <2>2, <4>1 DEF ThreadsAgree
    <3> QED
      BY <3>1, <3>2, <3>3, <3>4, <3>5
  <2>5. LifeTypeOK' /\ OneLive' /\ OneBuilt'
    BY <1>1, <2>1, <2>2, <2>3 DEF LifeTypeOK, OneLive, OneBuilt
  <2>6. ASSUME NEW j \in Acquisitions, Stopped'
        PROVE  /\ acq[j].stage # "live"
               /\ acq[j].stage \in {"pending", "unmapped", "stuck"} => acq[j].by = "reopen"
    <3>1. \/ StopEnds /\ cmd = "stopping" /\ cmd' = "complete"
          \/ DeleteComplete /\ cmd = "complete"
      BY <1>1, <1>3, <2>6 DEF DeleteIntent, DeleteCommit, Stop, StopEnds, DeleteComplete, Stopped, ThreadsAgree
    <3>2. Stopped /\ (j \in stopping => acq[j].stage = "gone")
      BY <1>1, <3>1 DEF StopEnds, Stopped, ThreadsAgree
    <3> QED
      BY <1>1, <3>2 DEF Tracked
  <2>7. ASSUME NEW j \in Acquisitions PROVE Tracked(j)'
    <3>1. RecordsFollow(j)' /\ (Owned(j)' <=> Owned(j))
      BY <1>1, <2>1 DEF Tracked, RecordsFollow, Owned
    <3>2. acq'[j] = acq[j] /\ cmd # "commit" /\ owner' = owner
      BY <2>1, <2>2
    <3> QED
      BY <1>1, <2>1, <2>3, <2>6, <3>1, <3>2 DEF Tracked
  <2> QED
    BY <2>4, <2>5, <2>7, LifeWhole
<1> QED
  BY <1>2, <1>3

(* The process goes down, by a crash or by a failed start.                  *)
LEMMA DownStep ==
  ASSUME LifeInv, Die \/ PassFails
  PROVE  LifeInv'
<1>1. LifeTypeOK /\ ThreadsAgree /\ OneLive /\ OneBuilt /\ (\A j \in Acquisitions : Tracked(j))
      /\ owner \in {"nobody", "apply", "reopen"}
      /\ \A j \in Acquisitions : acq[j].by \in {"apply", "reopen"} /\ acq[j].stage \in Stages
  BY LifeParts DEF LifeTypeOK, AcquisitionStates
<1>2. Idle \in PassStates /\ Idle.records = {} /\ Idle.doomed = {} /\ Idle.freed = {} /\ Idle.pc = "idle"
  <2>1. 0 \in 0..MaxAcquisitions
    BY SMT, LifeAssumption
  <2> QED
    BY <2>1 DEF Idle, PassStates, PassSteps, NoRef
<1>3. CASE PassFails /\ UNCHANGED <<cmd, acq>>
  <2>1. /\ UNCHANGED <<held, journal, erased, acq, owner, stopping, excused, cmd, applied, faults, mishaps, deaths>>
        /\ pass' = Idle /\ owner # "reopen"
    BY <1>1, <1>3 DEF PassFails, Steady, ThreadsAgree
  <2> QED
    BY <1>1, <1>2, <2>1, PassMoves DEF LifeTypeOK
<1>4. CASE \/ Die
           \/ /\ PassFails /\ cmd = "boot" /\ cmd' = "down"
              /\ acq' = [i \in Acquisitions |-> IF Owned(i) THEN Gone ELSE acq[i]]
  <2>1. /\ acq' = [i \in Acquisitions |-> IF Owned(i) THEN Gone ELSE acq[i]]
        /\ UNCHANGED <<held, journal, applied, erased, faults, mishaps>>
        /\ cmd' = "down" /\ pass' = Idle /\ stopping' = {}
    BY <1>1, <1>4 DEF Die, PassFails, Steady, ThreadsAgree
  <2>2. deaths' \in 0..MaxDeaths
    BY SMT, <1>1, <1>4, LifeAssumption DEF LifeTypeOK, Die, PassFails, Steady
  <2>3. owner' = "nobody"
    <3>1. CASE Die
      BY <3>1 DEF Die
    <3>2. CASE PassFails /\ cmd = "boot"
      <4>1. owner' = owner /\ pass.pc = "failed"
        BY <3>2 DEF PassFails
      <4> QED
        BY <1>1, <3>2, <4>1 DEF ThreadsAgree
    <3> QED
      BY <1>4, <3>1, <3>2
  <2>4. /\ excused \subseteq excused' /\ excused' \subseteq Acquisitions
        /\ \A j \in Acquisitions : acq[j].stage = "mapped" => j \in excused'
    <3>1. CASE Die
      BY <1>1, <3>1 DEF Die, LifeTypeOK
    <3>2. CASE ~Die
      <4>1. PassFails /\ cmd = "boot" /\ excused' = excused
        BY <1>4, <3>2 DEF PassFails
      <4>2. owner \notin {"apply", "reopen"}
        BY <1>1, <4>1 DEF PassFails, ThreadsAgree
      <4> QED
        BY <1>1, <4>1, <4>2 DEF LifeTypeOK, Tracked
    <3> QED
      BY <3>1, <3>2
  <2>5. /\ acq' \in [Acquisitions -> AcquisitionStates]
        /\ \A j \in Acquisitions :
               /\ Owned(j) => acq'[j].stage = "gone"
               /\ ~Owned(j) => acq'[j] = acq[j]
    <3>1. acq \in [Acquisitions -> AcquisitionStates]
      BY <1>1 DEF LifeTypeOK
    <3> HIDE DEF Owned
    <3> QED
      BY <2>1, <3>1, GoneFacts
  <2>6. \A j \in Acquisitions : acq'[j].stage \in {"none", "gone"} /\ (acq'[j].stage = "none" => acq[j].stage = "none")
    <3>1. \A j \in Acquisitions : Owned(j) \/ acq[j].stage \in {"none", "gone"}
      BY <1>1 DEF Owned, Stages
    <3> HIDE DEF Owned
    <3> QED
      BY <2>5, <3>1
  <2>7. LifeTypeOK' /\ ThreadsAgree' /\ OneLive' /\ OneBuilt'
    BY <1>1, <1>2, <2>1, <2>2, <2>3, <2>4, <2>5, <2>6 DEF LifeTypeOK, ThreadsAgree, OneLive, OneBuilt
  <2>8. ASSUME NEW j \in Acquisitions PROVE Tracked(j)'
    <3>1. RecordsFollow(j)'
      BY <1>1, <1>2, <2>1, <2>6 DEF RecordsFollow, Tracked
    <3>2. j \in held => j \in journal \cup excused'
      BY <1>1, <2>4 DEF Tracked, RecordsFollow, Owned
    <3> QED
      BY <2>1, <2>6, <3>1, <3>2 DEF Tracked
  <2> QED
    BY <2>7, <2>8, LifeWhole
<1> QED
  BY <1>3, <1>4 DEF PassFails

(* Every step keeps the invariant.                                          *)
LEMMA LifeSteps == LifeInv /\ [LifeNext]_lifeVars => LifeInv'
<1> SUFFICES ASSUME LifeInv, [LifeNext]_lifeVars PROVE LifeInv'
  OBVIOUS
<1>1. CASE UNCHANGED lifeVars
  <2>1. LifeTypeOK /\ ThreadsAgree /\ OneLive /\ OneBuilt /\ (\A j \in Acquisitions : Tracked(j))
    BY LifeParts
  <2>2. LifeTypeOK' /\ ThreadsAgree' /\ OneLive' /\ OneBuilt'
    BY <1>1, <2>1 DEF lifeVars, LifeTypeOK, ThreadsAgree, OneLive, OneBuilt
  <2>3. \A j \in Acquisitions : Tracked(j)'
    BY <1>1, <2>1 DEF lifeVars, Tracked, RecordsFollow, Owned, Stopped
  <2> QED
    BY <2>2, <2>3, LifeWhole
<1>2. CASE Acquiring
  BY <1>2, CompensateStep, AcquiredStep DEF Acquiring
<1>3. CASE Commands
  BY <1>3, MapStep, PublishStep, CommandStep, DeletionStep DEF Commands
<1>4. CASE Releasing
  BY <1>4, MappingStep DEF Releasing
<1>5. CASE Passing
  BY <1>5, PassStep, MapStep, PublishStep, DownStep, EvacuationStep DEF Passing
<1>6. CASE Around
  BY <1>6, CommandStep, DownStep, PassStep, MappingStep DEF Around
<1> QED
  BY <1>1, <1>2, <1>3, <1>4, <1>5, <1>6 DEF LifeNext

(* For every number of acquisitions, faults, incidents and deaths, no       *)
(* mapping of the Forward is lost track of, and a deletion is reported      *)
(* complete only when every actor its stop captured is released.            *)
THEOREM LifeSafe == LifeSpec => []LifeInv
BY LifeInitial, LifeSteps, PTL DEF LifeSpec

(* A Put writes a record or leaves the journal as it was.                   *)
LEMMA JournalGrows ==
  ASSUME NEW i, NEW done, NEW kept, JournalPut(i, done, kept)
  PROVE  journal \subseteq journal'
BY DEF JournalPut

(* A record is forgotten only once its mapping is off the gateway: Release  *)
(* takes it in that order, and an evacuation excuses what is renewed behind *)
(* its back.                                                                *)
THEOREM RecordOutlivesMapping == LifeSpec => ForgottenIsReleased
<1>1. LifeInv /\ [LifeNext]_lifeVars =>
        [\A i \in journal \ journal' : i \notin held \/ i \in excused']_lifeVars
  <2> SUFFICES ASSUME LifeInv, LifeNext, NEW i \in journal \ journal'
               PROVE  i \notin held \/ i \in excused'
    BY DEF lifeVars
  <2>1. i \in Acquisitions /\ Tracked(i) /\ RecordsFollow(i)
    BY LifeParts DEF LifeTypeOK, Tracked
  <2>1a. ~Acquiring
    <3>1. \A by \in {"apply", "reopen"} : ~Compensate(by)
      BY DEF Compensate
    <3>2. \A by \in {"apply", "reopen"} : ~Acquired(by)
      BY JournalGrows DEF Acquired
    <3> QED
      BY <3>1, <3>2 DEF Acquiring
  <2>2. ~Commands
    BY DEF Commands, ApplyMap, ApplyPublish, Commit, HotUpdate, DeleteIntent, DeleteCommit, Stop,
       StopEnds, DeleteComplete
  <2>3. ~Around
    BY DEF Around, TearDown, Die, Start, Serve, Renew, JournalPut, GatewayForgets
  <2>4. Passing => PassCommit
    BY DEF Passing, PassStart, PassSkip, ReopenMap, ReopenPublish, PassFails, PassLiveRefs, PassList,
       PassApplied, PassTombstones, PassIntents, PassRelease
  <2>5. Releasing => ReleaseRecord(i)
    BY DEF Releasing, ReleaseMapping, ReleaseRecord
  <2>6. PassCommit \/ ReleaseRecord(i)
    BY <2>1a, <2>2, <2>3, <2>4, <2>5 DEF LifeNext
  <2> QED
    BY <2>1, <2>6 DEF PassCommit, ReleaseRecord, RecordsFollow, Owned
<1> QED
  BY <1>1, LifeSafe, PTL DEF LifeSpec, ForgottenIsReleased

-----------------------------------------------------------------------------
(* GatewayExchange *)

(* What ExchangeInv says of one Forward.                                    *)
FineAt(f) ==
    /\ AnswerIsTrue(f)
    /\ ReadBefore(tx[f].base, uptime, boot) /\ ReadBefore(tx[f].answer, uptime, boot)
    /\ mine[f].boot <= boot
    /\ tx[f].answer # NoAnswer => ReadBefore(tx[f].base, tx[f].answer.epoch, tx[f].answer.boot)
    /\ mine[f].health = "held" /\ mine[f].boot = boot /\ tx[f].op # "delete"
          => nat[f] = mine[f].nonce

(* ExchangeInv, Forward by Forward.                                         *)
LEMMA ExchangeByForward ==
  ExchangeInv <=> XTypeOK /\ ReadBefore(baseline, uptime, boot) /\ \A f \in Forwards : FineAt(f)
<1>1. EpochsInPast /\ HeldIsMapped /\ (\A f \in Forwards : AnswerIsTrue(f))
      <=> ReadBefore(baseline, uptime, boot) /\ \A f \in Forwards : FineAt(f)
  BY DEF FineAt, EpochsInPast, HeldIsMapped
<1> QED
  BY <1>1 DEF ExchangeInv

(* The same in the next state.                                              *)
LEMMA ExchangeByForwardNext ==
  XTypeOK' /\ ReadBefore(baseline', uptime', boot') /\ (\A f \in Forwards : FineAt(f)') => ExchangeInv'
  BY DEF FineAt, EpochsInPast, HeldIsMapped, ExchangeInv, ReadBefore

(* An untouched Forward is untouched by what others do.                     *)
LEMMA OtherForward ==
  ASSUME NEW g \in Forwards, FineAt(g), tx'[g] = tx[g], mine'[g] = mine[g], nat'[g] = nat[g],
         UNCHANGED <<kind, uptime, boot>>
  PROVE  FineAt(g)'
<1>1. AnswerIsTrue(g)'
  BY DEF FineAt, AnswerIsTrue, RolledBack, OwnNonce
<1>2. /\ ReadBefore(tx[g].base, uptime, boot)' /\ ReadBefore(tx[g].answer, uptime, boot)'
      /\ (mine[g].boot <= boot)'
      /\ (tx[g].answer # NoAnswer => ReadBefore(tx[g].base, tx[g].answer.epoch, tx[g].answer.boot))'
  BY DEF FineAt, ReadBefore
<1> QED
  BY <1>1, <1>2 DEF FineAt

(* A step of one Forward's transaction, or of the gateway on its behalf.    *)
LEMMA OneForward ==
  ASSUME ExchangeInv, NEW f \in Forwards,
         NEW t \in Transactions, NEW m \in Mappings, NEW n \in 0..MaxExchanges,
         tx' = [tx EXCEPT ![f] = t], mine' = [mine EXCEPT ![f] = m], nat' = [nat EXCEPT ![f] = n],
         UNCHANGED <<kind, uptime, boot>>, started' \in 0..MaxExchanges,
         baseline' \in Baselines, ReadBefore(baseline', uptime, boot),
         tx'[f] = t /\ mine'[f] = m /\ nat'[f] = n => FineAt(f)'
  PROVE  ExchangeInv'
<1>1. XTypeOK /\ \A g \in Forwards : FineAt(g)
  BY ExchangeByForward
<1>2. XTypeOK' /\ tx'[f] = t /\ mine'[f] = m /\ nat'[f] = n
  BY <1>1 DEF XTypeOK
<1>3. \A g \in Forwards : g # f => tx'[g] = tx[g] /\ mine'[g] = mine[g] /\ nat'[g] = nat[g]
  BY <1>1 DEF XTypeOK
<1>4. \A g \in Forwards : FineAt(g)'
  BY <1>1, <1>2, <1>3, OtherForward
<1> QED
  BY <1>2, <1>4, ExchangeByForwardNext

(* The records that the initial and the resting states are made of.         *)
LEMMA RestingTyped ==
  /\ Resting \in Transactions /\ Unmapped \in Mappings /\ Unseen \in Baselines /\ NoAnswer \in Answers
  /\ Resting.op = "none" /\ Resting.stage = "idle" /\ Resting.answer = NoAnswer
  /\ Resting.base = Unseen /\ Resting.rebooted = FALSE /\ Resting.nonce = 0
  /\ NoAnswer.code = "none" /\ NoAnswer.boot = 0 /\ NoAnswer.epoch = 0
  /\ Unseen.boot = 0 /\ Unseen.epoch = 0
  /\ Unmapped.health = "none" /\ Unmapped.boot = 0 /\ Unmapped.nonce = 0
<1>1. Unseen \in Baselines /\ NoAnswer \in Answers /\ Unmapped \in Mappings
  BY SMT, ExchangeAssumption DEF Unseen, Baselines, NoAnswer, Answers, Unmapped, Mappings, NoNonce
<1>2. Resting \in Transactions
  BY SMT, <1>1, ExchangeAssumption DEF Resting, Transactions, NoNonce
<1> QED
  BY <1>1, <1>2 DEF Resting, NoAnswer, Unseen, Unmapped, NoNonce

(* Boots and epochs are numbers.                                            *)
LEMMA NumbersAreNat == 0..MaxBoots \subseteq Nat /\ Uptimes \subseteq Nat
BY SMT, ExchangeAssumption

(* Before the first transaction nothing is mapped and nothing is believed.  *)
LEMMA ExchangeInit == XInit => ExchangeInv
<1> SUFFICES ASSUME XInit PROVE ExchangeInv
  OBVIOUS
<1>1. XTypeOK
  BY SMT, RestingTyped, ExchangeAssumption DEF XInit, XTypeOK, NoNonce
<1>2. ReadBefore(baseline, uptime, boot)
  BY SMT, RestingTyped DEF XInit, ReadBefore
<1>3. ASSUME NEW f \in Forwards PROVE FineAt(f)
  <2>1. tx[f] = Resting /\ mine[f] = Unmapped /\ boot = 0 /\ uptime = 0
    BY DEF XInit
  <2>2. ReadBefore(Unseen, 0, 0) /\ ReadBefore(NoAnswer, 0, 0) /\ 0 <= 0
    BY SMT, RestingTyped DEF ReadBefore
  <2> QED
    BY <2>1, <2>2, RestingTyped DEF FineAt, AnswerIsTrue, NoNonce
<1> QED
  BY <1>1, <1>2, <1>3, ExchangeByForward

(* A transaction ends without a result.                                     *)
LEMMA FailsStep ==
  ASSUME ExchangeInv, NEW f \in Forwards, tx[f].stage = "await", Fails(f),
         UNCHANGED <<kind, uptime, boot, nat, baseline, started>>
  PROVE  ExchangeInv'
<1>1. XTypeOK /\ ReadBefore(baseline, uptime, boot) /\ FineAt(f)
  BY ExchangeByForward
<1> DEFINE m == IF tx[f].op = "delete" THEN [mine[f] EXCEPT !.health = "doubtful"] ELSE mine[f]
<1>2. mine[f] \in Mappings /\ tx[f] \in Transactions /\ nat[f] \in 0..MaxExchanges
  BY <1>1 DEF XTypeOK
<1>3. /\ m \in Mappings /\ m.boot = mine[f].boot /\ m.nonce = mine[f].nonce
      /\ m.health = IF tx[f].op = "delete" THEN "doubtful" ELSE mine[f].health
  BY SMT, <1>2 DEF Mappings
<1>4. tx' = [tx EXCEPT ![f] = Resting] /\ mine' = [mine EXCEPT ![f] = m] /\ nat' = [nat EXCEPT ![f] = nat[f]]
  BY <1>1 DEF Fails, XTypeOK
<1>5. m # Unmapped => OwnNonce(m.nonce)
  BY <1>1, <1>3 DEF FineAt, AnswerIsTrue
<1>6. ReadBefore(Unseen, uptime, boot) /\ ReadBefore(NoAnswer, uptime, boot)
  BY SMT, <1>1, RestingTyped, ExchangeAssumption DEF ReadBefore, XTypeOK
<1> HIDE DEF m
<1>7. tx'[f] = Resting /\ mine'[f] = m /\ nat'[f] = nat[f] => FineAt(f)'
  BY <1>1, <1>3, <1>5, <1>6, RestingTyped DEF FineAt, AnswerIsTrue, Operations, NoNonce, OwnNonce
<1> QED
  BY <1>1, <1>2, <1>3, <1>4, <1>7, RestingTyped, OneForward DEF XTypeOK

(* Transactions from their fields.                                          *)
LEMMA TransactionMade ==
  ASSUME NEW op \in Operations \cup {"none"}, NEW stage \in {"idle", "await", "done"},
         NEW base \in Baselines, NEW nonce \in 0..MaxExchanges, NEW attempt \in 0..MaxAttempts,
         NEW asked \in BOOLEAN, NEW answer \in Answers, NEW rebooted \in BOOLEAN
  PROVE  [op |-> op, stage |-> stage, base |-> base, nonce |-> nonce, attempt |-> attempt,
          asked |-> asked, answer |-> answer, rebooted |-> rebooted] \in Transactions
BY DEF Transactions

(* The fields of a transaction.                                             *)
LEMMA TransactionFields ==
  ASSUME NEW t \in Transactions
  PROVE  /\ t.op \in Operations \cup {"none"} /\ t.stage \in {"idle", "await", "done"}
         /\ t.base \in Baselines /\ t.nonce \in 0..MaxExchanges /\ t.attempt \in 0..MaxAttempts
         /\ t.asked \in BOOLEAN /\ t.answer \in Answers /\ t.rebooted \in BOOLEAN
         /\ t = [op |-> t.op, stage |-> t.stage, base |-> t.base, nonce |-> t.nonce,
                 attempt |-> t.attempt, asked |-> t.asked, answer |-> t.answer,
                 rebooted |-> t.rebooted]
BY DEF Transactions

(* The next datagram of a transaction: attempts are counted, and the answer *)
(* of the last one is gone.                                                 *)
LEMMA RetryStep ==
  ASSUME ExchangeInv, NEW f \in Forwards, tx[f].stage = "await", Retry(f),
         UNCHANGED <<kind, uptime, boot, nat, baseline, started>>
  PROVE  ExchangeInv'
<1>1. XTypeOK /\ ReadBefore(baseline, uptime, boot) /\ FineAt(f)
  BY ExchangeByForward
<1>2. mine[f] \in Mappings /\ tx[f] \in Transactions /\ nat[f] \in 0..MaxExchanges
  BY <1>1 DEF XTypeOK
<1>3. CASE tx[f].attempt < MaxAttempts
  <2> DEFINE t == [tx[f] EXCEPT !.attempt = @ + 1, !.asked = TRUE, !.answer = NoAnswer]
  <2>1. /\ t \in Transactions /\ t.op = tx[f].op /\ t.stage = "await" /\ t.base = tx[f].base
        /\ t.nonce = tx[f].nonce /\ t.answer = NoAnswer /\ t.rebooted = tx[f].rebooted
    <3>1. tx[f].attempt + 1 \in 0..MaxAttempts
      BY SMT, <1>2, <1>3, TransactionFields, ExchangeAssumption
    <3> QED
      BY <1>2, <3>1, RestingTyped DEF Transactions
  <2>2. tx' = [tx EXCEPT ![f] = t] /\ mine' = [mine EXCEPT ![f] = mine[f]] /\ nat' = [nat EXCEPT ![f] = nat[f]]
    BY <1>1, <1>3 DEF Retry, XTypeOK
  <2>3. ReadBefore(NoAnswer, uptime, boot)
    BY SMT, <1>1, RestingTyped, ExchangeAssumption DEF ReadBefore, XTypeOK
  <2> HIDE DEF t
  <2>4. ASSUME tx'[f] = t, mine'[f] = mine[f], nat'[f] = nat[f] PROVE FineAt(f)'
    <3>1. AnswerIsTrue(f)'
      BY <2>1, <2>4, <1>1, RestingTyped DEF FineAt, AnswerIsTrue, OwnNonce
    <3> QED
      BY <2>1, <2>3, <2>4, <3>1, <1>1 DEF FineAt
  <2> QED
    BY <1>1, <1>2, <2>1, <2>2, <2>4, OneForward DEF XTypeOK
<1>4. CASE ~(tx[f].attempt < MaxAttempts)
  BY <1>4, FailsStep DEF Retry, GiveUp
<1> QED
  BY <1>3, <1>4

(* A success is read and compared with the copy of the baseline.            *)
LEMMA ObservedStep ==
  ASSUME ExchangeInv, NEW f \in Forwards, tx[f].stage = "await", tx[f].answer.code = "success",
         Observed(f), UNCHANGED <<kind, uptime, boot, nat, baseline, started>>
  PROVE  ExchangeInv'
<1>1. XTypeOK /\ ReadBefore(baseline, uptime, boot) /\ FineAt(f)
  BY ExchangeByForward
<1>2. mine[f] \in Mappings /\ tx[f] \in Transactions /\ nat[f] \in 0..MaxExchanges
  BY <1>1 DEF XTypeOK
<1> DEFINE r == RolledBack(tx[f].base, tx[f].answer.epoch)
           t == [tx[f] EXCEPT !.stage = "done", !.rebooted = r]
<1>3. r \in BOOLEAN
  BY <1>2 DEF RolledBack, Transactions, Baselines
<1> HIDE DEF r
<1>4. /\ t \in Transactions /\ t.op = tx[f].op /\ t.stage = "done" /\ t.base = tx[f].base
      /\ t.nonce = tx[f].nonce /\ t.answer = tx[f].answer /\ t.rebooted = r /\ t.asked = tx[f].asked
  BY <1>2, <1>3 DEF Transactions
<1>5. tx' = [tx EXCEPT ![f] = t] /\ mine' = [mine EXCEPT ![f] = mine[f]] /\ nat' = [nat EXCEPT ![f] = nat[f]]
  BY <1>1 DEF Observed, XTypeOK, r
<1> HIDE DEF t
<1>6. ASSUME tx'[f] = t, mine'[f] = mine[f], nat'[f] = nat[f] PROVE FineAt(f)'
  <2>1. AnswerIsTrue(f)'
    BY <1>4, <1>6, <1>1 DEF FineAt, AnswerIsTrue, r, OwnNonce
  <2> QED
    BY <1>4, <1>6, <2>1, <1>1 DEF FineAt
<1> QED
  BY <1>1, <1>2, <1>4, <1>5, <1>6, OneForward DEF XTypeOK

(* Every answer is read: it is observed, retried, or ends the transaction.  *)
LEMMA ReceiveFacts ==
  ASSUME ExchangeInv, NEW f \in Forwards, Receive(f)
  PROVE  \/ tx[f].answer.code = "success" /\ Observed(f)
         \/ Retry(f) \/ Fails(f)
<1>1. XTypeOK /\ FineAt(f) /\ tx[f] \in Transactions
  BY ExchangeByForward DEF XTypeOK
<1>2. tx[f].answer.code \in {"success", "busy", "refused"}
  BY <1>1 DEF Receive, FineAt, AnswerIsTrue, Transactions, Answers
<1> QED
  BY <1>2 DEF Receive, PcpAwaitAnnounce, PcpAwaitResponse, NatpmpAwaitMap, NatpmpAwaitPublic, Classified

(* The end of a wait: an answer, a timeout, or a caller that went away.     *)
LEMMA ReceiveStep ==
  ASSUME ExchangeInv, NEW f \in Forwards, Receive(f) \/ Timeout(f) \/ Cancel(f)
  PROVE  ExchangeInv'
<1>1. tx[f].stage = "await" /\ UNCHANGED <<kind, uptime, boot, nat, baseline, started>>
  BY DEF Receive, Timeout, Cancel
<1>2. CASE Receive(f)
  BY <1>1, <1>2, ReceiveFacts, ObservedStep, RetryStep, FailsStep
<1>3. CASE Timeout(f) \/ Cancel(f)
  BY <1>1, <1>3, RetryStep, FailsStep DEF Timeout, Cancel
<1> QED
  BY <1>2, <1>3

(* A transaction starts with the baseline of the moment and the nonce of    *)
(* its mapping.                                                             *)
LEMMA AsksStep ==
  ASSUME ExchangeInv, NEW f \in Forwards, NEW op \in Operations, NEW nonce \in 0..MaxExchanges,
         Asks(f, op, nonce),
         op = "map" => mine[f] = Unmapped /\ OwnNonce(nonce),
         op \in {"renew", "delete"} => mine[f] # Unmapped /\ nonce = mine[f].nonce
  PROVE  ExchangeInv'
<1>1. XTypeOK /\ ReadBefore(baseline, uptime, boot) /\ FineAt(f)
  BY ExchangeByForward
<1>2. mine[f] \in Mappings /\ baseline \in Baselines /\ nat[f] \in 0..MaxExchanges
  BY <1>1 DEF XTypeOK
<1> DEFINE t == [Resting EXCEPT !.op = op, !.stage = "await", !.base = baseline,
                                !.attempt = 1, !.asked = TRUE, !.nonce = nonce]
<1>3. /\ t \in Transactions /\ t.op = op /\ t.stage = "await" /\ t.base = baseline
      /\ t.nonce = nonce /\ t.answer = NoAnswer /\ t.rebooted = FALSE
  <2>1. 1 \in 0..MaxAttempts
    BY SMT, ExchangeAssumption
  <2> QED
    BY <1>2, <2>1, RestingTyped DEF Transactions
<1>4. /\ tx' = [tx EXCEPT ![f] = t] /\ mine' = [mine EXCEPT ![f] = mine[f]] /\ nat' = [nat EXCEPT ![f] = nat[f]]
      /\ UNCHANGED <<kind, uptime, boot, baseline>> /\ tx[f] = Resting
  BY <1>1 DEF Asks, XTypeOK, FineAt, AnswerIsTrue
<1>5. started' \in 0..MaxExchanges
  BY SMT, <1>1, ExchangeAssumption DEF Asks, XTypeOK
<1>6. ReadBefore(NoAnswer, uptime, boot)
  BY SMT, <1>1, RestingTyped, ExchangeAssumption DEF ReadBefore, XTypeOK
<1> HIDE DEF t
<1>7. ASSUME tx'[f] = t, mine'[f] = mine[f], nat'[f] = nat[f] PROVE FineAt(f)'
  <2>1. AnswerIsTrue(f)'
    BY <1>3, <1>4, <1>7, <1>1, RestingTyped DEF FineAt, AnswerIsTrue, OwnNonce
  <2> QED
    BY <1>3, <1>4, <1>6, <1>7, <2>1, <1>1, RestingTyped DEF FineAt
<1> QED
  BY <1>1, <1>2, <1>3, <1>4, <1>5, <1>7, OneForward DEF XTypeOK

(* Which nonce each operation of either protocol carries.                   *)
LEMMA BeginStep ==
  ASSUME ExchangeInv, NEW f \in Forwards, Begin(f)
  PROVE  ExchangeInv'
<1>1. XTypeOK /\ FineAt(f) /\ mine[f] \in Mappings
  BY ExchangeByForward DEF XTypeOK
<1>2. mine[f].nonce \in 0..MaxExchanges
  BY <1>1 DEF Mappings
<1>3. started < MaxExchanges => /\ started + 1 \in 0..MaxExchanges /\ started + 1 # 0
                               /\ 1 \in 0..MaxExchanges /\ 1 # 0
  BY SMT, <1>1, ExchangeAssumption DEF XTypeOK
<1>4. 0 \in 0..MaxExchanges
  BY SMT, ExchangeAssumption
<1>5. mine[f].health = "held" => mine[f] # Unmapped
  BY RestingTyped
<1>6. CASE kind = "pcp"
  BY <1>1, <1>2, <1>3, <1>4, <1>5, <1>6, AsksStep
     DEF Begin, PcpDiscover, PcpMap, PcpRenew, PcpDelete, NatpmpDiscover, NatpmpMap, NatpmpRenew,
         NatpmpDelete, Operations, NoNonce, OwnNonce, Asks
<1>7. CASE kind = "natpmp"
  <2>1. mine[f] # Unmapped => mine[f].nonce = 1
    BY <1>1, <1>7 DEF FineAt, AnswerIsTrue, OwnNonce, PortIdentity
  <2> QED
    BY <1>3, <1>4, <1>5, <1>7, <2>1, AsksStep
       DEF Begin, PcpDiscover, PcpMap, PcpRenew, PcpDelete, NatpmpDiscover, NatpmpMap, NatpmpRenew,
           NatpmpDelete, Operations, NoNonce, OwnNonce, Asks, PortIdentity
<1> QED
  BY <1>1, <1>6, <1>7 DEF XTypeOK

(* What the manager adopts: the grant of an answer that is still true, or   *)
(* the mapping it had, marked lost.                                         *)
LEMMA AdoptedFacts ==
  ASSUME ExchangeInv, NEW f \in Forwards, tx[f].stage = "done"
  PROVE  /\ Adopted(f) \in Mappings /\ Adopted(f).boot <= boot
         /\ Adopted(f) # Unmapped => OwnNonce(Adopted(f).nonce)
         /\ Adopted(f).health = "held" /\ Adopted(f).boot = boot => nat[f] = Adopted(f).nonce
<1>1. XTypeOK /\ FineAt(f) /\ mine[f] \in Mappings /\ tx[f] \in Transactions /\ boot \in Nat
  BY ExchangeByForward, NumbersAreNat DEF XTypeOK
<1>2. /\ tx[f].answer \in Answers /\ tx[f].nonce \in 0..MaxExchanges /\ tx[f].op \in Operations
      /\ tx[f].answer.code = "success" /\ tx[f].answer.boot <= boot /\ mine[f].boot <= boot
  <2>1. tx[f].answer \in Answers /\ tx[f].nonce \in 0..MaxExchanges
    BY <1>1, TransactionFields
  <2>2. tx[f].answer.boot <= boot
    BY SMT, <1>1, <2>1, ExchangeAssumption DEF FineAt, ReadBefore, Answers
  <2> QED
    BY <1>1, <2>1, <2>2 DEF FineAt, AnswerIsTrue
<1> DEFINE granted == [nonce |-> tx[f].nonce, epoch |-> tx[f].answer.epoch,
                       boot |-> tx[f].answer.boot, health |-> "held"]
<1>3. CASE tx[f].op = "map" \/ (tx[f].op = "renew" /\ ~tx[f].rebooted)
  <2>1. Adopted(f) = granted
    BY <1>3 DEF Adopted
  <2>2. /\ granted \in Mappings /\ granted.boot = tx[f].answer.boot /\ granted.health = "held"
        /\ granted.nonce = tx[f].nonce
    BY <1>2 DEF Mappings, Answers
  <2>3. OwnNonce(tx[f].nonce) /\ (tx[f].answer.boot = boot => nat[f] = tx[f].nonce)
    BY <1>1, <1>2, <1>3 DEF FineAt, AnswerIsTrue
  <2> QED
    BY <1>2, <2>1, <2>2, <2>3
<1>4. CASE tx[f].op = "renew" /\ tx[f].rebooted
  <2>1. Adopted(f) = [mine[f] EXCEPT !.health = "lost"]
    BY <1>4 DEF Adopted
  <2>2. /\ Adopted(f) \in Mappings /\ Adopted(f).boot = mine[f].boot /\ Adopted(f).health = "lost"
        /\ Adopted(f).nonce = mine[f].nonce
    BY <1>1, <2>1 DEF Mappings
  <2>3. OwnNonce(mine[f].nonce)
    BY <1>1, <1>4 DEF FineAt, AnswerIsTrue
  <2> QED
    BY <1>2, <2>2, <2>3
<1>5. CASE tx[f].op = "delete"
  <2>1. Adopted(f) = Unmapped
    BY <1>5 DEF Adopted
  <2>2. 0 <= boot
    BY SMT, <1>1
  <2> QED
    BY <2>1, <2>2, RestingTyped
<1>6. CASE tx[f].op = "discover"
  <2>1. Adopted(f) = mine[f]
    BY <1>6 DEF Adopted
  <2> QED
    BY <1>1, <1>2, <1>6, <2>1 DEF FineAt, AnswerIsTrue
<1> QED
  BY <1>2, <1>3, <1>4, <1>5, <1>6, <1>1, TransactionFields DEF Operations

(* The result reaches the adapter's baseline and the Forward's mapping.     *)
LEMMA RecordStep ==
  ASSUME ExchangeInv, NEW f \in Forwards, Record(f)
  PROVE  ExchangeInv'
<1>1. XTypeOK /\ ReadBefore(baseline, uptime, boot) /\ FineAt(f) /\ tx[f] \in Transactions
  BY ExchangeByForward DEF XTypeOK
<1>2. tx[f].stage = "done" /\ tx[f].answer \in Answers /\ nat[f] \in 0..MaxExchanges
  BY <1>1, TransactionFields DEF Record, XTypeOK
<1> DEFINE b == [seen |-> TRUE, epoch |-> tx[f].answer.epoch, boot |-> tx[f].answer.boot]
<1>3. b \in Baselines /\ ReadBefore(b, uptime, boot)
  BY <1>1, <1>2 DEF Baselines, Answers, FineAt, ReadBefore
<1>4. /\ baseline' = b /\ UNCHANGED <<kind, uptime, boot, started>>
      /\ tx' = [tx EXCEPT ![f] = Resting] /\ mine' = [mine EXCEPT ![f] = Adopted(f)]
      /\ nat' = [nat EXCEPT ![f] = nat[f]]
  BY <1>1 DEF Record, XTypeOK
<1>5. ReadBefore(Unseen, uptime, boot) /\ ReadBefore(NoAnswer, uptime, boot)
  BY SMT, <1>1, RestingTyped, ExchangeAssumption DEF ReadBefore, XTypeOK
<1> DEFINE m == Adopted(f)
<1>6. /\ m \in Mappings /\ m.boot <= boot /\ (m # Unmapped => OwnNonce(m.nonce))
      /\ (m.health = "held" /\ m.boot = boot => nat[f] = m.nonce)
  BY <1>2, AdoptedFacts
<1> HIDE DEF m, b
<1>7. ASSUME tx'[f] = Resting, mine'[f] = m, nat'[f] = nat[f] PROVE FineAt(f)'
  <2>1. AnswerIsTrue(f)'
    BY <1>4, <1>6, <1>7, RestingTyped DEF AnswerIsTrue, OwnNonce, Operations
  <2> QED
    BY <1>4, <1>5, <1>6, <1>7, <2>1, RestingTyped DEF FineAt
<1> QED
  BY <1>1, <1>2, <1>3, <1>4, <1>6, <1>7, RestingTyped, OneForward DEF XTypeOK, m

(* The gateway serves one copy of a request.                                *)
LEMMA ServesStep ==
  ASSUME ExchangeInv, NEW f \in Forwards, NEW code \in {"success", "busy", "refused"},
         NEW lost \in BOOLEAN, Serves(f, code, lost)
  PROVE  ExchangeInv'
<1>1. XTypeOK /\ ReadBefore(baseline, uptime, boot) /\ FineAt(f) /\ tx[f] \in Transactions
      /\ mine[f] \in Mappings
  BY ExchangeByForward DEF XTypeOK
<1>2. /\ tx[f].stage # "idle" /\ tx[f].op \in Operations /\ tx[f].answer = NoAnswer
      /\ UNCHANGED <<kind, uptime, boot, baseline, mine, started>>
  BY <1>1 DEF Serves, FineAt, AnswerIsTrue
<1> DEFINE new == [code |-> code, epoch |-> uptime, boot |-> boot]
           a == IF lost THEN NoAnswer ELSE new
           t == [tx[f] EXCEPT !.asked = FALSE, !.answer = a]
           n == IF code # "success" \/ tx[f].op = "discover" THEN nat[f]
                ELSE IF tx[f].op = "delete" THEN 0 ELSE tx[f].nonce
<1>3. /\ new \in Answers /\ new.code = code /\ new.epoch = uptime /\ new.boot = boot
      /\ new # NoAnswer
  <2>1. new \in Answers /\ new.code = code /\ new.epoch = uptime /\ new.boot = boot
    BY <1>1 DEF Answers, XTypeOK
  <2>2. code # "none"
    OBVIOUS
  <2> HIDE DEF new
  <2> QED
    BY <2>1, <2>2, RestingTyped
<1>4. a \in Answers /\ ReadBefore(a, uptime, boot) /\ a \in {NoAnswer, new}
  <2>1. uptime \in Nat /\ boot \in Nat
    BY <1>1, NumbersAreNat DEF XTypeOK
  <2>2. new.epoch = uptime /\ new.boot = boot /\ NoAnswer.epoch = 0 /\ NoAnswer.boot = 0
    BY <1>3, RestingTyped
  <2> HIDE DEF new
  <2>3. ReadBefore(new, uptime, boot) /\ ReadBefore(NoAnswer, uptime, boot)
    BY SMT, <2>1, <2>2 DEF ReadBefore
  <2> QED
    BY <2>3, <1>3, RestingTyped
<1> HIDE DEF new, a
<1>5. /\ t \in Transactions /\ t.op = tx[f].op /\ t.stage = tx[f].stage /\ t.base = tx[f].base
      /\ t.nonce = tx[f].nonce /\ t.answer = a /\ t.rebooted = tx[f].rebooted /\ t.asked = FALSE
  BY <1>1, <1>4 DEF Transactions
<1>6. n \in 0..MaxExchanges
  BY SMT, <1>1, ExchangeAssumption, TransactionFields DEF XTypeOK
<1>7. tx' = [tx EXCEPT ![f] = t] /\ mine' = [mine EXCEPT ![f] = mine[f]]
  BY <1>1, <1>2 DEF Serves, XTypeOK, a, new
<1>8. nat' = [nat EXCEPT ![f] = n]
  BY <1>1, <1>2 DEF Serves, XTypeOK, Executed, Operations, NoNonce
<1>9. ASSUME tx'[f] = t, mine'[f] = mine[f], nat'[f] = n PROVE FineAt(f)'
  <2>1. tx[f].stage # "done"
    BY <1>1, <1>2, RestingTyped DEF FineAt, AnswerIsTrue
  <2>2. ~tx[f].rebooted
    BY <1>1, <2>1 DEF FineAt, AnswerIsTrue
  <2>3. /\ a.code = "success" /\ tx[f].op = "delete" => n = NoNonce
        /\ a.code = "success" /\ tx[f].op \in {"map", "renew"} => n = tx[f].nonce
    BY <1>3, <1>4, RestingTyped DEF NoNonce
  <2> HIDE DEF t, n
  <2>4. AnswerIsTrue(f)'
    BY <1>1, <1>2, <1>3, <1>4, <1>5, <1>9, <2>1, <2>2, <2>3, RestingTyped DEF FineAt, AnswerIsTrue, OwnNonce
  <2>5. mine[f].health = "held" /\ mine[f].boot = boot /\ tx[f].op # "delete" => n = mine[f].nonce
    BY <1>1, <1>2, RestingTyped DEF FineAt, AnswerIsTrue, n, Operations
  <2>6. a # NoAnswer => ReadBefore(tx[f].base, a.epoch, a.boot)
    BY <1>1, <1>3, <1>4 DEF FineAt
  <2> QED
    BY <1>1, <1>2, <1>4, <1>5, <1>9, <2>4, <2>5, <2>6 DEF FineAt
<1> HIDE DEF t, n
<1> QED
  BY <1>1, <1>2, <1>5, <1>6, <1>7, <1>8, <1>9, OneForward DEF XTypeOK

(* The gateway's clock and its reboots.                                     *)
LEMMA ClockStep ==
  ASSUME ExchangeInv, Ages \/ Reboots
  PROVE  ExchangeInv'
<1>1. XTypeOK /\ ReadBefore(baseline, uptime, boot) /\ \A f \in Forwards : FineAt(f)
  BY ExchangeByForward
<1>2. /\ UNCHANGED <<kind, baseline, tx, mine, started>> /\ uptime' \in Uptimes /\ boot' \in 0..MaxBoots
      /\ \/ boot' = boot /\ uptime' > uptime /\ nat' = nat
         \/ boot' = boot + 1 /\ nat' = [f \in Forwards |-> 0]
  BY SMT, <1>1, ExchangeAssumption DEF Ages, Reboots, XTypeOK, NoNonce
<1>3. XTypeOK'
  BY SMT, <1>1, <1>2, ExchangeAssumption DEF XTypeOK
<1>4. ASSUME NEW a, a.boot \in Nat, a.epoch \in Nat, ReadBefore(a, uptime, boot)
      PROVE  ReadBefore(a, uptime', boot') /\ (boot' # boot => a.boot # boot')
  BY SMT, <1>1, <1>2, <1>4, ExchangeAssumption DEF ReadBefore, XTypeOK
<1>5. ReadBefore(baseline', uptime', boot')
  <2>1. baseline.boot \in Nat /\ baseline.epoch \in Nat
    BY <1>1, NumbersAreNat DEF XTypeOK, Baselines
  <2> QED
    BY <1>1, <1>2, <1>4, <2>1
<1>6. ASSUME NEW f \in Forwards PROVE FineAt(f)'
  <2>1. /\ tx[f].base.boot \in Nat /\ tx[f].base.epoch \in Nat
        /\ tx[f].answer.boot \in Nat /\ tx[f].answer.epoch \in Nat /\ mine[f].boot \in Nat
    <3>1. tx[f].base \in Baselines /\ tx[f].answer \in Answers /\ mine[f] \in Mappings
      BY <1>1, TransactionFields DEF XTypeOK
    <3> QED
      BY <3>1, NumbersAreNat DEF Baselines, Answers, Mappings
  <2>2. /\ ReadBefore(tx[f].base, uptime', boot') /\ ReadBefore(tx[f].answer, uptime', boot')
        /\ (boot' # boot => tx[f].answer.boot # boot')
    BY <1>1, <1>4, <2>1 DEF FineAt
  <2>3. mine[f].boot <= boot' /\ (boot' # boot => mine[f].boot # boot')
    <3>1. mine[f].boot <= boot /\ boot \in Nat
      BY <1>1, NumbersAreNat DEF FineAt, XTypeOK
    <3>2. boot' = boot \/ boot' = boot + 1
      BY <1>2
    <3> QED
      BY SMT, <2>1, <3>1, <3>2
  <2>4. boot' # boot => nat'[f] = 0
    BY <1>2
  <2>5. boot' = boot => nat' = nat
    BY SMT, <1>1, <1>2, ExchangeAssumption DEF XTypeOK
  <2>6. AnswerIsTrue(f)'
    BY <1>1, <1>2, <2>2, <2>4, <2>5 DEF FineAt, AnswerIsTrue, OwnNonce, NoNonce
  <2> QED
    BY <1>1, <1>2, <2>2, <2>3, <2>5, <2>6 DEF FineAt
<1> QED
  BY <1>3, <1>5, <1>6, ExchangeByForwardNext

(* Every step keeps the invariant.                                          *)
LEMMA ExchangeNext == ExchangeInv /\ [XNext]_xVars => ExchangeInv'
<1> SUFFICES ASSUME ExchangeInv, [XNext]_xVars PROVE ExchangeInv'
  OBVIOUS
<1>1. CASE UNCHANGED xVars
  <2>1. XTypeOK /\ ReadBefore(baseline, uptime, boot) /\ \A f \in Forwards : FineAt(f)
    BY ExchangeByForward
  <2>2. XTypeOK' /\ ReadBefore(baseline', uptime', boot')
    BY <1>1, <2>1 DEF xVars, XTypeOK
  <2>3. \A f \in Forwards : FineAt(f)'
    BY <1>1, <2>1, OtherForward DEF xVars
  <2> QED
    BY <2>2, <2>3, ExchangeByForwardNext
<1> QED
  BY <1>1, BeginStep, ReceiveStep, RecordStep, ServesStep, ClockStep DEF XNext

(* For every number of Forwards, attempts, boots and epochs, what a mapping *)
(* exchange leaves in memory is what the gateway has.                       *)
THEOREM ExchangeSafe == XSpec => []ExchangeInv
BY ExchangeInit, ExchangeNext, PTL DEF XSpec

(* A deletion that reports success took the mapping off the gateway, and a  *)
(* mapping is reported lost to a reboot only after one (Delete, Observed).  *)
THEOREM ConclusionsHold == XSpec => ConclusionsAreTrue
<1> DEFINE Conclusion ==
      \A f \in Forwards :
        /\ mine[f] # Unmapped /\ mine'[f] = Unmapped => nat'[f] # mine[f].nonce
        /\ mine[f].health = "held" /\ mine'[f].health = "lost" => tx[f].answer.boot > tx[f].base.boot
<1>1. ExchangeInv /\ [XNext]_xVars => [Conclusion]_xVars
  <2> SUFFICES ASSUME ExchangeInv, XNext, NEW f \in Forwards, mine'[f] # mine[f]
               PROVE  /\ mine[f] # Unmapped /\ mine'[f] = Unmapped => nat'[f] # mine[f].nonce
                      /\ mine[f].health = "held" /\ mine'[f].health = "lost"
                            => tx[f].answer.boot > tx[f].base.boot
    BY RestingTyped
  <2>1. XTypeOK /\ FineAt(f) /\ tx[f] \in Transactions /\ mine[f] \in Mappings
    BY ExchangeByForward DEF XTypeOK
  <2>2. PICK g \in Forwards : (tx[g].stage = "await" /\ Fails(g)) \/ Record(g)
    <3>1. ASSUME NEW g \in Forwards, Receive(g) \/ Timeout(g) \/ Cancel(g)
          PROVE  tx[g].stage = "await" /\ Fails(g)
      <4>1. Observed(g) \/ Retry(g) \/ Fails(g)
        BY <3>1, ReceiveFacts DEF Timeout, Cancel
      <4> QED
        BY <3>1, <4>1 DEF Observed, Retry, GiveUp, Receive, Timeout, Cancel
    <3> QED
      BY <3>1 DEF XNext, Begin, PcpDiscover, PcpMap, PcpRenew, PcpDelete, NatpmpDiscover, NatpmpMap,
         NatpmpRenew, NatpmpDelete, Asks, Serves, Ages, Reboots
  <2>3. CASE tx[g].stage = "await" /\ Fails(g)
    <3>1. mine' = [mine EXCEPT ![g].health = "doubtful"]
      BY <2>3 DEF Fails
    <3>2. mine'[f].health = "doubtful"
      BY <2>1, <3>1 DEF XTypeOK, Mappings
    <3> QED
      BY <3>2, RestingTyped
  <2>4. CASE Record(g)
    <3>1. g = f /\ mine'[f] = Adopted(f) /\ nat' = nat /\ tx[f].stage = "done"
      BY <2>1, <2>4 DEF Record, XTypeOK
    <3>2. tx[f].op \in {"map", "renew", "delete"} /\ tx[f].answer.code = "success"
      BY <2>1, <3>1 DEF FineAt, AnswerIsTrue, Operations, Adopted
    <3>3. mine[f] # Unmapped => mine[f].nonce # NoNonce
      BY <2>1 DEF FineAt, AnswerIsTrue, OwnNonce
    <3>4. CASE tx[f].op = "delete"
      <4>1. mine'[f] = Unmapped /\ nat'[f] = NoNonce
        BY <2>1, <3>1, <3>2, <3>4 DEF FineAt, AnswerIsTrue, Adopted
      <4> QED
        BY <3>3, <4>1, RestingTyped
    <3>5. CASE tx[f].op = "map" \/ (tx[f].op = "renew" /\ ~tx[f].rebooted)
      <4> DEFINE r == [nonce |-> tx[f].nonce, epoch |-> tx[f].answer.epoch,
                       boot |-> tx[f].answer.boot, health |-> "held"]
      <4>1. mine'[f] = r
        BY <3>1, <3>5 DEF Adopted
      <4>2. r.health = "held"
        OBVIOUS
      <4> HIDE DEF r
      <4>3. mine'[f].health = "held"
        BY <4>1, <4>2
      <4> QED
        BY <4>3, RestingTyped
    <3>6. CASE tx[f].op = "renew" /\ tx[f].rebooted
      <4>1. mine'[f] = [mine[f] EXCEPT !.health = "lost"]
        BY <3>1, <3>6 DEF Adopted
      <4>2. mine'[f].health = "lost"
        BY <2>1, <4>1 DEF Mappings
      <4>3. RolledBack(tx[f].base, tx[f].answer.epoch) /\ ReadBefore(tx[f].base, tx[f].answer.epoch, tx[f].answer.boot)
        BY <2>1, <3>2, <3>6, RestingTyped DEF FineAt, AnswerIsTrue
      <4>4. /\ tx[f].base.boot \in Nat /\ tx[f].base.epoch \in Nat
            /\ tx[f].answer.boot \in Nat /\ tx[f].answer.epoch \in Nat
        <5>1. tx[f].base \in Baselines /\ tx[f].answer \in Answers
          BY <2>1, TransactionFields
        <5> QED
          BY <5>1, NumbersAreNat DEF Baselines, Answers
      <4>5. tx[f].answer.boot > tx[f].base.boot
        BY SMT, <4>3, <4>4 DEF RolledBack, ReadBefore, Tolerance
      <4> QED
        BY <4>2, <4>5, RestingTyped
    <3> QED
      BY <3>2, <3>4, <3>5, <3>6
  <2> QED
    BY <2>2, <2>3, <2>4
<1> QED
  BY <1>1, ExchangeSafe, PTL DEF XSpec, ConclusionsAreTrue
=============================================================================
