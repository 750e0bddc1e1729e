-------------------------- MODULE UdpStunProofs --------------------------
(***************************************************************************)
(* Theorems about the two users of UDP sockets: the sessions of a UDP      *)
(* Forward (UdpForward) and the exchanges with STUN servers (Stun); for    *)
(* every set of clients, callers and servers, and every limit.             *)
(***************************************************************************)
EXTENDS UdpForward, Stun, FiniteSetTheorems, TLAPS

USE Zenon

-----------------------------------------------------------------------------
(* UdpForward.  The counters are exact because a session is in one place   *)
(* only, in the shard of its client, with the expirer or with Close        *)
(* (OneHolderPerSession), and each step moves one session between these    *)
(* places; the five lemmas on CountsExact say what such a move does to the *)
(* counters.  Close leaves nothing behind because no session enters a      *)
(* shard it has emptied (DrainInOrder).                                    *)

UdpLoopTyped ==
    /\ ingress \in {"idle", "read", "reserve", "dial", "insert", "write", "done"}
    /\ packet \in UdpClients /\ fresh \in Sockets \cup {NoSession}
    /\ idle \subseteq Sockets
    /\ drain \subseteq UdpClients /\ expirer \in {"none", "running", "done"}
    /\ ending \in BOOLEAN /\ joined \in BOOLEAN

TablesTyped ==
    /\ shards \in [UdpClients -> Sockets \cup {NoSession}]
    /\ sock \in [Sockets -> [client : UdpClients, open : BOOLEAN, reply : {"none", "reading", "done"}]]
    /\ old \subseteq Sockets /\ taken \subseteq Sockets

CountsTyped ==
    /\ active \in Nat /\ perIP \in [Ips -> Nat]
    /\ MaxSessions > 0 => active <= MaxSessions
    /\ MaxSessionsPerIP > 0 => \A i \in Ips : perIP[i] <= MaxSessionsPerIP

OfIp(i) == {s \in Charged : sock[s].client.ip = i}

CountsExact ==
    /\ active = Cardinality(Charged) + (IF InHand THEN 1 ELSE 0)
    /\ \A i \in Ips : perIP[i] = Cardinality(OfIp(i)) + (IF InHand /\ packet.ip = i THEN 1 ELSE 0)

ReadersGone == joined => \A s \in Sockets : sock[s].reply # "reading"

(* The sockets are finitely many, and 0 is none of them.                    *)
LEMMA SocketsFinite == IsFiniteSet(Sockets) /\ NoSession \notin Sockets
<1>1. IsFiniteSet(1..MaxSockets)
  BY UdpAssumption, FS_Interval, SMT
<1>2. 0 \notin 1..MaxSockets
  BY UdpAssumption, SMT
<1> QED
  BY <1>1, <1>2 DEF Sockets, NoSession

(* An open socket is charged: it is in a shard, being closed, or in hand.   *)
LEMMA OpenIsCharged ==
  ASSUME TablesTyped, OneHolderPerSession, CountsExact
  PROVE  Cardinality({s \in Sockets : sock[s].open}) <= active
<1> DEFINE O == {s \in Sockets : sock[s].open}
<1>1. Charged \subseteq Sockets /\ IsFiniteSet(Charged) /\ Cardinality(Charged) \in Nat
  <2>1. Charged \subseteq Sockets
    BY DEF Charged, InMap, TablesTyped
  <2> QED
    BY <2>1, SocketsFinite, FS_Subset, FS_CardinalityType
<1>2. CASE ingress = "insert"
  <2>1. O \subseteq Charged \cup {fresh}
    BY DEF OneHolderPerSession
  <2>2. IsFiniteSet(Charged \cup {fresh})
        /\ Cardinality(Charged \cup {fresh}) \in {Cardinality(Charged), Cardinality(Charged) + 1}
    <3>1. CASE fresh \in Charged
      <4>1. Charged \cup {fresh} = Charged
        BY <3>1
      <4> QED
        BY <1>1, <4>1
    <3>2. CASE fresh \notin Charged
      BY <1>1, <3>2, FS_AddElement
    <3> QED
      BY <3>1, <3>2
  <2>3. IsFiniteSet(O) /\ Cardinality(O) <= Cardinality(Charged \cup {fresh})
        /\ Cardinality(O) \in Nat
    BY <2>1, <2>2, FS_Subset, FS_CardinalityType
  <2>4. active = Cardinality(Charged) + 1
    BY <1>2 DEF CountsExact, InHand
  <2> QED
    BY SMT, <1>1, <2>2, <2>3, <2>4
<1>3. CASE ingress # "insert"
  <2>1. O \subseteq Charged
    BY <1>3 DEF OneHolderPerSession
  <2>2. IsFiniteSet(O) /\ Cardinality(O) <= Cardinality(Charged) /\ Cardinality(O) \in Nat
    BY <1>1, <2>1, FS_Subset, FS_CardinalityType
  <2>3. active \in {Cardinality(Charged), Cardinality(Charged) + 1}
    BY SMT, <1>1 DEF CountsExact
  <2> QED
    BY SMT, <1>1, <2>2, <2>3
<1> QED
  BY <1>2, <1>3

(* The invariant from its parts, before and after a step.                   *)
LEMMA UdpWhole ==
  (UdpLoopTyped /\ TablesTyped /\ CountsTyped /\ CountsExact /\ ReadersGone
   /\ OneHolderPerSession /\ DrainInOrder => UdpInv)'
<1>1. UdpLoopTyped /\ TablesTyped /\ CountsTyped /\ CountsExact /\ ReadersGone
      /\ OneHolderPerSession /\ DrainInOrder => UdpInv
  <2> SUFFICES ASSUME UdpLoopTyped, TablesTyped, CountsTyped, CountsExact, ReadersGone,
                      OneHolderPerSession, DrainInOrder
               PROVE  UdpInv
    OBVIOUS
  <2>1. UdpTypeOK
    BY SMT DEF UdpTypeOK, UdpLoopTyped, TablesTyped, CountsTyped
  <2>2. CountersAreExact
    BY OpenIsCharged DEF CountersAreExact, CountsExact, OfIp
  <2>3. UdpClosedIsDrained
    BY DEF UdpClosedIsDrained, ReadersGone, DrainInOrder, OneHolderPerSession, Charged
  <2> QED
    BY <2>1, <2>2, <2>3 DEF UdpInv
<1> QED
  BY <1>1, PTL

(* ... and the parts from the invariant.                                    *)
LEMMA UdpParts ==
  ASSUME UdpInv
  PROVE  /\ UdpLoopTyped /\ TablesTyped /\ CountsTyped /\ CountsExact /\ ReadersGone
         /\ OneHolderPerSession /\ DrainInOrder
<1>1. UdpLoopTyped /\ TablesTyped /\ CountsTyped
  BY SMT DEF UdpInv, UdpTypeOK, UdpLoopTyped, TablesTyped, CountsTyped
<1>2. CountsExact
  BY DEF UdpInv, CountersAreExact, CountsExact, OfIp
<1>3. ReadersGone
  BY DEF UdpInv, UdpClosedIsDrained, ReadersGone
<1> QED
  BY <1>1, <1>2, <1>3 DEF UdpInv

(* A session is in its shard when the shard of its client holds it.         *)
LEMMA InShard ==
  ASSUME TablesTyped, OneHolderPerSession, NEW s \in Sockets
  PROVE  s \in InMap <=> shards[sock[s].client] = s
<1>1. s # NoSession
  BY SocketsFinite
<1>2. sock[s].client \in UdpClients
  BY DEF TablesTyped
<1> QED
  BY <1>1, <1>2 DEF InMap, OneHolderPerSession

(* The charged sessions and those of one address are finite sets.           *)
LEMMA ChargedFinite ==
  ASSUME TablesTyped
  PROVE  /\ Charged \subseteq Sockets /\ IsFiniteSet(Charged) /\ Cardinality(Charged) \in Nat
         /\ \A i \in Ips : IsFiniteSet(OfIp(i)) /\ Cardinality(OfIp(i)) \in Nat
<1>1. Charged \subseteq Sockets
  BY DEF Charged, InMap, TablesTyped
<1>2. \A i \in Ips : OfIp(i) \subseteq Sockets
  BY <1>1 DEF OfIp
<1> QED
  BY <1>1, <1>2, SocketsFinite, FS_Subset, FS_CardinalityType
-----------------------------------------------------------------------------
(* A step that moves no charge keeps the counters exact.                    *)
LEMMA CountsSame ==
  ASSUME CountsTyped, CountsExact, Charged' = Charged, UNCHANGED <<active, perIP>>,
         \A s \in Charged : sock'[s].client = sock[s].client,
         InHand' <=> InHand, InHand => packet' = packet
  PROVE  CountsTyped' /\ CountsExact'
<1>1. CountsTyped'
  BY DEF CountsTyped
<1>2. \A i \in Ips : OfIp(i)' = OfIp(i)
  BY DEF OfIp
<1>3. active' = Cardinality(Charged') + (IF InHand' THEN 1 ELSE 0)
  BY DEF CountsExact
<1>4. \A i \in Ips : perIP'[i] = Cardinality(OfIp(i)') + (IF InHand' /\ packet'.ip = i THEN 1 ELSE 0)
  BY <1>2 DEF CountsExact
<1> QED
  BY <1>1, <1>3, <1>4 DEF CountsExact

(* reserve: the charge of the datagram in hand, within every limit.         *)
LEMMA CountsReserve ==
  ASSUME UdpLoopTyped, TablesTyped, CountsTyped, CountsExact, Charged' = Charged,
         ReserveCounts(packet.ip),
         UNCHANGED <<sock, packet>>, ~InHand, InHand',
         ~(MaxSessions > 0 /\ active >= MaxSessions),
         ~(MaxSessionsPerIP > 0 /\ perIP[packet.ip] >= MaxSessionsPerIP)
  PROVE  CountsTyped' /\ CountsExact'
<1>1. packet.ip \in Ips
  BY DEF UdpLoopTyped, Ips
<1>2. PICK a \in Ips : a = packet.ip
  BY <1>1
<1>3. active' = active + 1 /\ perIP' = [perIP EXCEPT ![a] = perIP[a] + 1] /\ active \in Nat
      /\ perIP \in [Ips -> Nat] /\ packet'.ip = a
  BY <1>2 DEF ReserveCounts, CountsTyped
<1>4. perIP'[a] = perIP[a] + 1 /\ \A i \in Ips : i # a => perIP'[i] = perIP[i]
  BY <1>3
<1>5. active' \in Nat /\ perIP' \in [Ips -> Nat]
  <2>1. active + 1 \in Nat /\ perIP[a] + 1 \in Nat
    BY SMT, <1>3
  <2> QED
    BY <1>3, <2>1
<1>6. CountsTyped'
  <2>1. MaxSessions > 0 => active' <= MaxSessions
    BY SMT, <1>3, UdpAssumption
  <2>2. ASSUME MaxSessionsPerIP > 0, NEW i \in Ips PROVE perIP'[i] <= MaxSessionsPerIP
    <3>1. CASE i = a
      <4>1. ~(perIP[a] >= MaxSessionsPerIP) /\ perIP[a] \in Nat
        BY <1>2, <1>3, <2>2
      <4> QED
        BY SMT, <1>4, <3>1, <4>1, UdpAssumption
    <3>2. CASE i # a
      BY <1>4, <2>2, <3>2 DEF CountsTyped
    <3> QED
      BY <3>1, <3>2
  <2> QED
    BY <1>5, <2>1, <2>2 DEF CountsTyped
<1>7. \A i \in Ips : OfIp(i)' = OfIp(i)
  BY DEF OfIp
<1>8. active' = Cardinality(Charged') + (IF InHand' THEN 1 ELSE 0)
  <2>1. active = Cardinality(Charged) + 0
    BY DEF CountsExact
  <2> QED
    BY SMT, <1>3, <2>1, ChargedFinite
<1>9. ASSUME NEW i \in Ips
      PROVE  perIP'[i] = Cardinality(OfIp(i)') + (IF InHand' /\ packet'.ip = i THEN 1 ELSE 0)
  <2>1. perIP[i] = Cardinality(OfIp(i)) + 0 /\ Cardinality(OfIp(i)) \in Nat
    BY ChargedFinite DEF CountsExact
  <2>2. perIP[i] = Cardinality(OfIp(i))
    BY SMT, <2>1
  <2>3. CASE i = a
    BY <1>3, <1>4, <1>7, <2>2, <2>3
  <2>4. CASE i # a
    BY <1>3, <1>4, <1>7, <2>1, <2>4
  <2> QED
    BY <2>3, <2>4
<1> QED
  BY <1>6, <1>8, <1>9 DEF CountsExact

(* release: a charge goes back once, and the counters only fall.            *)
LEMMA CountsFall ==
  ASSUME CountsTyped, NEW a \in Ips, ReleaseCounts(a), active > 0, perIP[a] > 0
  PROVE  /\ CountsTyped' /\ active' = active - 1 /\ perIP'[a] = perIP[a] - 1
         /\ \A i \in Ips : i # a => perIP'[i] = perIP[i]
<1>1. active' = active - 1 /\ perIP' = [perIP EXCEPT ![a] = perIP[a] - 1] /\ active \in Nat
      /\ perIP \in [Ips -> Nat]
  BY DEF ReleaseCounts, CountsTyped
<1>2. perIP'[a] = perIP[a] - 1 /\ \A i \in Ips : i # a => perIP'[i] = perIP[i]
  BY <1>1
<1>3. active' \in Nat /\ perIP' \in [Ips -> Nat]
  <2>1. active - 1 \in Nat /\ perIP[a] - 1 \in Nat
    BY SMT, <1>1
  <2> QED
    BY <1>1, <2>1
<1>4. MaxSessions > 0 => active' <= MaxSessions
  BY SMT, <1>1, UdpAssumption DEF CountsTyped
<1>5. ASSUME MaxSessionsPerIP > 0, NEW i \in Ips PROVE perIP'[i] <= MaxSessionsPerIP
  <2>1. perIP[i] <= MaxSessionsPerIP /\ perIP[i] \in Nat
    BY <1>1, <1>5 DEF CountsTyped
  <2>2. CASE i = a
    BY SMT, <1>2, <2>1, <2>2, UdpAssumption
  <2>3. CASE i # a
    BY <1>2, <2>1, <2>3
  <2> QED
    BY <2>2, <2>3
<1> QED
  BY <1>1, <1>2, <1>3, <1>4, <1>5 DEF CountsTyped

(* A charge is given back before the session reached a shard.               *)
LEMMA CountsGiveUp ==
  ASSUME UdpLoopTyped, TablesTyped, CountsTyped, CountsExact, Charged' = Charged,
         ReleaseCounts(packet.ip),
         \A s \in Charged : sock'[s].client = sock[s].client, InHand, ~InHand'
  PROVE  CountsTyped' /\ CountsExact'
<1>1. PICK a \in Ips : a = packet.ip
  BY DEF UdpLoopTyped, Ips
<1>2. \A i \in Ips : OfIp(i)' = OfIp(i)
  BY DEF OfIp
<1>3. active = Cardinality(Charged) + 1 /\ Cardinality(Charged) \in Nat
      /\ perIP[a] = Cardinality(OfIp(a)) + 1 /\ Cardinality(OfIp(a)) \in Nat
  BY <1>1, ChargedFinite DEF CountsExact
<1>4. active > 0 /\ perIP[a] > 0 /\ active - 1 = Cardinality(Charged) + 0
      /\ perIP[a] - 1 = Cardinality(OfIp(a)) + 0
  BY SMT, <1>3
<1>5. /\ CountsTyped' /\ active' = active - 1 /\ perIP'[a] = perIP[a] - 1
      /\ \A i \in Ips : i # a => perIP'[i] = perIP[i]
  BY <1>1, <1>4, CountsFall
<1>6. active' = Cardinality(Charged') + (IF InHand' THEN 1 ELSE 0)
  BY <1>4, <1>5
<1>7. ASSUME NEW i \in Ips
      PROVE  perIP'[i] = Cardinality(OfIp(i)') + (IF InHand' /\ packet'.ip = i THEN 1 ELSE 0)
  <2>1. CASE i = a
    BY <1>2, <1>4, <1>5, <2>1
  <2>2. CASE i # a
    <3>1. perIP[i] = Cardinality(OfIp(i)) + 0
      BY <1>1, <2>2 DEF CountsExact
    <3> QED
      BY <1>2, <1>5, <2>2, <3>1
  <2> QED
    BY <2>1, <2>2
<1> QED
  BY <1>5, <1>6, <1>7 DEF CountsExact

(* A candidate that is published carries its charge into the shard.         *)
LEMMA CountsPublish ==
  ASSUME UdpLoopTyped, TablesTyped, CountsTyped, CountsExact, UNCHANGED <<active, perIP>>,
         NEW f \in Sockets, f \notin Charged, Charged' = Charged \cup {f},
         sock'[f].client = packet,
         \A s \in Charged : sock'[s].client = sock[s].client, InHand, ~InHand'
  PROVE  CountsTyped' /\ CountsExact'
<1>1. PICK a \in Ips : a = packet.ip
  BY DEF UdpLoopTyped, Ips
<1>2. CountsTyped'
  BY DEF CountsTyped
<1>3. active' = Cardinality(Charged') + (IF InHand' THEN 1 ELSE 0)
  <2>1. active = Cardinality(Charged) + 1 /\ Cardinality(Charged) \in Nat
    BY ChargedFinite DEF CountsExact
  <2>2. Cardinality(Charged') = Cardinality(Charged) + 1
    BY ChargedFinite, FS_AddElement
  <2>3. active' = Cardinality(Charged') + 0
    BY SMT, <2>1, <2>2
  <2> QED
    BY <2>3
<1>4. ASSUME NEW i \in Ips
      PROVE  perIP'[i] = Cardinality(OfIp(i)') + (IF InHand' /\ packet'.ip = i THEN 1 ELSE 0)
  <2>1. IsFiniteSet(OfIp(i)) /\ Cardinality(OfIp(i)) \in Nat /\ f \notin OfIp(i)
    BY ChargedFinite DEF OfIp
  <2>2. CASE i = a
    <3>1. OfIp(i)' = OfIp(i) \cup {f}
      BY <1>1, <2>2 DEF OfIp
    <3>2. Cardinality(OfIp(i)') = Cardinality(OfIp(i)) + 1
      BY <2>1, <3>1, FS_AddElement
    <3>3. perIP[i] = Cardinality(OfIp(i)) + 1
      BY <1>1, <2>2 DEF CountsExact
    <3>4. perIP'[i] = Cardinality(OfIp(i)') + 0
      BY SMT, <2>1, <3>2, <3>3
    <3> QED
      BY <3>4
  <2>3. CASE i # a
    <3>1. OfIp(i)' = OfIp(i)
      BY <1>1, <2>3 DEF OfIp
    <3>2. perIP[i] = Cardinality(OfIp(i)) + 0
      BY <1>1, <2>3 DEF CountsExact
    <3> QED
      BY <3>1, <3>2
  <2> QED
    BY <2>2, <2>3
<1> QED
  BY <1>2, <1>3, <1>4 DEF CountsExact

(* Whoever took a session out returns its charge, once.                     *)
LEMMA CountsRemove ==
  ASSUME UdpLoopTyped, TablesTyped, CountsTyped, CountsExact,
         NEW f \in Charged, Charged' = Charged \ {f}, ReleaseCounts(sock[f].client.ip),
         \A s \in Charged : sock'[s].client = sock[s].client,
         InHand' <=> InHand, InHand => packet' = packet
  PROVE  CountsTyped' /\ CountsExact'
<1>1. PICK a \in Ips : a = sock[f].client.ip
  BY ChargedFinite DEF TablesTyped, Ips
<1>2. f \in OfIp(a) /\ IsFiniteSet(OfIp(a)) /\ IsFiniteSet(Charged) /\ Cardinality(OfIp(a)) \in Nat
      /\ Cardinality(Charged) \in Nat
  BY <1>1, ChargedFinite DEF OfIp
<1>3. /\ Cardinality(Charged \ {f}) = Cardinality(Charged) - 1 /\ Cardinality(Charged \ {f}) \in Nat
      /\ Cardinality(OfIp(a) \ {f}) = Cardinality(OfIp(a)) - 1 /\ Cardinality(OfIp(a) \ {f}) \in Nat
  BY <1>2, FS_RemoveElement, FS_CardinalityType
<1>4. /\ active \in {Cardinality(Charged), Cardinality(Charged) + 1}
      /\ perIP[a] \in {Cardinality(OfIp(a)), Cardinality(OfIp(a)) + 1}
  <2>1. active = Cardinality(Charged) + (IF InHand THEN 1 ELSE 0)
        /\ perIP[a] = Cardinality(OfIp(a)) + (IF InHand /\ packet.ip = a THEN 1 ELSE 0)
    BY DEF CountsExact
  <2> QED
    BY SMT, <1>2, <2>1
<1>5. active > 0 /\ perIP[a] > 0
  BY SMT, <1>2, <1>3, <1>4
<1>6. /\ CountsTyped' /\ active' = active - 1 /\ perIP'[a] = perIP[a] - 1
      /\ \A i \in Ips : i # a => perIP'[i] = perIP[i]
  BY <1>1, <1>5, CountsFall
<1>7. active' = Cardinality(Charged') + (IF InHand' THEN 1 ELSE 0)
  <2>1. active = Cardinality(Charged) + (IF InHand' THEN 1 ELSE 0)
    BY DEF CountsExact
  <2>2. Cardinality(Charged') = Cardinality(Charged) - 1
    BY <1>3
  <2> QED
    BY SMT, <1>2, <1>6, <2>1, <2>2
<1>8. ASSUME NEW i \in Ips
      PROVE  perIP'[i] = Cardinality(OfIp(i)') + (IF InHand' /\ packet'.ip = i THEN 1 ELSE 0)
  <2>1. perIP[i] = Cardinality(OfIp(i)) + (IF InHand' /\ packet'.ip = i THEN 1 ELSE 0)
    BY DEF CountsExact
  <2>2. CASE i = a
    <3>1. OfIp(i)' = OfIp(i) \ {f}
      BY <1>1, <2>2 DEF OfIp
    <3>2. Cardinality(OfIp(i)') = Cardinality(OfIp(i)) - 1 /\ Cardinality(OfIp(i)) \in Nat
          /\ perIP'[i] = perIP[i] - 1
      BY <1>2, <1>3, <1>6, <2>2, <3>1
    <3> QED
      BY SMT, <2>1, <3>2
  <2>3. CASE i # a
    <3>1. OfIp(i)' = OfIp(i)
      BY <1>1, <2>3 DEF OfIp
    <3> QED
      BY <1>6, <2>1, <2>3, <3>1
  <2> QED
    BY <2>2, <2>3
<1> QED
  BY <1>6, <1>7, <1>8 DEF CountsExact
-----------------------------------------------------------------------------
(* The ingress loop reads, or gives a datagram up, without a charge.        *)
LEMMA UdpIdleStep ==
  ASSUME UdpInv,
         \/ UdpRunStarts \/ UdpRunEnds \/ (\E c \in UdpClients : Datagram(c))
         \/ (\E s \in Sockets : ReplyPasses(s) \/ GoesIdle(s)) \/ ExpirerExits \/ UdpClose \/ UdpJoin
         \/ UNCHANGED udpVars
  PROVE  UdpInv'
<1>1. /\ UdpLoopTyped /\ TablesTyped /\ CountsTyped /\ CountsExact /\ ReadersGone
      /\ OneHolderPerSession /\ DrainInOrder
  BY UdpParts
<1>2. UNCHANGED <<shards, sock, old, taken, active, perIP, fresh>>
  BY DEF UdpRunStarts, UdpRunEnds, Datagram, ReplyPasses, GoesIdle, ExpirerExits, UdpClose, UdpJoin,
         udpVars, Counters, Teardown
<1>3. /\ \/ ingress' = ingress
         \/ ingress \in {"idle", "read"} /\ ingress' \in {"read", "reserve", "done"}
      /\ \/ packet' = packet
         \/ ingress = "read" /\ packet' \in UdpClients
      /\ ingress' = "reserve" => (ingress = "reserve" /\ packet' = packet) \/ shards[packet'] = NoSession
  BY DEF UdpRunStarts, UdpRunEnds, Datagram, ReplyPasses, GoesIdle, ExpirerExits, UdpClose, UdpJoin,
         udpVars, Counters, Teardown
<1>4. idle' \subseteq Sockets
  <2>1. idle' \subseteq idle \cup Sockets
    BY <1>1 DEF UdpRunStarts, UdpRunEnds, Datagram, ReplyPasses, GoesIdle, ExpirerExits, UdpClose,
         UdpJoin, udpVars
  <2> QED
    BY <1>1, <2>1 DEF UdpLoopTyped
<1>5. /\ drain' \in {drain, UdpClients} /\ (drain' # drain => ~ending)
      /\ (ending => ending') /\ (ending' /\ ~ending => drain' = UdpClients)
      /\ joined' /\ ~joined =>
            /\ ending /\ drain = {} /\ taken = {} /\ expirer # "running"
            /\ drain' = drain /\ \A s \in Sockets : sock[s].reply # "reading"
      /\ expirer' \in {expirer, "running", "done"} /\ (old # {} /\ expirer = "running" => expirer' = "running")
  <2>1. CASE UdpClose
    BY <2>1 DEF UdpClose
  <2>2. CASE UdpJoin
    BY <2>2 DEF UdpJoin
  <2>3. CASE UdpRunStarts
    BY <2>3 DEF UdpRunStarts
  <2>4. CASE ExpirerExits
    BY <2>4 DEF ExpirerExits
  <2>5. CASE UNCHANGED Teardown
    BY <2>5 DEF Teardown
  <2> QED
    BY <2>1, <2>2, <2>3, <2>4, <2>5 DEF UdpRunEnds, Datagram, ReplyPasses, GoesIdle, udpVars, Teardown
<1>6. UdpLoopTyped' /\ TablesTyped'
  <2>1. TablesTyped'
    BY <1>1, <1>2 DEF TablesTyped
  <2>2. UdpLoopTyped'
    <3>1. ending' \in BOOLEAN /\ joined' \in BOOLEAN
      BY <1>1 DEF UdpRunStarts, UdpRunEnds, Datagram, ReplyPasses, GoesIdle, ExpirerExits, UdpClose,
         UdpJoin, udpVars, Teardown, UdpLoopTyped
    <3>2. drain' \subseteq UdpClients /\ expirer' \in {"none", "running", "done"}
      BY <1>1, <1>5 DEF UdpLoopTyped
    <3>3. /\ ingress' \in {"idle", "read", "reserve", "dial", "insert", "write", "done"}
          /\ packet' \in UdpClients /\ fresh' \in Sockets \cup {NoSession}
      BY <1>1, <1>2, <1>3 DEF UdpLoopTyped
    <3> QED
      BY <1>4, <3>1, <3>2, <3>3 DEF UdpLoopTyped
  <2> QED
    BY <2>1, <2>2
<1>7. InMap' = InMap /\ Charged' = Charged
  BY <1>2 DEF InMap, Charged
<1>8. CountsTyped' /\ CountsExact'
  <2>1. (InHand' <=> InHand) /\ (InHand => packet' = packet)
    BY <1>3 DEF InHand
  <2> QED
    BY <1>1, <1>2, <1>7, <2>1, CountsSame
<1>9. ReadersGone'
  BY <1>1, <1>2, <1>5 DEF ReadersGone
<1>10. OneHolderPerSession'
  BY <1>1, <1>2, <1>3, <1>7 DEF OneHolderPerSession
<1>11. DrainInOrder'
  <2>1. ending' => \A c \in UdpClients \ drain' : shards[c] = NoSession
    BY <1>1, <1>5 DEF DrainInOrder
  <2>2. old # {} => expirer' = "running"
    BY <1>1, <1>5 DEF DrainInOrder
  <2>3. joined' => ending' /\ drain' = {} /\ Charged = {}
    <3>1. CASE joined
      BY <1>1, <1>5, <3>1 DEF DrainInOrder
    <3>2. CASE joined' /\ ~joined
      <4>1. InMap = {}
        BY <1>1, <1>5, <3>2, SocketsFinite DEF InMap, DrainInOrder
      <4>2. old = {}
        BY <1>1, <1>5, <3>2 DEF DrainInOrder
      <4> QED
        BY <1>5, <3>2, <4>1, <4>2 DEF Charged
    <3> QED
      BY <3>1, <3>2
  <2> QED
    BY <1>2, <1>7, <2>1, <2>2, <2>3 DEF DrainInOrder
<1> QED
  BY <1>6, <1>8, <1>9, <1>10, <1>11, UdpWhole

(* reserve charges the datagram in hand; a failed dial gives it back.       *)
LEMMA UdpReserveStep ==
  ASSUME UdpInv, UdpReserve \/ UdpDialFails
  PROVE  UdpInv'
<1>1. /\ UdpLoopTyped /\ TablesTyped /\ CountsTyped /\ CountsExact /\ ReadersGone
      /\ OneHolderPerSession /\ DrainInOrder
  BY UdpParts
<1>2. /\ UNCHANGED <<packet, fresh, shards, sock, idle>> /\ UNCHANGED Teardown
      /\ ingress \in {"reserve", "dial"} /\ ingress' \in {"read", "dial"}
  BY DEF UdpReserve, UdpDialFails
<1>3. InMap' = InMap /\ Charged' = Charged
  BY <1>2 DEF InMap, Charged, Teardown
<1>4. UdpLoopTyped' /\ TablesTyped'
  <2>1. TablesTyped'
    BY <1>1, <1>2 DEF TablesTyped, Teardown
  <2>2. UdpLoopTyped'
    BY SMT, <1>1, <1>2 DEF UdpLoopTyped, Teardown
  <2> QED
    BY <2>1, <2>2
<1>5. CountsTyped' /\ CountsExact'
  <2>1. CASE UdpDialFails
    <3>1. InHand /\ ~InHand' /\ ReleaseCounts(packet.ip)
      BY <2>1 DEF InHand, UdpDialFails
    <3> QED
      BY <1>1, <1>2, <1>3, <3>1, CountsGiveUp
  <2>2. CASE UdpReserve /\ ingress' = "read"
    <3>1. UNCHANGED <<active, perIP>> /\ ~InHand /\ ~InHand'
      BY <2>2 DEF UdpReserve, Counters, InHand
    <3> QED
      BY <1>1, <1>2, <1>3, <3>1, CountsSame
  <2>3. CASE UdpReserve /\ ingress' # "read"
    <3>1. /\ ~InHand /\ InHand' /\ ReserveCounts(packet.ip)
          /\ ~(MaxSessions > 0 /\ active >= MaxSessions)
          /\ ~(MaxSessionsPerIP > 0 /\ perIP[packet.ip] >= MaxSessionsPerIP)
      BY <2>3 DEF UdpReserve, InHand
    <3> QED
      BY <1>1, <1>2, <1>3, <3>1, CountsReserve
  <2> QED
    BY <2>1, <2>2, <2>3
<1>6. ReadersGone' /\ DrainInOrder'
  BY <1>1, <1>2, <1>3 DEF ReadersGone, DrainInOrder, Teardown
<1>7. OneHolderPerSession'
  BY <1>1, <1>2, <1>3 DEF OneHolderPerSession, Teardown
<1> QED
  BY <1>4, <1>5, <1>6, <1>7, UdpWhole

(* A socket that was never used is in no shard and in no hand.              *)
LEMMA UdpDialsStep ==
  ASSUME UdpInv, UdpDials
  PROVE  UdpInv'
<1>1. /\ UdpLoopTyped /\ TablesTyped /\ CountsTyped /\ CountsExact /\ ReadersGone
      /\ OneHolderPerSession /\ DrainInOrder
  BY UdpParts
<1>2. PICK f \in Sockets :
        /\ sock[f] = Unused /\ fresh' = f
        /\ sock' = [sock EXCEPT ![f] = [client |-> packet, open |-> TRUE, reply |-> "none"]]
  BY DEF UdpDials
<1>3. /\ ingress = "dial" /\ ingress' = "insert"
      /\ UNCHANGED <<packet, shards, idle, active, perIP>> /\ UNCHANGED Teardown
  BY DEF UdpDials, Counters
<1> DEFINE r == [client |-> packet, open |-> TRUE, reply |-> "none"]
<1>4. /\ r \in [client : UdpClients, open : BOOLEAN, reply : {"none", "reading", "done"}]
      /\ r.client = packet /\ r.open /\ r.reply = "none"
  BY <1>1 DEF UdpLoopTyped
<1>5. sock' = [sock EXCEPT ![f] = r]
  BY <1>2
<1> HIDE DEF r
<1>6. sock'[f] = r /\ \A s \in Sockets : s # f => sock'[s] = sock[s]
  BY <1>1, <1>5 DEF TablesTyped
<1>7. f \notin Charged
  <2>1. Unused.reply = "none"
    BY DEF Unused
  <2> QED
    BY <1>1, <1>2, <2>1 DEF OneHolderPerSession
<1>8. Charged \subseteq Sockets
  BY <1>1, ChargedFinite
<1>9. InMap' = InMap /\ Charged' = Charged
  BY <1>3 DEF InMap, Charged, Teardown
<1>10. \A s \in Charged : sock'[s] = sock[s]
  BY <1>6, <1>7, <1>8
<1>11. UdpLoopTyped' /\ TablesTyped'
  <2>1. TablesTyped'
    BY <1>1, <1>3, <1>4, <1>5 DEF TablesTyped, Teardown
  <2>2. UdpLoopTyped'
    BY SMT, <1>1, <1>2, <1>3 DEF UdpLoopTyped, Teardown
  <2> QED
    BY <2>1, <2>2
<1>12. CountsTyped' /\ CountsExact'
  <2>1. (InHand' <=> InHand) /\ (InHand => packet' = packet)
    BY <1>3 DEF InHand
  <2> QED
    BY <1>1, <1>3, <1>9, <1>10, <2>1, CountsSame
<1>13. ReadersGone'
  BY <1>1, <1>3, <1>4, <1>6 DEF ReadersGone, Teardown
<1>14. DrainInOrder'
  BY <1>1, <1>3, <1>9 DEF DrainInOrder, Teardown
<1>15. OneHolderPerSession'
  <2>1. ASSUME NEW c \in UdpClients, shards[c] # NoSession PROVE sock'[shards[c]].client = c
    <3>1. shards[c] \in Charged
      BY <1>1, <2>1 DEF Charged, InMap, TablesTyped
    <3> QED
      BY <1>1, <1>10, <2>1, <3>1 DEF OneHolderPerSession
  <2>2. \A s \in Charged : sock'[s].reply # "none"
    BY <1>1, <1>10 DEF OneHolderPerSession
  <2>3. \A s \in Sockets : sock'[s].open => s \in Charged \/ s = f
    BY <1>1, <1>3, <1>6 DEF OneHolderPerSession
  <2>4. old' = old /\ taken' = taken
    BY <1>3 DEF Teardown
  <2>5. InMap \cap (old \cup taken) = {} /\ old \cap taken = {} /\ shards[packet] = NoSession
    BY <1>1, <1>3 DEF OneHolderPerSession
  <2>6. sock'[f].client = packet /\ sock'[f].reply = "none"
    BY <1>4, <1>6
  <2> QED
    BY <1>2, <1>3, <1>9, <2>1, <2>2, <2>3, <2>4, <2>5, <2>6 DEF OneHolderPerSession
<1> QED
  BY <1>11, <1>12, <1>13, <1>14, <1>15, UdpWhole

(* The candidate enters its shard, unless Close came first: the two read    *)
(* and write the closed flag and the shard under the same lock.             *)
LEMMA InsertStep ==
  ASSUME UdpInv, Insert
  PROVE  UdpInv'
<1>1. /\ UdpLoopTyped /\ TablesTyped /\ CountsTyped /\ CountsExact /\ ReadersGone
      /\ OneHolderPerSession /\ DrainInOrder
  BY UdpParts
<1>2. ingress = "insert" /\ UNCHANGED <<packet, idle>> /\ UNCHANGED Teardown
  BY DEF Insert
<1>3. PICK f \in Sockets : f = fresh
  BY <1>1, <1>2 DEF OneHolderPerSession
<1>4. sock[f].client = packet /\ sock[f].reply = "none" /\ shards[packet] = NoSession
  BY <1>1, <1>2, <1>3 DEF OneHolderPerSession
<1>5. f \notin Charged
  BY <1>1, <1>4 DEF OneHolderPerSession
<1>6. Charged \subseteq Sockets
  BY <1>1, ChargedFinite
<1>7. sock[f] \in [client : UdpClients, open : BOOLEAN, reply : {"none", "reading", "done"}]
  BY <1>1 DEF TablesTyped
<1>8. old' = old /\ taken' = taken
  BY <1>2 DEF Teardown
<1>9. CASE ending
  <2> DEFINE r == [sock[f] EXCEPT !.open = FALSE, !.reply = "done"]
  <2>1. /\ ReleaseCounts(packet.ip) /\ ingress' = "read" /\ fresh' = NoSession /\ shards' = shards
    BY <1>9 DEF Insert
  <2>2. sock' = [sock EXCEPT ![f] = r]
    BY <1>1, <1>3, <1>9 DEF Insert, TablesTyped
  <2>3. /\ r \in [client : UdpClients, open : BOOLEAN, reply : {"none", "reading", "done"}]
        /\ r.client = packet /\ ~r.open /\ r.reply = "done"
    BY <1>4, <1>7
  <2> HIDE DEF r
  <2>4. sock'[f] = r /\ \A s \in Sockets : s # f => sock'[s] = sock[s]
    BY <1>1, <2>2 DEF TablesTyped
  <2>5. InMap' = InMap /\ Charged' = Charged
    BY <1>8, <2>1 DEF InMap, Charged
  <2>6. \A s \in Charged : sock'[s] = sock[s]
    BY <1>5, <1>6, <2>4
  <2>7. TablesTyped'
    BY <1>1, <1>8, <2>1, <2>2, <2>3 DEF TablesTyped
  <2>8. UdpLoopTyped'
    BY SMT, <1>1, <1>2, <2>1 DEF UdpLoopTyped, Teardown
  <2>9. CountsTyped' /\ CountsExact'
    <3>1. InHand /\ ~InHand'
      BY <1>2, <2>1 DEF InHand
    <3> QED
      BY <1>1, <2>1, <2>5, <2>6, <3>1, CountsGiveUp
  <2>10. ReadersGone' /\ DrainInOrder'
    BY <1>1, <1>2, <2>1, <2>3, <2>4, <2>5 DEF ReadersGone, DrainInOrder, Teardown
  <2>11. OneHolderPerSession'
    <3>1. ASSUME NEW c \in UdpClients, shards[c] # NoSession PROVE sock'[shards[c]].client = c
      <4>1. shards[c] \in Charged
        BY <1>1, <3>1 DEF Charged, InMap, TablesTyped
      <4> QED
        BY <1>1, <2>6, <3>1, <4>1 DEF OneHolderPerSession
    <3>2. \A s \in Charged : sock'[s].reply # "none"
      BY <1>1, <2>6 DEF OneHolderPerSession
    <3>3. \A s \in Sockets : sock'[s].open => s \in Charged
      BY <1>1, <1>3, <2>3, <2>4 DEF OneHolderPerSession
    <3>4. InMap \cap (old \cup taken) = {} /\ old \cap taken = {}
      BY <1>1 DEF OneHolderPerSession
    <3> QED
      BY <1>8, <2>1, <2>5, <3>1, <3>2, <3>3, <3>4 DEF OneHolderPerSession
  <2> QED
    BY <2>7, <2>8, <2>9, <2>10, <2>11, UdpWhole
<1>10. CASE ~ending
  <2> DEFINE r == [sock[f] EXCEPT !.reply = "reading"]
  <2>1. /\ UNCHANGED <<active, perIP, fresh>> /\ ingress' = "write"
        /\ shards' = [shards EXCEPT ![packet] = f]
    BY <1>3, <1>10 DEF Insert
  <2>2. sock' = [sock EXCEPT ![f] = r]
    BY <1>1, <1>3, <1>10 DEF Insert, TablesTyped
  <2>3. /\ r \in [client : UdpClients, open : BOOLEAN, reply : {"none", "reading", "done"}]
        /\ r.client = packet /\ r.reply = "reading"
    BY <1>4, <1>7
  <2> HIDE DEF r
  <2>4. sock'[f] = r /\ \A s \in Sockets : s # f => sock'[s] = sock[s]
    BY <1>1, <2>2 DEF TablesTyped
  <2>5. shards'[packet] = f /\ \A c \in UdpClients : c # packet => shards'[c] = shards[c]
    BY <1>1, <2>1 DEF TablesTyped, UdpLoopTyped
  <2>6. packet \in UdpClients /\ NoSession \notin Sockets
    BY <1>1, SocketsFinite DEF UdpLoopTyped
  <2>7. InMap' = InMap \cup {f}
    <3>1. \A s \in Sockets : s \in InMap' <=> s \in InMap \/ s = f
      BY <1>4, <2>5, <2>6 DEF InMap
    <3> QED
      BY <3>1 DEF InMap
  <2>8. Charged' = Charged \cup {f}
    BY <1>8, <2>7 DEF Charged
  <2>9. \A s \in Charged : sock'[s] = sock[s]
    BY <1>5, <1>6, <2>4
  <2>10. TablesTyped'
    BY <1>1, <1>8, <2>1, <2>2, <2>3, <2>6 DEF TablesTyped
  <2>11. UdpLoopTyped'
    BY SMT, <1>1, <1>2, <2>1 DEF UdpLoopTyped, Teardown
  <2>12. CountsTyped' /\ CountsExact'
    <3>1. InHand /\ ~InHand' /\ sock'[f].client = packet
      BY <1>2, <2>1, <2>3, <2>4 DEF InHand
    <3> QED
      BY <1>1, <1>5, <2>1, <2>8, <2>9, <3>1, CountsPublish
  <2>13. ~ending' /\ ~joined'
    BY <1>1, <1>2, <1>10 DEF DrainInOrder, Teardown
  <2>14. ReadersGone' /\ DrainInOrder'
    BY <1>1, <1>2, <2>13 DEF ReadersGone, DrainInOrder, Teardown
  <2>15. OneHolderPerSession'
    <3>1. ASSUME NEW c \in UdpClients, shards'[c] # NoSession PROVE sock'[shards'[c]].client = c
      <4>1. CASE c = packet
        BY <2>3, <2>4, <2>5, <4>1
      <4>2. CASE c # packet
        <5>1. shards[c] \in Charged /\ shards'[c] = shards[c]
          BY <1>1, <2>5, <3>1, <4>2 DEF Charged, InMap, TablesTyped
        <5> QED
          BY <1>1, <2>9, <3>1, <5>1 DEF OneHolderPerSession
      <4> QED
        BY <4>1, <4>2
    <3>2. \A s \in Charged' : sock'[s].reply # "none"
      BY <1>1, <2>3, <2>4, <2>8, <2>9 DEF OneHolderPerSession
    <3>3. \A s \in Sockets : sock'[s].open => s \in Charged'
      BY <1>1, <1>3, <2>4, <2>8 DEF OneHolderPerSession
    <3>4. InMap' \cap (old \cup taken) = {} /\ old \cap taken = {}
      BY <1>1, <1>5, <2>7 DEF OneHolderPerSession, Charged
    <3>5. sock'[f].reply # "none"
      BY <2>3, <2>4
    <3> QED
      BY <1>3, <1>8, <2>1, <3>1, <3>2, <3>3, <3>4, <3>5 DEF OneHolderPerSession
  <2> QED
    BY <2>10, <2>11, <2>12, <2>14, <2>15, UdpWhole
<1> QED
  BY <1>9, <1>10

(* remove: the session leaves its shard and returns its charge if it is     *)
(* still the current one, and only its own goroutine's state changes else.  *)
LEMMA RemoveStep ==
  ASSUME UdpInv, NEW f \in Sockets, NEW end \in {"reading", "done"}, Remove(f, end),
         sock[f].reply # "none", joined => end # "reading",
         UNCHANGED <<packet, idle>>, UNCHANGED Teardown,
         \/ UNCHANGED <<ingress, fresh>>
         \/ ingress = "write" /\ ingress' = "read" /\ fresh' = NoSession
  PROVE  UdpInv'
<1>1. /\ UdpLoopTyped /\ TablesTyped /\ CountsTyped /\ CountsExact /\ ReadersGone
      /\ OneHolderPerSession /\ DrainInOrder
  BY UdpParts
<1>2. sock[f] \in [client : UdpClients, open : BOOLEAN, reply : {"none", "reading", "done"}]
  BY <1>1 DEF TablesTyped
<1>3. PICK d \in UdpClients : d = sock[f].client
  BY <1>2
<1>4. old' = old /\ taken' = taken /\ drain' = drain /\ ending' = ending /\ joined' = joined
      /\ expirer' = expirer
  BY DEF Teardown
<1>5. Charged \subseteq Sockets /\ NoSession \notin Sockets
  BY <1>1, ChargedFinite, SocketsFinite
<1>6. UdpLoopTyped'
  BY SMT, <1>1, <1>4 DEF UdpLoopTyped
<1>7. /\ (InHand' <=> InHand) /\ packet' = packet
      /\ ingress' \in {"insert", "write"} => fresh' = fresh /\ ingress' = ingress
      /\ ingress' \in {"reserve", "dial", "insert"} => ingress' = ingress
      /\ ingress = "insert" => ingress' = ingress /\ fresh' = fresh
  BY DEF InHand
<1>8. CASE shards[d] = f
  <2> DEFINE r == [sock[f] EXCEPT !.open = FALSE, !.reply = end]
  <2>1. shards' = [shards EXCEPT ![d] = NoSession] /\ ReleaseCounts(sock[f].client.ip)
    BY <1>3, <1>8 DEF Remove
  <2>2. sock' = [sock EXCEPT ![f] = r]
    BY <1>1, <1>3, <1>8 DEF Remove, TablesTyped
  <2>3. /\ r \in [client : UdpClients, open : BOOLEAN, reply : {"none", "reading", "done"}]
        /\ r.client = d /\ ~r.open /\ r.reply = end
    BY <1>2, <1>3
  <2> HIDE DEF r
  <2>4. sock'[f] = r /\ \A s \in Sockets : s # f => sock'[s] = sock[s]
    BY <1>1, <2>2 DEF TablesTyped
  <2>5. shards'[d] = NoSession /\ \A c \in UdpClients : c # d => shards'[c] = shards[c]
    BY <1>1, <2>1 DEF TablesTyped
  <2>6. \A c \in UdpClients : c # d => shards[c] # f
    BY <1>1, <1>3, <1>5 DEF OneHolderPerSession
  <2>7. InMap' = InMap \ {f} /\ f \in InMap
    <3>1. \A s \in Sockets : s \in InMap' <=> s \in InMap /\ s # f
      BY <1>5, <1>8, <2>5, <2>6 DEF InMap
    <3>2. f \in InMap
      BY <1>8 DEF InMap
    <3> QED
      BY <3>1, <3>2 DEF InMap
  <2>8. Charged' = Charged \ {f} /\ f \in Charged
    BY <1>1, <1>4, <2>7 DEF Charged, OneHolderPerSession
  <2>9. \A s \in Charged : sock'[s].client = sock[s].client
    BY <1>3, <1>5, <2>3, <2>4
  <2>10. TablesTyped'
    BY <1>1, <1>4, <2>1, <2>2, <2>3 DEF TablesTyped
  <2>11. CountsTyped' /\ CountsExact'
    BY <1>1, <1>7, <2>1, <2>8, <2>9, CountsRemove
  <2>12. ~joined
    BY <1>1, <2>8 DEF DrainInOrder
  <2>13. ReadersGone'
    BY <1>4, <2>12 DEF ReadersGone
  <2>14. DrainInOrder'
    BY <1>1, <1>4, <2>5, <2>12 DEF DrainInOrder
  <2>15. OneHolderPerSession'
    <3>1. ASSUME NEW c \in UdpClients, shards'[c] # NoSession PROVE sock'[shards'[c]].client = c
      <4>1. c # d /\ shards'[c] = shards[c] /\ shards[c] # f /\ shards[c] \in Sockets
        BY <1>1, <2>5, <2>6, <3>1 DEF TablesTyped
      <4> QED
        BY <1>1, <2>4, <3>1, <4>1 DEF OneHolderPerSession
    <3>2. \A s \in Charged' : sock'[s].reply # "none"
      BY <1>1, <1>5, <2>4, <2>8 DEF OneHolderPerSession
    <3>3. \A s \in Sockets : sock'[s].open => s \in Charged' \/ (s = fresh' /\ ingress' = "insert")
      BY <1>1, <1>7, <2>3, <2>4, <2>8 DEF OneHolderPerSession
    <3>4. InMap' \cap (old \cup taken) = {} /\ old \cap taken = {}
      BY <1>1, <2>7 DEF OneHolderPerSession
    <3>5. /\ ingress' \in {"insert", "write"} => fresh' \in Sockets
          /\ ingress' \in {"reserve", "dial", "insert"} => shards'[packet'] = NoSession
      BY <1>1, <1>7, <2>5 DEF OneHolderPerSession, UdpLoopTyped
    <3>6. ingress' = "insert" => sock'[fresh'].client = packet' /\ sock'[fresh'].reply = "none"
      <4> SUFFICES ASSUME ingress' = "insert"
                   PROVE  sock'[fresh'].client = packet' /\ sock'[fresh'].reply = "none"
        OBVIOUS
      <4>1. ingress = "insert" /\ fresh' = fresh /\ fresh \in Sockets /\ sock[fresh].reply = "none"
            /\ sock[fresh].client = packet
        BY <1>1, <1>7 DEF OneHolderPerSession
      <4> QED
        BY <1>7, <2>4, <4>1
    <3>7. ingress' = "write" => sock'[fresh'].reply # "none"
      BY <1>1, <1>7, <2>3, <2>4 DEF OneHolderPerSession
    <3> QED
      BY <1>4, <3>1, <3>2, <3>3, <3>4, <3>5, <3>6, <3>7 DEF OneHolderPerSession
  <2> QED
    BY <1>6, <2>10, <2>11, <2>13, <2>14, <2>15, UdpWhole
<1>9. CASE shards[d] # f
  <2> DEFINE r == [sock[f] EXCEPT !.reply = end]
  <2>1. UNCHANGED <<shards, active, perIP>>
    BY <1>3, <1>9 DEF Remove
  <2>2. sock' = [sock EXCEPT ![f] = r]
    BY <1>1, <1>3, <1>9 DEF Remove, TablesTyped
  <2>3. /\ r \in [client : UdpClients, open : BOOLEAN, reply : {"none", "reading", "done"}]
        /\ r.client = sock[f].client /\ r.open = sock[f].open /\ r.reply = end
    BY <1>2
  <2> HIDE DEF r
  <2>4. sock'[f] = r /\ \A s \in Sockets : s # f => sock'[s] = sock[s]
    BY <1>1, <2>2 DEF TablesTyped
  <2>5. InMap' = InMap /\ Charged' = Charged
    BY <1>4, <2>1 DEF InMap, Charged
  <2>6. \A s \in Sockets : sock'[s].client = sock[s].client /\ (sock'[s].open => sock[s].open)
    BY <2>3, <2>4
  <2>7. TablesTyped'
    BY <1>1, <1>4, <2>1, <2>2, <2>3 DEF TablesTyped
  <2>8. CountsTyped' /\ CountsExact'
    BY <1>1, <1>5, <1>7, <2>1, <2>5, <2>6, CountsSame
  <2>9. ReadersGone'
    BY <1>1, <1>4, <2>3, <2>4 DEF ReadersGone
  <2>10. DrainInOrder'
    BY <1>1, <1>4, <2>1, <2>5 DEF DrainInOrder
  <2>11. OneHolderPerSession'
    <3>1. ASSUME NEW c \in UdpClients, shards[c] # NoSession PROVE sock'[shards[c]].client = c
      <4>1. shards[c] \in Sockets
        BY <1>1, <3>1 DEF TablesTyped
      <4> QED
        BY <1>1, <2>6, <3>1, <4>1 DEF OneHolderPerSession
    <3>2. \A s \in Charged : sock'[s].reply # "none"
      BY <1>1, <1>5, <2>3, <2>4 DEF OneHolderPerSession
    <3>3. \A s \in Sockets : sock'[s].open => s \in Charged \/ (s = fresh' /\ ingress' = "insert")
      BY <1>1, <1>7, <2>6 DEF OneHolderPerSession
    <3>4. InMap \cap (old \cup taken) = {} /\ old \cap taken = {}
      BY <1>1 DEF OneHolderPerSession
    <3>5. /\ ingress' \in {"insert", "write"} => fresh' \in Sockets
          /\ ingress' \in {"reserve", "dial", "insert"} => shards[packet'] = NoSession
      BY <1>1, <1>7 DEF OneHolderPerSession
    <3>6. ingress' = "insert" => sock'[fresh'].client = packet' /\ sock'[fresh'].reply = "none"
      <4> SUFFICES ASSUME ingress' = "insert"
                   PROVE  sock'[fresh'].client = packet' /\ sock'[fresh'].reply = "none"
        OBVIOUS
      <4>1. ingress = "insert" /\ fresh' = fresh /\ fresh \in Sockets /\ sock[fresh].reply = "none"
            /\ sock[fresh].client = packet
        BY <1>1, <1>7 DEF OneHolderPerSession
      <4> QED
        BY <1>7, <2>4, <4>1
    <3>7. ingress' = "write" => sock'[fresh'].reply # "none"
      BY <1>1, <1>7, <2>3, <2>4 DEF OneHolderPerSession
    <3> QED
      BY <1>4, <2>1, <2>5, <3>1, <3>2, <3>3, <3>4, <3>5, <3>6, <3>7 DEF OneHolderPerSession
  <2> QED
    BY <1>6, <2>7, <2>8, <2>9, <2>10, <2>11, UdpWhole
<1> QED
  BY <1>8, <1>9

(* A failed first write removes the session it was for.                     *)
LEMMA WriteStep ==
  ASSUME UdpInv, FirstWrite
  PROVE  UdpInv'
<1>1. /\ UdpLoopTyped /\ TablesTyped /\ CountsTyped /\ CountsExact /\ ReadersGone
      /\ OneHolderPerSession /\ DrainInOrder
  BY UdpParts
<1>2. /\ ingress = "write" /\ ingress' = "read" /\ fresh' = NoSession
      /\ UNCHANGED <<packet, idle>> /\ UNCHANGED Teardown
  BY DEF FirstWrite
<1>3. PICK f \in Sockets : f = fresh
  BY <1>1, <1>2 DEF OneHolderPerSession
<1>4. CASE Remove(fresh, sock[fresh].reply)
  <2>1. PICK end \in {"reading", "done"} : end = sock[f].reply
    BY <1>1, <1>2, <1>3 DEF OneHolderPerSession, TablesTyped
  <2>2. sock[f].reply # "none" /\ (joined => end # "reading")
    BY <1>1, <2>1 DEF ReadersGone
  <2>3. Remove(f, end)
    BY <1>3, <1>4, <2>1
  <2> QED
    BY <1>2, <2>2, <2>3, RemoveStep
<1>5. CASE UNCHANGED <<shards, sock>> /\ UNCHANGED Counters
  <2>1. InMap' = InMap /\ Charged' = Charged
    BY <1>2, <1>5 DEF InMap, Charged, Teardown
  <2>2. TablesTyped'
    BY <1>1, <1>2, <1>5 DEF TablesTyped, Teardown
  <2>3. UdpLoopTyped'
    BY SMT, <1>1, <1>2 DEF UdpLoopTyped, Teardown
  <2>4. CountsTyped' /\ CountsExact'
    <3>1. ~InHand /\ ~InHand' /\ UNCHANGED <<active, perIP>>
      BY <1>2, <1>5 DEF InHand, Counters
    <3> QED
      BY <1>1, <1>5, <2>1, <3>1, CountsSame
  <2>5. ReadersGone' /\ DrainInOrder'
    BY <1>1, <1>2, <1>5, <2>1 DEF ReadersGone, DrainInOrder, Teardown
  <2>6. OneHolderPerSession'
    BY <1>1, <1>2, <1>5, <2>1 DEF OneHolderPerSession, Teardown
  <2> QED
    BY <2>2, <2>3, <2>4, <2>5, <2>6, UdpWhole
<1> QED
  BY <1>4, <1>5 DEF FirstWrite

(* The end of a reply loop removes its session, if it is still there.       *)
LEMMA ReplyStep ==
  ASSUME UdpInv, NEW s \in Sockets, ReplyEnds(s)
  PROVE  UdpInv'
<1>1. sock[s].reply # "none" /\ Remove(s, "done")
  BY DEF ReplyEnds
<1> QED
  BY <1>1, RemoveStep DEF ReplyEnds

(* The expirer or Close empties a shard: the session changes hands under    *)
(* the lock of the shard.                                                   *)
LEMMA TakeStep ==
  ASSUME UdpInv, NEW d \in UdpClients, shards' = [shards EXCEPT ![d] = NoSession],
         UNCHANGED <<ingress, packet, fresh, sock, idle, active, perIP, ending, expirer, joined>>,
         drain' \subseteq UdpClients, \A c \in drain : c = d \/ c \in drain', ~joined,
         \/ /\ old' = old \cup {shards[d]} /\ shards[d] # NoSession /\ taken' = taken
            /\ expirer = "running"
         \/ taken' = taken \cup {shards[d]} /\ shards[d] # NoSession /\ old' = old
         \/ shards[d] = NoSession /\ old' = old /\ taken' = taken
  PROVE  UdpInv'
<1>1. /\ UdpLoopTyped /\ TablesTyped /\ CountsTyped /\ CountsExact /\ ReadersGone
      /\ OneHolderPerSession /\ DrainInOrder
  BY UdpParts
<1>2. NoSession \notin Sockets /\ Charged \subseteq Sockets
  BY <1>1, ChargedFinite, SocketsFinite
<1>3. shards'[d] = NoSession /\ \A c \in UdpClients : c # d => shards'[c] = shards[c]
  BY <1>1 DEF TablesTyped
<1>4. shards[d] # NoSession => shards[d] \in Sockets /\ \A c \in UdpClients : c # d => shards[c] # shards[d]
  BY <1>1 DEF TablesTyped, OneHolderPerSession
<1>5. InMap' = InMap \ {shards[d]} /\ (shards[d] # NoSession => shards[d] \in InMap)
  <2>1. \A s \in Sockets : s \in InMap' <=> s \in InMap /\ s # shards[d]
    <3> TAKE s \in Sockets
    <3>1. s # NoSession
      BY <1>2
    <3> QED
      BY <1>3, <1>4, <3>1 DEF InMap
  <2>2. shards[d] # NoSession => shards[d] \in InMap
    BY <1>4 DEF InMap
  <2> QED
    BY <2>1, <2>2 DEF InMap
<1>6. NoSession \notin InMap
  BY <1>2 DEF InMap
<1>7. /\ Charged' = Charged /\ InMap' \cap (old' \cup taken') = {} /\ old' \cap taken' = {}
  <2>1. InMap \cap (old \cup taken) = {} /\ old \cap taken = {}
    BY <1>1 DEF OneHolderPerSession
  <2> QED
    BY <1>5, <1>6, <2>1 DEF Charged
<1>8. TablesTyped'
  <2>1. shards' \in [UdpClients -> Sockets \cup {NoSession}]
    BY <1>1 DEF TablesTyped
  <2>2. old' \subseteq Sockets /\ taken' \subseteq Sockets
    BY <1>1, <1>4 DEF TablesTyped
  <2> QED
    BY <1>1, <2>1, <2>2 DEF TablesTyped
<1>9. UdpLoopTyped'
  BY SMT, <1>1 DEF UdpLoopTyped
<1>10. CountsTyped' /\ CountsExact'
  <2>1. InHand' <=> InHand
    BY DEF InHand
  <2> QED
    BY <1>1, <1>7, <2>1, CountsSame
<1>11. ReadersGone'
  BY <1>1 DEF ReadersGone
<1>12. DrainInOrder'
  <2>1. ending => \A c \in UdpClients \ drain' : shards'[c] = NoSession
    BY <1>1, <1>3 DEF DrainInOrder
  <2>2. old' # {} => expirer = "running"
    BY <1>1 DEF DrainInOrder
  <2> QED
    BY <2>1, <2>2 DEF DrainInOrder
<1>13. OneHolderPerSession'
  <2>1. \A c \in UdpClients : shards'[c] # NoSession => sock[shards'[c]].client = c
    BY <1>1, <1>3 DEF OneHolderPerSession
  <2>2. ingress \in {"reserve", "dial", "insert"} => shards'[packet] = NoSession
    BY <1>1, <1>3 DEF OneHolderPerSession, UdpLoopTyped
  <2>3. \A s \in Charged : sock[s].reply # "none"
    BY <1>1 DEF OneHolderPerSession
  <2>4. \A s \in Sockets : sock[s].open => s \in Charged \/ (s = fresh /\ ingress = "insert")
    BY <1>1 DEF OneHolderPerSession
  <2>5. /\ ingress \in {"insert", "write"} => fresh \in Sockets
        /\ ingress = "insert" => sock[fresh].client = packet /\ sock[fresh].reply = "none"
        /\ ingress = "write" => sock[fresh].reply # "none"
    BY <1>1 DEF OneHolderPerSession
  <2> QED
    BY <1>7, <2>1, <2>2, <2>3, <2>4, <2>5 DEF OneHolderPerSession
<1> QED
  BY <1>8, <1>9, <1>10, <1>11, <1>12, <1>13, UdpWhole

(* What was taken is closed and uncharged outside the lock.                 *)
LEMMA ReturnStep ==
  ASSUME UdpInv, NEW f \in Sockets, sock' = [sock EXCEPT ![f].open = FALSE],
         ReleaseCounts(sock[f].client.ip),
         UNCHANGED <<ingress, packet, fresh, shards, idle, ending, expirer, drain, joined>>,
         \/ f \in old /\ old' = old \ {f} /\ taken' = taken
         \/ f \in taken /\ taken' = taken \ {f} /\ old' = old
  PROVE  UdpInv'
<1> DEFINE r == [sock[f] EXCEPT !.open = FALSE]
<1>1. /\ UdpLoopTyped /\ TablesTyped /\ CountsTyped /\ CountsExact /\ ReadersGone
      /\ OneHolderPerSession /\ DrainInOrder
  BY UdpParts
<1>2. sock' = [sock EXCEPT ![f] = r]
  BY <1>1 DEF TablesTyped
<1>3. /\ r \in [client : UdpClients, open : BOOLEAN, reply : {"none", "reading", "done"}]
      /\ r.client = sock[f].client /\ ~r.open /\ r.reply = sock[f].reply
  BY <1>1 DEF TablesTyped
<1> HIDE DEF r
<1>4. sock'[f] = r /\ \A s \in Sockets : s # f => sock'[s] = sock[s]
  BY <1>1, <1>2 DEF TablesTyped
<1>5. \A s \in Sockets : sock'[s].client = sock[s].client /\ sock'[s].reply = sock[s].reply
  BY <1>3, <1>4
<1>6. Charged \subseteq Sockets
  BY <1>1, ChargedFinite
<1>7. InMap' = InMap
  BY DEF InMap
<1>8. /\ f \in Charged /\ Charged' = Charged \ {f}
      /\ InMap \cap (old' \cup taken') = {} /\ old' \cap taken' = {}
  <2>1. InMap \cap (old \cup taken) = {} /\ old \cap taken = {}
    BY <1>1 DEF OneHolderPerSession
  <2> QED
    BY <1>7, <2>1 DEF Charged
<1>9. TablesTyped'
  <2>1. old' \subseteq Sockets /\ taken' \subseteq Sockets
    BY <1>1 DEF TablesTyped
  <2>2. sock' \in [Sockets -> [client : UdpClients, open : BOOLEAN, reply : {"none", "reading", "done"}]]
    BY <1>1, <1>2, <1>3 DEF TablesTyped
  <2> QED
    BY <1>1, <2>1, <2>2 DEF TablesTyped
<1>10. UdpLoopTyped'
  BY SMT, <1>1 DEF UdpLoopTyped
<1>11. CountsTyped' /\ CountsExact'
  <2>1. InHand' <=> InHand
    BY DEF InHand
  <2> QED
    BY <1>1, <1>5, <1>6, <1>8, <2>1, CountsRemove
<1>12. ~joined
  BY <1>1, <1>8 DEF DrainInOrder
<1>13. ReadersGone'
  BY <1>12 DEF ReadersGone
<1>14. DrainInOrder'
  <2>1. old' # {} => old # {}
    OBVIOUS
  <2> QED
    BY <1>1, <1>12, <2>1 DEF DrainInOrder
<1>15. OneHolderPerSession'
  <2>1. ASSUME NEW c \in UdpClients, shards[c] # NoSession PROVE sock'[shards[c]].client = c
    <3>1. shards[c] \in Sockets
      BY <1>1, <2>1 DEF TablesTyped
    <3> QED
      BY <1>1, <1>5, <2>1, <3>1 DEF OneHolderPerSession
  <2>2. \A s \in Charged' : sock'[s].reply # "none"
    BY <1>1, <1>5, <1>6, <1>8 DEF OneHolderPerSession
  <2>3. \A s \in Sockets : sock'[s].open => s \in Charged' \/ (s = fresh /\ ingress = "insert")
    BY <1>1, <1>3, <1>4, <1>8 DEF OneHolderPerSession
  <2>4. /\ ingress \in {"insert", "write"} => fresh \in Sockets
        /\ ingress = "insert" => sock'[fresh].client = packet /\ sock'[fresh].reply = "none"
        /\ ingress = "write" => sock'[fresh].reply # "none"
        /\ ingress \in {"reserve", "dial", "insert"} => shards[packet] = NoSession
    BY <1>1, <1>5 DEF OneHolderPerSession
  <2> QED
    BY <1>7, <1>8, <2>1, <2>2, <2>3, <2>4 DEF OneHolderPerSession
<1> QED
  BY <1>9, <1>10, <1>11, <1>13, <1>14, <1>15, UdpWhole

(* The expirer takes old sessions and closes them, Close takes every one.   *)
LEMMA TeardownStep ==
  ASSUME UdpInv,
         \/ \E c \in UdpClients : ExpirerTakes(c)
         \/ CloseTakes
         \/ \E s \in Sockets : ExpirerCloses(s) \/ CloseCloses(s)
  PROVE  UdpInv'
<1>1. UdpLoopTyped /\ TablesTyped /\ DrainInOrder
  BY UdpParts
<1>2. CASE \E c \in UdpClients : ExpirerTakes(c)
  <2>1. PICK d \in UdpClients : ExpirerTakes(d)
    BY <1>2
  <2>2. shards[d] \in Sockets /\ shards[d] # NoSession
    BY <1>1, <2>1, SocketsFinite DEF ExpirerTakes, UdpLoopTyped
  <2>3. shards[d] \in Charged
    BY <2>2 DEF Charged, InMap
  <2>4. ~joined
    BY <1>1, <2>3 DEF DrainInOrder
  <2>5. old' = old \cup {shards[d]}
    BY <2>1 DEF ExpirerTakes
  <2>6. drain' \subseteq UdpClients /\ drain' = drain
    BY <1>1, <2>1 DEF ExpirerTakes, UdpLoopTyped
  <2> QED
    BY <2>1, <2>2, <2>4, <2>5, <2>6, TakeStep DEF ExpirerTakes
<1>3. CASE CloseTakes
  <2>1. PICK d \in drain :
          /\ drain' = drain \ {d}
          /\ taken' = IF shards[d] = NoSession THEN {} ELSE {shards[d]}
          /\ shards' = [shards EXCEPT ![d] = NoSession]
    BY <1>3 DEF CloseTakes
  <2>2. d \in UdpClients /\ drain' \subseteq UdpClients /\ \A c \in drain : c = d \/ c \in drain'
    BY <1>1, <2>1 DEF UdpLoopTyped
  <2>3. ~joined
    BY <1>1, <2>1 DEF DrainInOrder
  <2>4. /\ taken = {} /\ old' = old
        /\ UNCHANGED <<ingress, packet, fresh, sock, idle, active, perIP, ending, expirer, joined>>
    BY <1>3 DEF CloseTakes
  <2>5. \/ taken' = taken \cup {shards[d]} /\ shards[d] # NoSession
        \/ shards[d] = NoSession /\ taken' = taken
    BY <2>1, <2>4
  <2> QED
    BY <2>1, <2>2, <2>3, <2>4, <2>5, TakeStep
<1>4. CASE \E s \in Sockets : ExpirerCloses(s) \/ CloseCloses(s)
  BY <1>4, ReturnStep DEF ExpirerCloses, CloseCloses
<1> QED
  BY <1>2, <1>3, <1>4

(* A new Forward has no session and no charge.                              *)
LEMMA UdpInitial == UdpInit => UdpInv
<1> SUFFICES ASSUME UdpInit PROVE UdpInv
  OBVIOUS
<1>1. (CHOOSE c \in UdpClients : TRUE) \in UdpClients
  BY UdpAssumption
<1>2. /\ Unused \in [client : UdpClients, open : BOOLEAN, reply : {"none", "reading", "done"}]
      /\ Unused.open = FALSE /\ Unused.reply = "none"
  BY <1>1 DEF Unused
<1>3. InMap = {}
  BY SocketsFinite DEF UdpInit, InMap
<1>4. Charged = {} /\ Cardinality({}) = 0
  BY <1>3, FS_EmptySet DEF UdpInit, Charged
<1>5. \A s \in Sockets : sock[s] = Unused
  BY DEF UdpInit
<1>6. {s \in Sockets : sock[s].open} = {}
  BY <1>2, <1>5
<1>7. UdpTypeOK
  <2>1. /\ ingress \in {"idle", "read", "reserve", "dial", "insert", "write", "done"}
        /\ packet \in UdpClients /\ fresh \in Sockets \cup {NoSession}
        /\ shards \in [UdpClients -> Sockets \cup {NoSession}]
        /\ sock \in [Sockets -> [client : UdpClients, open : BOOLEAN, reply : {"none", "reading", "done"}]]
    BY <1>1, <1>2 DEF UdpInit
  <2>2. /\ idle \subseteq Sockets /\ old \subseteq Sockets /\ taken \subseteq Sockets
        /\ drain \subseteq UdpClients /\ expirer \in {"none", "running", "done"}
        /\ ending \in BOOLEAN /\ joined \in BOOLEAN
    BY DEF UdpInit
  <2>3. /\ active \in Nat /\ perIP \in [Ips -> Nat]
        /\ MaxSessions > 0 => active <= MaxSessions
        /\ MaxSessionsPerIP > 0 => \A i \in Ips : perIP[i] <= MaxSessionsPerIP
    BY SMT, UdpAssumption DEF UdpInit
  <2> QED
    BY SMT, <2>1, <2>2, <2>3 DEF UdpTypeOK
<1>8. CountersAreExact
  <2>1. active = 0 /\ (\A i \in Ips : perIP[i] = 0) /\ ~InHand
    BY DEF UdpInit, InHand
  <2>2. \A i \in Ips : {s \in Charged : sock[s].client.ip = i} = {}
    BY <1>4
  <2>3. 0 + 0 = 0 /\ 0 <= 0
    BY SMT
  <2> QED
    BY <1>4, <1>6, <2>1, <2>2, <2>3 DEF CountersAreExact
<1>9. UdpClosedIsDrained /\ DrainInOrder
  BY DEF UdpInit, UdpClosedIsDrained, DrainInOrder
<1>10. OneHolderPerSession
  BY <1>2, <1>3, <1>4, <1>5 DEF UdpInit, OneHolderPerSession
<1> QED
  BY <1>7, <1>8, <1>9, <1>10 DEF UdpInv

(* Every step of the data plane keeps the invariant.                        *)
LEMMA UdpSteps == UdpInv /\ [UdpNext]_udpVars => UdpInv'
BY UdpIdleStep, UdpReserveStep, UdpDialsStep, InsertStep, WriteStep, ReplyStep, TeardownStep
DEF UdpNext, IngressWork, ExpirerWork, CloserWork

(* For every set of clients and every limit, the counters of a UDP Forward  *)
(* equal the sessions that hold a charge, no session is in two hands, and a *)
(* joined Close left none behind.                                           *)
THEOREM UdpSafe == UdpSpec => []UdpInv
BY UdpInitial, UdpSteps, PTL DEF UdpSpec

-----------------------------------------------------------------------------
(* Stun.                                                                   *)

(* What holds of one caller's exchange: the conjuncts of StunInv, read      *)
(* for a single waiter.                                                     *)
AskSound(a) ==
    /\ a \in Asks
    /\ a.pc = "wait" =>
        /\ 0 < a.tx /\ a.tx <= lastTx
        /\ a.mail # NoAnswer => a.mail.tx = a.tx /\ a.mail.from = a.server
        /\ medium = "tcp" => \A p \in answers : p.tx = a.tx => p.from = a.server
        /\ a.hops <= MaxAlternates /\ IsFiniteSet(a.visited)
        /\ Cardinality(a.visited) = a.hops + 1
        /\ a.hops > 0 => a.server \in Global
    /\ a.pc = "ok" => a.got.tx = a.tx /\ a.got.from = a.server

AskTold(a) ==
    a.pc = "wait" /\ reader = "dead" /\ ~(medium = "tcp" /\ shut) => a.failed \/ a.tx \in doomed

Asked ==
    /\ ask \in [Exchangers -> Asks]
    /\ \A c \in Exchangers : AskSound(ask[c]) /\ AskTold(ask[c])
    /\ \A c, d \in Exchangers :
        c # d /\ ask[c].pc = "wait" /\ ask[d].pc = "wait" => ask[c].tx # ask[d].tx

Transport ==
    /\ medium \in {"udp", "tcp"} /\ reader \in {"off", "up", "dead"} /\ shut \in BOOLEAN
    /\ lastTx \in Nat /\ lastTx <= MaxTx
    /\ \A tx \in doomed : tx \in Nat /\ 0 < tx /\ tx <= lastTx
    /\ \A p \in answers : p \in Answers /\ 0 < p.tx /\ p.tx <= lastTx

Looked == look \in Looks /\ EvidenceIsEarned

(* The invariant from its parts, before and after a step.                   *)
LEMMA StunWhole == (Asked /\ Transport /\ Looked => StunInv)'
<1>1. Asked /\ Transport /\ Looked => StunInv
  <2> SUFFICES ASSUME Asked, Transport, Looked PROVE StunInv
    OBVIOUS
  <2>1. \A c \in Waiting : c \in Exchangers /\ ask[c].pc = "wait"
    BY DEF Waiting
  <2>2. StunTypeOK
    BY <2>1 DEF Asked, Transport, Looked, AskSound, StunTypeOK
  <2>3. WaitersAreApart
    BY <2>1 DEF Asked, AskSound, WaitersAreApart
  <2>4. AnswerIsOwn /\ RedirectsEnd
    BY DEF Asked, AskSound, AnswerIsOwn, RedirectsEnd
  <2>5. WaitersAreTold
    BY <2>1 DEF Asked, AskTold, WaitersAreTold
  <2> QED
    BY <2>2, <2>3, <2>4, <2>5 DEF StunInv, Looked
<1> QED
  BY <1>1, PTL

(* And its parts from the invariant.                                        *)
LEMMA StunParts == StunInv => Asked /\ Transport /\ Looked
<1> SUFFICES ASSUME StunInv PROVE Asked /\ Transport /\ Looked
  OBVIOUS
<1>1. Transport /\ Looked
  BY DEF StunInv, StunTypeOK, Transport, Looked
<1>2. ask \in [Exchangers -> Asks]
  BY DEF StunInv, StunTypeOK
<1>3. ASSUME NEW c \in Exchangers PROVE AskSound(ask[c]) /\ AskTold(ask[c])
  <2>1. ask[c] \in Asks
    BY <1>2
  <2>2. ask[c].pc = "wait" => c \in Waiting
    BY DEF Waiting
  <2>3. AskTold(ask[c])
    BY <2>2 DEF StunInv, WaitersAreTold, AskTold
  <2>4. ask[c].pc = "ok" => ask[c].got.tx = ask[c].tx /\ ask[c].got.from = ask[c].server
    BY DEF StunInv, AnswerIsOwn
  <2>5. ASSUME ask[c].pc = "wait"
        PROVE  /\ ask[c].hops <= MaxAlternates /\ IsFiniteSet(ask[c].visited)
               /\ Cardinality(ask[c].visited) = ask[c].hops + 1
               /\ ask[c].hops > 0 => ask[c].server \in Global
    BY <2>5 DEF StunInv, RedirectsEnd
  <2>6. ASSUME ask[c].pc = "wait"
        PROVE  /\ 0 < ask[c].tx /\ ask[c].tx <= lastTx
               /\ ask[c].mail # NoAnswer => ask[c].mail.tx = ask[c].tx /\ ask[c].mail.from = ask[c].server
               /\ medium = "tcp" => \A p \in answers : p.tx = ask[c].tx => p.from = ask[c].server
    BY <2>2, <2>6 DEF StunInv, StunTypeOK, WaitersAreApart
  <2> QED
    BY <2>1, <2>3, <2>4, <2>5, <2>6 DEF AskSound
<1>4. \A c, d \in Exchangers :
        c # d /\ ask[c].pc = "wait" /\ ask[d].pc = "wait" => ask[c].tx # ask[d].tx
  BY DEF StunInv, WaitersAreApart, Waiting
<1> QED
  BY <1>1, <1>2, <1>3, <1>4 DEF Asked

(* One caller's record changes, and what the others rely on does not.       *)
LEMMA PutAsk ==
  ASSUME Asked, NEW c \in Exchangers, NEW CONSTANT r, ask' = [ask EXCEPT ![c] = r],
         AskSound(r)', AskTold(r)',
         \A a \in Asks : AskSound(a) => AskSound(a)',
         \A a \in Asks : AskTold(a) => AskTold(a)',
         r.pc = "wait" => \A d \in Exchangers : d # c /\ ask[d].pc = "wait" => ask[d].tx # r.tx
  PROVE  Asked'
<1>1. r \in Asks /\ ask \in [Exchangers -> Asks]
  BY DEF AskSound, Asked
<1>2. ask'[c] = r /\ ask' \in [Exchangers -> Asks] /\ \A d \in Exchangers : d # c => ask'[d] = ask[d]
  BY <1>1
<1>3. ASSUME NEW d \in Exchangers PROVE (AskSound(ask[d]) /\ AskTold(ask[d]))'
  <2>1. CASE d = c
    BY <1>2, <2>1 DEF AskSound, AskTold
  <2>2. CASE d # c
    <3>1. AskSound(ask[d]) /\ AskTold(ask[d]) /\ ask[d] \in Asks
      BY <1>1 DEF Asked
    <3>2. PICK a \in Asks : a = ask[d]
      BY <3>1
    <3>3. AskSound(a)' /\ AskTold(a)'
      BY <3>1, <3>2
    <3>4. ask'[d] = a
      BY <1>2, <2>2, <3>2
    <3> QED
      BY <3>3, <3>4 DEF AskSound, AskTold
  <2> QED
    BY <2>1, <2>2
<1>4. ASSUME NEW d \in Exchangers, NEW e \in Exchangers, d # e, ask'[d].pc = "wait", ask'[e].pc = "wait"
      PROVE  ask'[d].tx # ask'[e].tx
  BY <1>2, <1>4 DEF Asked
<1> QED
  BY <1>2, <1>3, <1>4 DEF Asked

(* A step that leaves the callers alone and what they rely on.              *)
LEMMA KeepAsks ==
  ASSUME Asked, UNCHANGED ask,
         \A a \in Asks : AskSound(a) => AskSound(a)',
         \A a \in Asks : AskTold(a) => AskTold(a)'
  PROVE  Asked'
<1>1. ASSUME NEW d \in Exchangers PROVE (AskSound(ask[d]) /\ AskTold(ask[d]))'
  <2>1. AskSound(ask[d]) /\ AskTold(ask[d]) /\ ask[d] \in Asks
    BY DEF Asked
  <2>2. PICK a \in Asks : a = ask[d]
    BY <2>1
  <2>3. AskSound(a)' /\ AskTold(a)' /\ ask'[d] = a
    BY <2>1, <2>2
  <2> QED
    BY <2>3 DEF AskSound, AskTold
<1> QED
  BY <1>1 DEF Asked

(* The empty record, and the one an exchange that failed leaves.            *)
LEMMA EndedSound == /\ NoAnswer \in Answers /\ NoAsk \in Asks /\ Ended \in Asks
                    /\ NoAsk.pc = "idle" /\ Ended.pc = "error"
<1>1. NoAnswer \in Answers
  BY SMT DEF NoAnswer, Answers
<1>2. NoAsk \in Asks
  BY SMT, <1>1 DEF NoAsk, Asks
<1>3. Ended \in Asks
  BY SMT, <1>2 DEF Ended, Asks
<1> QED
  BY SMT, <1>1, <1>2, <1>3 DEF Ended, NoAsk

(* A caller whose exchange ends in an error.                                *)
LEMMA EndStep ==
  ASSUME StunInv, NEW c \in Exchangers, ask' = [ask EXCEPT ![c] = Ended],
         UNCHANGED <<medium, reader, doomed, shut, answers, look>>,
         lastTx' = lastTx \/ (lastTx < MaxTx /\ lastTx' = lastTx + 1)
  PROVE  StunInv'
<1>1. Asked /\ Transport /\ Looked
  BY StunParts
<1>2. lastTx' \in Nat /\ lastTx <= lastTx' /\ lastTx' <= MaxTx
  BY SMT, <1>1, StunAssumption DEF Transport
<1>3. \A n \in Nat : n <= lastTx => n <= lastTx'
  BY SMT, <1>1, <1>2 DEF Transport
<1>4. Transport' /\ Looked'
  BY <1>1, <1>2, <1>3 DEF Transport, Looked, EvidenceIsEarned, Answers
<1>5. \A a \in Asks : AskSound(a) => AskSound(a)'
  BY <1>3 DEF AskSound, Asks
<1>6. \A a \in Asks : AskTold(a) => AskTold(a)'
  BY DEF AskTold
<1>7. AskSound(Ended)' /\ AskTold(Ended)'
  BY EndedSound DEF AskSound, AskTold
<1>8. Ended.pc # "wait"
  BY EndedSound
<1>9. Asked'
  BY <1>1, <1>5, <1>6, <1>7, <1>8, PutAsk
<1> QED
  BY <1>4, <1>9, StunWhole

(* A transaction begins under an identifier nobody has.                     *)
LEMMA RegisterStep ==
  ASSUME StunInv, NEW c \in Exchangers, NEW s \in Servers, NEW v \in SUBSET Servers, NEW h \in Nat,
         Register(c, s, v, h), IsFiniteSet(v), Cardinality(v) = h + 1, h <= MaxAlternates,
         h > 0 => s \in Global,
         UNCHANGED <<medium, doomed, shut, answers, look>>
  PROVE  StunInv'
<1> DEFINE r == [NoAsk EXCEPT !.pc = "wait", !.server = s, !.tx = Drawn,
                              !.visited = v, !.hops = h, !.sent = 1]
<1>1. Asked /\ Transport /\ Looked
  BY StunParts
<1>2. lastTx < MaxTx /\ lastTx' = lastTx + 1
  BY DEF Register
<1>3. CASE ~Usable
  <2>1. ask' = [ask EXCEPT ![c] = Ended] /\ UNCHANGED reader
    BY <1>3 DEF Register
  <2> QED
    BY <1>2, <2>1, EndStep
<1>4. CASE Usable
  <2>1. ask' = [ask EXCEPT ![c] = r] /\ reader' \in {"up", reader} /\ reader # "dead"
    BY <1>4 DEF Register, Usable
  <2>2. /\ lastTx' \in Nat /\ lastTx \in Nat /\ lastTx <= lastTx' /\ lastTx' <= MaxTx /\ 0 < lastTx'
        /\ 1 \in Nat /\ Drawn = lastTx'
    BY SMT, <1>1, <1>2, StunAssumption DEF Transport, Drawn
  <2>3. \A n \in Nat : n <= lastTx => n <= lastTx' /\ n # lastTx'
    BY SMT, <1>1, <1>2 DEF Transport
  <2>4. /\ r \in Asks /\ r.pc = "wait" /\ r.server = s /\ r.tx = lastTx' /\ r.visited = v /\ r.hops = h
        /\ r.mail = NoAnswer
    <3>1. NoAsk \in Asks
      BY EndedSound
    <3>2. r \in Asks
      BY <2>2, <3>1 DEF Asks
    <3> QED
      BY SMT, <2>2, <3>2 DEF NoAsk
  <2>13. PICK w \in Asks : w = r
    BY <2>4
  <2> HIDE DEF r
  <2>5. Transport' /\ Looked'
    <3>1. reader' \in {"off", "up", "dead"} /\ reader' # "dead"
      BY <1>1, <2>1 DEF Transport
    <3>2. Looked'
      BY <1>1 DEF Looked, EvidenceIsEarned
    <3> QED
      BY <1>1, <2>2, <2>3, <3>1, <3>2 DEF Transport, Answers
  <2>6. \A a \in Asks : AskSound(a) => AskSound(a)'
    BY <2>3 DEF AskSound, Asks
  <2>7. \A a \in Asks : AskTold(a)'
    BY <2>1 DEF AskTold
  <2>8. \A p \in answers : p.tx # lastTx'
    BY <1>1, <2>3 DEF Transport, Answers
  <2>9. lastTx' <= lastTx'
    BY SMT, <2>2
  <2>10. AskSound(w)'
    <3>1. w.pc = "wait" /\ w.server = s /\ w.tx = lastTx' /\ w.visited = v /\ w.hops = h /\ w.mail = NoAnswer
      BY <2>4, <2>13
    <3> QED
      BY <2>2, <2>8, <2>9, <3>1 DEF AskSound
  <2>11. \A d \in Exchangers : ask[d].pc = "wait" => ask[d].tx # w.tx
    BY <1>1, <2>3, <2>4, <2>13 DEF Asked, AskSound, Asks
  <2>12. Asked'
    BY <1>1, <2>1, <2>13, <2>6, <2>7, <2>10, <2>11, PutAsk
  <2> QED
    BY <2>5, <2>12, StunWhole
<1> QED
  BY <1>3, <1>4

(* A request is sent again, or an answer is put into the mailbox.           *)
LEMMA WaiterStep ==
  ASSUME StunInv, NEW c \in Exchangers, ask[c].pc = "wait",
         \/ Retransmit(c)
         \/ \E p \in answers : /\ IsFor(c, p) /\ ask' = [ask EXCEPT ![c].mail = p]
                               /\ UNCHANGED <<medium, reader, doomed, shut, answers, lastTx, look>>
  PROVE  StunInv'
<1>1. Asked /\ Transport /\ Looked
  BY StunParts
<1>2. UNCHANGED <<medium, reader, doomed, shut, answers, lastTx, look>>
  BY DEF Retransmit
<1>3. PICK b \in Asks : b = ask[c]
  BY <1>1 DEF Asked
<1>4. AskSound(b) /\ AskTold(b) /\ b.pc = "wait"
  BY <1>1, <1>3 DEF Asked
<1>5. PICK a \in Asks :
        /\ ask' = [ask EXCEPT ![c] = a]
        /\ a.pc = b.pc /\ a.server = b.server /\ a.tx = b.tx /\ a.visited = b.visited
        /\ a.hops = b.hops /\ (b.failed => a.failed)
        /\ a.mail # b.mail => a.mail.tx = b.tx /\ a.mail.from = b.server
  <2>1. CASE Retransmit(c)
    <3> DEFINE n == [b EXCEPT !.sent = b.sent + 1]
    <3>1. b.sent + 1 \in Nat
      BY SMT, <1>3 DEF Asks
    <3>2. /\ n \in Asks /\ n.pc = b.pc /\ n.server = b.server /\ n.tx = b.tx /\ n.visited = b.visited
          /\ n.hops = b.hops /\ (b.failed => n.failed) /\ n.mail = b.mail
      BY SMT, <1>3, <3>1 DEF Asks
    <3>3. ask' = [ask EXCEPT ![c] = n]
      BY <1>1, <1>3, <2>1 DEF Retransmit, Asked
    <3> HIDE DEF n
    <3> QED
      BY <3>2, <3>3
  <2>2. CASE \E p \in answers : IsFor(c, p) /\ ask' = [ask EXCEPT ![c].mail = p]
    <3>1. PICK p \in answers : IsFor(c, p) /\ ask' = [ask EXCEPT ![c].mail = p]
      BY <2>2
    <3> DEFINE n == [b EXCEPT !.mail = p]
    <3>2. p \in Answers
      BY <1>1 DEF Transport
    <3>3. /\ n \in Asks /\ n.pc = b.pc /\ n.server = b.server /\ n.tx = b.tx /\ n.visited = b.visited
          /\ n.hops = b.hops /\ (b.failed => n.failed) /\ n.mail = p
      BY SMT, <1>3, <3>2 DEF Asks
    <3>4. ask' = [ask EXCEPT ![c] = n]
      BY <1>1, <1>3, <3>1 DEF Asked
    <3>5. p.tx = b.tx /\ p.from = b.server
      BY <1>1, <1>3, <1>4, <3>1 DEF IsFor, AskSound, Transport
    <3> HIDE DEF n
    <3> QED
      BY <3>3, <3>4, <3>5
  <2> QED
    BY <2>1, <2>2
<1>6. AskSound(a)'
  <2>1. a.mail # NoAnswer => a.mail.tx = a.tx /\ a.mail.from = a.server
    BY <1>4, <1>5 DEF AskSound
  <2> QED
    BY <1>2, <1>4, <1>5, <2>1 DEF AskSound
<1>7. AskTold(a)'
  BY <1>2, <1>4, <1>5 DEF AskTold
<1>8. \A d \in Exchangers : d # c /\ ask[d].pc = "wait" => ask[d].tx # a.tx
  <2>1. ASSUME NEW d \in Exchangers, d # c, ask[d].pc = "wait" PROVE ask[d].tx # ask[c].tx
    BY <1>1, <2>1 DEF Asked
  <2> QED
    BY <1>3, <1>5, <2>1
<1>9. \A x \in Asks : AskSound(x) => AskSound(x)'
  BY <1>2 DEF AskSound
<1>10. \A x \in Asks : AskTold(x) => AskTold(x)'
  BY <1>2 DEF AskTold
<1>11. Asked'
  BY <1>1, <1>5, <1>6, <1>7, <1>8, <1>9, <1>10, PutAsk
<1>12. Transport' /\ Looked'
  BY <1>1, <1>2 DEF Transport, Looked, EvidenceIsEarned
<1> QED
  BY <1>11, <1>12, StunWhole

(* Exchange takes the answer: it returns it, follows it or fails.           *)
LEMMA TakeAnswerStep ==
  ASSUME StunInv, NEW c \in Exchangers, TakeAnswer(c)
  PROVE  StunInv'
<1>1. Asked /\ Transport /\ Looked
  BY StunParts
<1>2. UNCHANGED <<medium, doomed, shut, answers, look>> /\ ask[c].pc = "wait" /\ ask[c].mail # NoAnswer
  BY DEF TakeAnswer
<1>3. PICK b \in Asks : b = ask[c]
  BY <1>1 DEF Asked
<1>4. AskSound(b) /\ b.pc = "wait" /\ b.mail # NoAnswer /\ b.mail \in Answers
  BY <1>1, <1>2, <1>3 DEF Asked, Asks
<1>5. CASE b.mail.alt = "none" \/ MaxAlternates = 0
  <2> DEFINE a == [b EXCEPT !.pc = "ok", !.got = b.mail]
  <2>1. ask' = [ask EXCEPT ![c].pc = "ok", ![c].got = b.mail] /\ UNCHANGED <<reader, lastTx>>
    BY <1>3, <1>5 DEF TakeAnswer
  <2>2. ask' = [ask EXCEPT ![c] = a]
    BY <1>1, <1>3, <2>1 DEF Asked
  <2>3. a \in Asks /\ a.pc = "ok" /\ a.got = b.mail /\ a.tx = b.tx /\ a.server = b.server
    BY <1>3, <1>4 DEF Asks
  <2> HIDE DEF a
  <2>4. AskSound(a)' /\ AskTold(a)' /\ a.pc # "wait"
    BY <1>4, <2>3 DEF AskSound, AskTold
  <2>5. \A x \in Asks : AskSound(x) => AskSound(x)'
    BY <1>2, <2>1 DEF AskSound
  <2>6. \A x \in Asks : AskTold(x) => AskTold(x)'
    BY <1>2, <2>1 DEF AskTold
  <2>7. Asked'
    BY <1>1, <2>2, <2>4, <2>5, <2>6, PutAsk
  <2>8. Transport' /\ Looked'
    BY <1>1, <1>2, <2>1 DEF Transport, Looked, EvidenceIsEarned
  <2> QED
    BY <2>7, <2>8, StunWhole
<1>6. CASE ~(b.mail.alt = "none" \/ MaxAlternates = 0) /\ MayFollow(c, b.mail.alt)
  <2>1. Register(c, b.mail.alt, b.visited \cup {b.mail.alt}, b.hops + 1)
    BY <1>3, <1>6 DEF TakeAnswer
  <2>2. b.mail.alt \in Global /\ b.mail.alt \notin b.visited /\ b.hops < MaxAlternates
    BY <1>3, <1>6 DEF MayFollow
  <2>3. b.mail.alt \in Servers /\ b.visited \in SUBSET Servers /\ b.hops \in Nat
    BY <1>4, <1>6 DEF Answers, Asks
  <2>4. b.hops + 1 \in Nat /\ b.hops + 1 <= MaxAlternates
    BY SMT, <2>2, <2>3, StunAssumption
  <2>5. /\ IsFiniteSet(b.visited \cup {b.mail.alt})
        /\ Cardinality(b.visited \cup {b.mail.alt}) = (b.hops + 1) + 1
    <3>1. IsFiniteSet(b.visited) /\ Cardinality(b.visited) = b.hops + 1
      BY <1>4 DEF AskSound
    <3> QED
      BY <2>2, <3>1, FS_AddElement
  <2>6. b.visited \cup {b.mail.alt} \in SUBSET Servers
    BY <2>3
  <2> QED
    BY <1>2, <2>1, <2>2, <2>3, <2>4, <2>5, <2>6, RegisterStep
<1>7. CASE ~(b.mail.alt = "none" \/ MaxAlternates = 0) /\ ~MayFollow(c, b.mail.alt)
  <2>1. ask' = [ask EXCEPT ![c] = Ended] /\ UNCHANGED <<reader, lastTx>>
    BY <1>3, <1>7 DEF TakeAnswer
  <2> QED
    BY <1>2, <2>1, EndStep
<1> QED
  BY <1>5, <1>6, <1>7

(* A server answers: the identifier is a waiter's, and over TCP the answer  *)
(* comes over the connection to the server it asks.                         *)
LEMMA ServerStep ==
  ASSUME StunInv, NEW c \in Exchangers, ServerAnswers(c)
  PROVE  StunInv'
<1>1. Asked /\ Transport /\ Looked
  BY StunParts
<1>2. UNCHANGED <<medium, ask, reader, doomed, shut, lastTx, look>> /\ ask[c].pc = "wait"
  BY DEF ServerAnswers
<1>3. PICK from \in Servers, alt \in Servers \cup {"none"} :
        /\ from # ask[c].server => medium = "udp"
        /\ answers' = answers \cup {[tx |-> ask[c].tx, from |-> from, alt |-> alt]}
  BY DEF ServerAnswers
<1>4. AskSound(ask[c]) /\ ask[c] \in Asks
  BY <1>1 DEF Asked
<1> DEFINE p == [tx |-> ask[c].tx, from |-> from, alt |-> alt]
<1>5. p \in Answers /\ p.tx = ask[c].tx /\ p.from = from
  BY <1>4 DEF Answers, Asks
<1>6. answers' = answers \cup {p}
  BY <1>3
<1> HIDE DEF p
<1>7. 0 < p.tx /\ p.tx <= lastTx
  BY <1>2, <1>4, <1>5 DEF AskSound
<1>8. Transport' /\ Looked'
  <2>1. Looked'
    BY <1>1, <1>2 DEF Looked, EvidenceIsEarned
  <2> QED
    BY <1>1, <1>2, <1>5, <1>6, <1>7, <2>1 DEF Transport
<1>9. ASSUME NEW d \in Exchangers, ask[d].pc = "wait", medium = "tcp", NEW q \in answers', q.tx = ask[d].tx
      PROVE  q.from = ask[d].server
  <2>1. CASE q \in answers
    BY <1>1, <1>9, <2>1 DEF Asked, AskSound
  <2>2. CASE q = p
    <3>1. d = c
      BY <1>1, <1>2, <1>5, <1>9, <2>2 DEF Asked
    <3> QED
      BY <1>3, <1>5, <1>9, <2>2, <3>1
  <2> QED
    BY <1>6, <2>1, <2>2
<1>10. ASSUME NEW d \in Exchangers PROVE (AskSound(ask[d]) /\ AskTold(ask[d]))'
  <2>1. AskSound(ask[d]) /\ AskTold(ask[d])
    BY <1>1 DEF Asked
  <2>2. AskTold(ask[d])'
    BY <1>2, <2>1 DEF AskTold
  <2> QED
    BY <1>2, <1>9, <2>1, <2>2 DEF AskSound
<1>11. Asked'
  BY <1>1, <1>2, <1>10 DEF Asked
<1> QED
  BY <1>8, <1>11, StunWhole

(* The reader collects the waiters when the transport dies.                 *)
LEMMA DiesStep ==
  ASSUME StunInv, TransportDies
  PROVE  StunInv'
<1>1. Asked /\ Transport /\ Looked
  BY StunParts
<1>2. UNCHANGED <<medium, ask, shut, answers, lastTx, look>> /\ reader' = "dead"
  BY DEF TransportDies
<1>3. \A tx \in doomed' : \E c \in Exchangers : ask[c].pc = "wait" /\ tx = ask[c].tx
  BY DEF TransportDies, Waiting
<1>4. ~(medium = "tcp" /\ shut) => \A c \in Exchangers : ask[c].pc = "wait" => ask[c].tx \in doomed'
  BY DEF TransportDies, Waiting
<1>5. Transport'
  <2>1. ASSUME NEW tx \in doomed' PROVE tx \in Nat /\ 0 < tx /\ tx <= lastTx
    <3>1. PICK c \in Exchangers : ask[c].pc = "wait" /\ tx = ask[c].tx
      BY <1>3
    <3>2. AskSound(ask[c]) /\ ask[c].tx \in Nat
      BY <1>1 DEF Asked, Asks
    <3> QED
      BY <3>1, <3>2 DEF AskSound
  <2> QED
    BY <1>1, <1>2, <2>1 DEF Transport
<1>6. Looked'
  BY <1>1, <1>2 DEF Looked, EvidenceIsEarned
<1>7. ASSUME NEW d \in Exchangers PROVE (AskSound(ask[d]) /\ AskTold(ask[d]))'
  <2>1. AskSound(ask[d])
    BY <1>1 DEF Asked
  <2>2. AskTold(ask[d])'
    BY <1>2, <1>4 DEF AskTold
  <2>3. AskSound(ask[d])'
    BY <1>2, <2>1 DEF AskSound
  <2> QED
    BY <2>2, <2>3
<1>8. Asked'
  BY <1>1, <1>2, <1>7 DEF Asked
<1> QED
  BY <1>5, <1>6, <1>8, StunWhole

(* One collected waiter is told; the others stay collected.                 *)
LEMMA FailWaiterStep ==
  ASSUME StunInv, FailWaiter
  PROVE  StunInv'
<1>1. Asked /\ Transport /\ Looked
  BY StunParts
<1>2. UNCHANGED <<medium, reader, shut, answers, lastTx, look>>
  BY DEF FailWaiter
<1>3. PICK tx \in doomed :
        /\ doomed' = doomed \ {tx}
        /\ ask' = [c \in Exchangers |->
              IF ask[c].pc = "wait" /\ ask[c].tx = tx
                 THEN [ask[c] EXCEPT !.failed = TRUE] ELSE ask[c]]
  BY DEF FailWaiter
<1>4. ASSUME NEW d \in Exchangers
      PROVE  /\ AskSound(ask[d])' /\ AskTold(ask[d])'
             /\ ask'[d] \in Asks /\ ask'[d].pc = ask[d].pc /\ ask'[d].tx = ask[d].tx
  <2>1. AskSound(ask[d]) /\ AskTold(ask[d]) /\ ask[d] \in Asks
    BY <1>1 DEF Asked
  <2>2. CASE ask[d].pc = "wait" /\ ask[d].tx = tx
    <3>1. ask'[d] = [ask[d] EXCEPT !.failed = TRUE]
      BY <1>3, <2>2
    <3>2. ask'[d] \in Asks /\ ask'[d].failed /\ ask'[d].pc = ask[d].pc /\ ask'[d].server = ask[d].server
      BY <2>1, <3>1 DEF Asks
    <3>3. /\ ask'[d].tx = ask[d].tx /\ ask'[d].visited = ask[d].visited /\ ask'[d].hops = ask[d].hops
          /\ ask'[d].mail = ask[d].mail /\ ask'[d].got = ask[d].got
      BY <2>1, <3>1 DEF Asks
    <3>4. AskSound(ask[d])'
      BY <1>2, <2>1, <2>2, <3>2, <3>3 DEF AskSound
    <3>5. AskTold(ask[d])'
      BY <3>2 DEF AskTold
    <3> QED
      BY <3>2, <3>3, <3>4, <3>5
  <2>3. CASE ~(ask[d].pc = "wait" /\ ask[d].tx = tx)
    <3>1. ask'[d] = ask[d]
      BY <1>3, <2>3
    <3>2. AskSound(ask[d])'
      BY <1>2, <2>1, <3>1 DEF AskSound
    <3>3. AskTold(ask[d])'
      BY <1>2, <1>3, <2>1, <2>3, <3>1 DEF AskTold
    <3> QED
      BY <2>1, <3>1, <3>2, <3>3
  <2> QED
    BY <2>2, <2>3
<1>5. ask' \in [Exchangers -> Asks]
  BY <1>3, <1>4
<1>6. Asked'
  <2>1. ASSUME NEW d \in Exchangers, NEW e \in Exchangers, d # e,
               ask'[d].pc = "wait", ask'[e].pc = "wait"
        PROVE  ask'[d].tx # ask'[e].tx
    <3>1. ask[d].pc = "wait" /\ ask[e].pc = "wait" /\ ask'[d].tx = ask[d].tx /\ ask'[e].tx = ask[e].tx
      BY <1>4, <2>1
    <3>2. ask[d].tx # ask[e].tx
      BY <1>1, <2>1, <3>1 DEF Asked
    <3> QED
      BY <3>1, <3>2
  <2> QED
    BY <1>4, <1>5, <2>1 DEF Asked
<1>7. Transport' /\ Looked'
  <2>1. Looked'
    BY <1>1, <1>2 DEF Looked, EvidenceIsEarned
  <2> QED
    BY <1>1, <1>2, <1>3, <2>1 DEF Transport
<1> QED
  BY <1>6, <1>7, StunWhole

(* The client is closed, or nothing of the exchanges changes.               *)
LEMMA CloseStep ==
  ASSUME StunInv, CloseClient
  PROVE  StunInv'
<1>1. Asked /\ Transport /\ Looked
  BY StunParts
<1>2. UNCHANGED <<medium, ask, reader, doomed, answers, lastTx, look>> /\ shut' = TRUE /\ ~shut
  BY DEF CloseClient
<1>3. \A a \in Asks : AskSound(a) => AskSound(a)'
  BY <1>2 DEF AskSound
<1>4. \A a \in Asks : AskTold(a) => AskTold(a)'
  BY <1>2 DEF AskTold
<1>5. Asked'
  BY <1>1, <1>2, <1>3, <1>4, KeepAsks
<1>6. Transport' /\ Looked'
  BY <1>1, <1>2 DEF Transport, Looked, EvidenceIsEarned
<1> QED
  BY <1>5, <1>6, StunWhole

(* The observation of a mapping: endpoint independence is only concluded    *)
(* while the first connection has been held throughout.                     *)
LEMMA LookStep ==
  ASSUME StunInv, LookNext
  PROVE  StunInv'
<1>1. Asked /\ Transport /\ Looked
  BY StunParts
<1>2. UNCHANGED askVars
  BY DEF LookNext, ObserveFirst, FirstDrops, ObserveSecond, SecondFails, Judge, LookAgain
<1>3. UNCHANGED <<medium, ask, reader, doomed, shut, answers, lastTx>>
  BY <1>2 DEF askVars
<1>4. Asked'
  <2>1. \A a \in Asks : AskSound(a) => AskSound(a)'
    BY <1>3 DEF AskSound
  <2>2. \A a \in Asks : AskTold(a) => AskTold(a)'
    BY <1>3 DEF AskTold
  <2> QED
    BY <1>1, <1>3, <2>1, <2>2, KeepAsks
<1>5. Transport'
  BY <1>1, <1>3 DEF Transport
<1>6. look \in Looks /\ EvidenceIsEarned
  BY <1>1 DEF Looked
<1>7. NoLook \in Looks /\ NoLook.verdict = "none" /\ NoLook.pc = "idle"
  BY SMT DEF NoLook, Looks
<1>8. Looked'
  <2>1. CASE ObserveFirst
    <3>1. PICK gate \in BOOLEAN, cone \in BOOLEAN, m \in MappedPorts :
            look' = [NoLook EXCEPT !.pc = "first", !.gate = gate, !.cone = cone, !.first = gate, !.a = m]
      BY <2>1 DEF ObserveFirst
    <3>2. m \in Nat
      BY SMT DEF MappedPorts
    <3>3. look' \in Looks /\ look'.verdict = "none" /\ look'.pc = "first"
      BY <1>7, <3>1, <3>2 DEF Looks
    <3> QED
      BY <3>3 DEF Looked, EvidenceIsEarned
  <2>2. CASE FirstDrops
    <3>1. look' = [look EXCEPT !.first = FALSE] /\ look.pc # "judged"
      BY <2>2 DEF FirstDrops
    <3>2. look' \in Looks /\ ~look'.first /\ look'.verdict = look.verdict
      BY <1>6, <3>1 DEF Looks
    <3>3. look.verdict = "none"
      BY <1>6, <3>1 DEF EvidenceIsEarned
    <3> QED
      BY <3>2, <3>3 DEF Looked, EvidenceIsEarned
  <2>3. CASE ObserveSecond
    <3>1. PICK m \in Nat : look' = [look EXCEPT !.pc = "second", !.b = m, !.held = look.first]
      <4>1. \A m \in MappedPorts \cup {look.a} : m \in Nat
        BY SMT, <1>6 DEF MappedPorts, Looks
      <4> QED
        BY <2>3, <4>1 DEF ObserveSecond
    <3>2. /\ look' \in Looks /\ look'.pc = "second" /\ (look'.first => look'.held)
          /\ look'.verdict = look.verdict
      BY <1>6, <3>1 DEF Looks
    <3>3. look.verdict = "none"
      BY <1>6, <2>3 DEF EvidenceIsEarned, ObserveSecond
    <3> QED
      BY <3>2, <3>3 DEF Looked, EvidenceIsEarned
  <2>4. CASE SecondFails
    <3>1. look' = [look EXCEPT !.pc = "judged", !.verdict = "MAPPED_UNVERIFIED"]
      BY <2>4 DEF SecondFails
    <3>2. look' \in Looks /\ look'.pc = "judged" /\ look'.verdict = "MAPPED_UNVERIFIED"
      BY <1>6, <3>1 DEF Looks
    <3> QED
      BY <3>2 DEF Looked, EvidenceIsEarned
  <2>5. CASE Judge
    <3>1. look' = [look EXCEPT !.pc = "judged", !.verdict = Judgement(look)] /\ look.pc = "second"
      BY <2>5 DEF Judge
    <3>2. /\ Judgement(look) \in {"none", "MAPPED_UNVERIFIED", "PORT_REUSE_OBSERVED",
                                  "EIM_OBSERVED_CONCURRENT"}
          /\ Judgement(look) = "EIM_OBSERVED_CONCURRENT" => look.first /\ look.a = look.b
      BY DEF Judgement, SequentialVerdict
    <3>3. look.first => look.held
      BY <1>6, <3>1 DEF EvidenceIsEarned
    <3>4. /\ look' \in Looks /\ look'.pc = "judged" /\ look'.verdict = Judgement(look)
          /\ look'.a = look.a /\ look'.b = look.b /\ look'.held = look.held /\ look'.first = look.first
      BY <1>6, <3>1, <3>2 DEF Looks
    <3> QED
      BY <3>2, <3>3, <3>4 DEF Looked, EvidenceIsEarned
  <2>6. CASE LookAgain
    <3>1. look' = NoLook
      BY <2>6 DEF LookAgain
    <3> QED
      BY <1>7, <3>1 DEF Looked, EvidenceIsEarned
  <2> QED
    BY <2>1, <2>2, <2>3, <2>4, <2>5, <2>6 DEF LookNext
<1> QED
  BY <1>4, <1>5, <1>8, StunWhole

(* Every step of the callers, the reader, the servers and the observer      *)
(* keeps the invariant.                                                     *)
LEMMA StunSteps == StunInv /\ [StunNext]_stunVars => StunInv'
<1> SUFFICES ASSUME StunInv, [StunNext]_stunVars PROVE StunInv'
  OBVIOUS
<1>1. Asked /\ Transport /\ Looked
  BY StunParts
<1>2. ASSUME NEW c \in Exchangers, Exchange(c) PROVE StunInv'
  <2>1. PICK s \in Configured : Register(c, s, {s}, 0)
    BY <1>2 DEF Exchange
  <2>2. s \in Servers /\ {s} \in SUBSET Servers
    BY StunAssumption
  <2>3. IsFiniteSet({s}) /\ Cardinality({s}) = 0 + 1
    <3>1. IsFiniteSet({s}) /\ Cardinality({s}) = 1
      BY FS_Singleton
    <3> QED
      BY SMT, <3>1
  <2>4. 0 \in Nat /\ 0 <= MaxAlternates /\ ~(0 > 0)
    BY SMT, StunAssumption
  <2>5. UNCHANGED <<medium, doomed, shut, answers, look>>
    BY <1>2 DEF Exchange
  <2> QED
    BY <2>1, <2>2, <2>3, <2>4, <2>5, RegisterStep
<1>3. ASSUME NEW c \in Exchangers, GiveUp(c) PROVE StunInv'
  BY <1>3, EndStep DEF GiveUp
<1>4. ASSUME NEW c \in Exchangers, Retransmit(c) PROVE StunInv'
  BY <1>4, WaiterStep DEF Retransmit
<1>5. CASE ReaderDelivers
  <2>1. PICK p \in answers, c \in Exchangers : IsFor(c, p) /\ ask' = [ask EXCEPT ![c].mail = p]
    BY <1>5 DEF ReaderDelivers
  <2>2. UNCHANGED <<medium, reader, doomed, shut, answers, lastTx, look>> /\ ask[c].pc = "wait"
    BY <1>5, <2>1 DEF ReaderDelivers, IsFor
  <2> QED
    BY <2>1, <2>2, WaiterStep
<1>6. CASE UNCHANGED stunVars
  <2>1. UNCHANGED <<medium, ask, reader, doomed, shut, answers, lastTx, look>>
    BY <1>6 DEF stunVars
  <2>2. \A a \in Asks : AskSound(a) => AskSound(a)'
    BY <2>1 DEF AskSound
  <2>3. \A a \in Asks : AskTold(a) => AskTold(a)'
    BY <2>1 DEF AskTold
  <2>4. Asked'
    BY <1>1, <2>1, <2>2, <2>3, KeepAsks
  <2>5. Transport' /\ Looked'
    BY <1>1, <2>1 DEF Transport, Looked, EvidenceIsEarned
  <2> QED
    BY <2>4, <2>5, StunWhole
<1>7. CASE ExchangeNext
  BY <1>2, <1>3, <1>4, <1>5, <1>7, ServerStep, TakeAnswerStep, DiesStep, FailWaiterStep, CloseStep
     DEF ExchangeNext, TakeFailure
<1> QED
  BY <1>6, <1>7, LookStep DEF StunNext

(* For any number of callers, servers and redirections: the answer returned *)
(* is the one to the request, redirections end, nobody is left waiting on a *)
(* dead transport untold, and endpoint independence is only claimed of what *)
(* was seen (Exchange, readerLoop, observeConcurrent).                      *)
THEOREM StunSafe == StunSpec => []StunInv
<1>1. StunInit => StunInv
  <2> SUFFICES ASSUME StunInit PROVE StunInv
    OBVIOUS
  <2>1. ask = [c \in Exchangers |-> NoAsk] /\ doomed = {} /\ answers = {} /\ lastTx = 0 /\ look = NoLook
    BY DEF StunInit
  <2>2. Waiting = {}
    BY <2>1, EndedSound DEF Waiting
  <2>3. look \in Looks /\ look.verdict = "none" /\ look.pc = "idle"
    BY SMT, <2>1 DEF NoLook, Looks
  <2>4. 0 \in Nat /\ 0 <= MaxTx
    BY SMT, StunAssumption
  <2>5. medium \in {"udp", "tcp"} /\ reader \in {"off", "up"} /\ shut = FALSE
    BY DEF StunInit
  <2>6. StunTypeOK
    BY <2>1, <2>2, <2>3, <2>4, <2>5, EndedSound DEF StunTypeOK
  <2>7. \A c \in Exchangers : ask[c].pc = "idle"
    BY <2>1, EndedSound
  <2>8. WaitersAreApart /\ AnswerIsOwn /\ RedirectsEnd /\ WaitersAreTold
    BY <2>2, <2>7 DEF WaitersAreApart, AnswerIsOwn, RedirectsEnd, WaitersAreTold
  <2> QED
    BY <2>3, <2>6, <2>8 DEF StunInv, EvidenceIsEarned
<1> QED
  BY <1>1, StunSteps, PTL DEF StunSpec
=============================================================================
