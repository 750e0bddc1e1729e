-------------------------------- MODULE Stun --------------------------------
(***************************************************************************)
(* The STUN client: exchanges of several callers over one UDP socket or    *)
(* one TCP connection, demultiplexed by a single reader, and the           *)
(* two-destination observation that classifies a NAT's mapping.            *)
(*                                                                         *)
(* A transaction identifier is a number never drawn twice.  The network    *)
(* keeps every answer ever sent, so it delays, repeats and reorders them,  *)
(* and never delivers those that are lost.  A server may answer from an    *)
(* address other than the one asked.                                       *)
(***************************************************************************)
EXTENDS Naturals, FiniteSets

CONSTANTS
    Exchangers,      \* callers of Exchange, once each
    Configured,      \* the servers they ask first
    Servers,         \* STUN server addresses
    Global,          \* those an ALTERNATE-SERVER may name (global unicast)
    MaxAlternates,   \* redirections one Exchange follows
    MaxSends,        \* requests of one UDP transaction (Rc)
    MaxTx,           \* transaction identifiers drawn in all
    MaxAnswers       \* answers the servers send in all

ASSUME StunAssumption ==
    /\ Configured \subseteq Servers
    /\ MaxAlternates \in Nat /\ MaxSends \in Nat /\ MaxTx \in Nat /\ MaxAnswers \in Nat

VARIABLES
    medium,          \* "udp" or "tcp"
    ask,             \* per caller: the exchange and its waiter
    reader,          \* "off", "up" or "dead"
    doomed,          \* waiters the dead reader has yet to fail
    shut,            \* Close was called
    answers,         \* answers in the network: [tx, from, alt]
    lastTx,
    look             \* the mapping observation

stunVars == <<medium, ask, reader, doomed, shut, answers, lastTx, look>>
askVars == <<medium, ask, reader, doomed, shut, answers, lastTx>>

NoAnswer == [tx |-> 0, from |-> "none", alt |-> "none"]
NoAsk == [pc |-> "idle", server |-> "none", tx |-> 0, visited |-> {}, hops |-> 0,
          sent |-> 0, mail |-> NoAnswer, failed |-> FALSE, got |-> NoAnswer]
Ended == [NoAsk EXCEPT !.pc = "error"]
NoLook == [pc |-> "idle", gate |-> FALSE, cone |-> FALSE, first |-> FALSE,
           held |-> FALSE, a |-> 0, b |-> 0, verdict |-> "none"]

StunInit ==
    /\ medium \in {"udp", "tcp"}
    /\ ask = [c \in Exchangers |-> NoAsk]
    /\ reader = (IF medium = "tcp" THEN "up" ELSE "off")
    /\ doomed = {} /\ shut = FALSE /\ answers = {} /\ lastTx = 0
    /\ look = NoLook

-----------------------------------------------------------------------------

(***************************************************************************)
(* A transaction begins: closed clients and dead transports refuse it, the *)
(* first UDP one starts the reader, the waiter is registered under the     *)
(* identifier, and the request is written afterwards.                      *)
(***************************************************************************)
Usable == ~shut /\ reader # "dead"

Drawn == lastTx + 1

Register(c, server, visited, hops) ==
    /\ lastTx < MaxTx
    /\ lastTx' = lastTx + 1
    /\ IF Usable
          THEN /\ ask' = [ask EXCEPT ![c] = [NoAsk EXCEPT
                             !.pc = "wait", !.server = server, !.tx = Drawn,
                             !.visited = visited, !.hops = hops, !.sent = 1]]
               /\ reader' = IF reader = "off" THEN "up" ELSE reader
          ELSE /\ ask' = [ask EXCEPT ![c] = Ended]
               /\ UNCHANGED reader

Exchange(c) ==
    /\ ask[c].pc = "idle"
    /\ \E s \in Configured : Register(c, s, {s}, 0)
    /\ UNCHANGED <<medium, doomed, shut, answers, look>>

\* Only UDP retransmits, with the same identifier.
Retransmit(c) ==
    /\ medium = "udp" /\ ask[c].pc = "wait" /\ ask[c].sent < MaxSends
    /\ ask' = [ask EXCEPT ![c].sent = @ + 1]
    /\ UNCHANGED <<medium, reader, doomed, shut, answers, lastTx, look>>

(***************************************************************************)
(* The servers (external): an answer to each request sent, from the server *)
(* asked, which may name an alternate server, or over UDP from another     *)
(* address of it.                                                          *)
(***************************************************************************)
ServerAnswers(c) ==
    /\ ask[c].pc = "wait"
    /\ Cardinality(answers) < MaxAnswers
    /\ Cardinality({p \in answers : p.tx = ask[c].tx}) < ask[c].sent
    /\ \E from \in Servers, alt \in Servers \cup {"none"} :
          /\ from # ask[c].server => medium = "udp" /\ alt = "none"
          /\ medium = "tcp" => alt = "none"
          /\ answers' = answers \cup {[tx |-> ask[c].tx, from |-> from, alt |-> alt]}
    /\ UNCHANGED <<medium, ask, reader, doomed, shut, lastTx, look>>

(***************************************************************************)
(* The reader hands an answer to the waiter of its identifier.  Over UDP   *)
(* its source must be the server that waiter asks; a second answer for one *)
(* waiter is dropped.                                                      *)
(***************************************************************************)
\* Mutant of IsFor: the identifier alone decides.
IsForTx(c, p) == ask[c].pc = "wait" /\ ask[c].tx = p.tx

IsFor(c, p) ==
    /\ ask[c].pc = "wait" /\ ask[c].tx = p.tx
    /\ medium = "udp" => ask[c].server = p.from

ReaderDelivers ==
    /\ reader = "up"
    /\ \E p \in answers, c \in Exchangers :
          /\ IsFor(c, p) /\ ask[c].mail = NoAnswer
          /\ ask' = [ask EXCEPT ![c].mail = p]
    /\ UNCHANGED <<medium, reader, doomed, shut, answers, lastTx, look>>

(***************************************************************************)
(* Exchange takes the answer.  A redirection is the result of a client     *)
(* that follows none; otherwise it is followed to a global server not yet  *)
(* visited, as a new transaction, or is an error.  TCP knows none.         *)
(***************************************************************************)
MayFollow(c, alt) ==
    alt \in Global \ ask[c].visited /\ ask[c].hops < MaxAlternates

TakeAnswer(c) ==
    LET p == ask[c].mail IN
    /\ ask[c].pc = "wait" /\ p # NoAnswer
    /\ IF p.alt = "none" \/ MaxAlternates = 0
          THEN /\ ask' = [ask EXCEPT ![c].pc = "ok", ![c].got = p]
               /\ UNCHANGED <<reader, lastTx>>
       ELSE IF MayFollow(c, p.alt)
          THEN Register(c, p.alt, ask[c].visited \cup {p.alt}, ask[c].hops + 1)
          ELSE /\ ask' = [ask EXCEPT ![c] = Ended]
               /\ UNCHANGED <<reader, lastTx>>
    /\ UNCHANGED <<medium, doomed, shut, answers, look>>

\* The caller's deadline, the last wait of the retransmissions, or Ti.
GiveUp(c) ==
    /\ ask[c].pc = "wait"
    /\ ask' = [ask EXCEPT ![c] = Ended]
    /\ UNCHANGED <<medium, reader, doomed, shut, answers, lastTx, look>>

TakeFailure(c) ==
    /\ ask[c].pc = "wait" /\ ask[c].failed
    /\ GiveUp(c)

(***************************************************************************)
(* The transport dies.  The waiters of that moment are collected under the *)
(* lock and failed one by one after it.  Over TCP this happens once, and   *)
(* not at all after Close, whose callers run into their own deadlines.     *)
(***************************************************************************)
Waiting == {c \in Exchangers : ask[c].pc = "wait"}

TransportDies ==
    /\ reader = "up"
    /\ reader' = "dead"
    /\ doomed' = IF medium = "tcp" /\ shut THEN {} ELSE {ask[c].tx : c \in Waiting}
    /\ UNCHANGED <<medium, ask, shut, answers, lastTx, look>>

FailWaiter ==
    /\ \E tx \in doomed :
          /\ doomed' = doomed \ {tx}
          /\ ask' = [c \in Exchangers |->
                IF ask[c].pc = "wait" /\ ask[c].tx = tx
                   THEN [ask[c] EXCEPT !.failed = TRUE] ELSE ask[c]]
    /\ UNCHANGED <<medium, reader, shut, answers, lastTx, look>>

\* UDP leaves the caller's socket alone; TCP closes its connection.
CloseClient ==
    /\ ~shut /\ shut' = TRUE
    /\ UNCHANGED <<medium, ask, reader, doomed, answers, lastTx, look>>

-----------------------------------------------------------------------------
(***************************************************************************)
(* ObserveMapping: two destinations seen from one local tuple, with the    *)
(* first connection kept open if the platform can share the port.  The NAT *)
(* (external) maps both alike while the first connection lives if it is    *)
(* endpoint-independent, and otherwise by chance.                          *)
(***************************************************************************)
MappedPorts == {1, 2}

ObserveFirst ==
    /\ look.pc = "idle"
    /\ \E gate \in BOOLEAN, cone \in BOOLEAN, m \in MappedPorts :
          look' = [NoLook EXCEPT !.pc = "first", !.gate = gate, !.cone = cone,
                                 !.first = gate, !.a = m]
    /\ UNCHANGED askVars

FirstDrops ==
    /\ look.first /\ look.pc \in {"first", "second"}
    /\ look' = [look EXCEPT !.first = FALSE]
    /\ UNCHANGED askVars

ObserveSecond ==
    /\ look.pc = "first"
    /\ \E m \in (IF look.cone /\ look.first THEN {look.a} ELSE MappedPorts) :
          look' = [look EXCEPT !.pc = "second", !.b = m, !.held = look.first]
    /\ UNCHANGED askVars

SecondFails ==
    /\ look.pc = "first"
    /\ look' = [look EXCEPT !.pc = "judged", !.verdict = "MAPPED_UNVERIFIED"]
    /\ UNCHANGED askVars

SequentialVerdict(a, b) ==
    IF a = b THEN "PORT_REUSE_OBSERVED" ELSE "MAPPED_UNVERIFIED"

Judgement(x) ==
    IF ~x.gate \/ ~x.first THEN SequentialVerdict(x.a, x.b)
    ELSE IF x.a = x.b THEN "EIM_OBSERVED_CONCURRENT" ELSE "MAPPED_UNVERIFIED"

Judge ==
    /\ look.pc = "second"
    /\ look' = [look EXCEPT !.pc = "judged", !.verdict = Judgement(look)]
    /\ UNCHANGED askVars

LookAgain ==
    /\ look.pc = "judged"
    /\ look' = NoLook
    /\ UNCHANGED askVars

ExchangeNext ==
    \/ \E c \in Exchangers :
          \/ Exchange(c) \/ Retransmit(c) \/ ServerAnswers(c) \/ TakeAnswer(c)
          \/ GiveUp(c) \/ TakeFailure(c)
    \/ ReaderDelivers \/ TransportDies \/ FailWaiter \/ CloseClient

LookNext ==
    \/ ObserveFirst \/ FirstDrops \/ ObserveSecond \/ SecondFails \/ Judge
    \/ LookAgain

StunNext == ExchangeNext \/ LookNext

StunSpec == StunInit /\ [][StunNext]_stunVars

-----------------------------------------------------------------------------
Answers == [tx : Nat, from : Servers \cup {"none"}, alt : Servers \cup {"none"}]
Asks == [pc : {"idle", "wait", "ok", "error"}, server : Servers \cup {"none"}, tx : Nat,
         visited : SUBSET Servers, hops : Nat, sent : Nat, mail : Answers, failed : BOOLEAN,
         got : Answers]
Looks == [pc : {"idle", "first", "second", "judged"}, gate : BOOLEAN, cone : BOOLEAN,
          first : BOOLEAN, held : BOOLEAN, a : Nat, b : Nat,
          verdict : {"none", "MAPPED_UNVERIFIED", "PORT_REUSE_OBSERVED", "EIM_OBSERVED_CONCURRENT"}]

(* The variables keep their types, and nobody asks, answers or is failed   *)
(* under an identifier that was not drawn (Exchange).                      *)
StunTypeOK ==
    /\ medium \in {"udp", "tcp"} /\ reader \in {"off", "up", "dead"}
    /\ ask \in [Exchangers -> Asks] /\ look \in Looks /\ shut \in BOOLEAN
    /\ lastTx \in Nat /\ lastTx <= MaxTx
    /\ \A tx \in doomed : tx \in Nat /\ 0 < tx /\ tx <= lastTx
    /\ \A p \in answers : p \in Answers /\ 0 < p.tx /\ p.tx <= lastTx
    /\ \A c \in Waiting : 0 < ask[c].tx /\ ask[c].tx <= lastTx

(* Two waiters never share an identifier, although every redirection draws *)
(* a new one; what lies in a waiter's mailbox answers its request, and a   *)
(* connection carries the answers of one server (Exchange, readerLoop).    *)
WaitersAreApart ==
    /\ \A c, d \in Waiting : c # d => ask[c].tx # ask[d].tx
    /\ \A c \in Waiting : ask[c].mail # NoAnswer =>
          ask[c].mail.tx = ask[c].tx /\ ask[c].mail.from = ask[c].server
    /\ medium = "tcp" => \A p \in answers, c \in Waiting :
          p.tx = ask[c].tx => p.from = ask[c].server

(* However answers are delayed, repeated or misdirected, the one an        *)
(* Exchange returns answers its own last request and comes from the server *)
(* that request was sent to (readerLoop's demultiplexing).                 *)
AnswerIsOwn ==
    \A c \in Exchangers :
        ask[c].pc = "ok" => ask[c].got.tx = ask[c].tx /\ ask[c].got.from = ask[c].server

(* Redirections end: one Exchange asks no server twice and follows no more *)
(* of them than it is allowed to, and never one to a server that is not    *)
(* global (Exchange, alternateAllowed).                                    *)
RedirectsEnd ==
    \A c \in Exchangers :
        ask[c].pc = "wait" =>
            /\ ask[c].hops <= MaxAlternates
            /\ IsFiniteSet(ask[c].visited)
            /\ Cardinality(ask[c].visited) = ask[c].hops + 1
            /\ ask[c].hops > 0 => ask[c].server \in Global

(* Nobody waits on a dead transport: a waiter knows, or is among those the *)
(* reader collected and has yet to tell, whenever it registered.  After a  *)
(* TCP Close the waiters have only their deadlines (readerLoop,            *)
(* transportDead).                                                         *)
WaitersAreTold ==
    reader = "dead" /\ ~(medium = "tcp" /\ shut) =>
        \A c \in Waiting : ask[c].failed \/ ask[c].tx \in doomed

(* Endpoint independence is claimed only of two equal mappings seen while  *)
(* the first connection was held open throughout (observeConcurrent).      *)
EvidenceIsEarned ==
    /\ look.verdict = "EIM_OBSERVED_CONCURRENT" => look.held /\ look.first /\ look.a = look.b
    /\ look.verdict # "none" => look.pc = "judged"
    /\ look.pc = "second" /\ look.first => look.held

(* An observation can be relied on: the answer is the one to the request,  *)
(* redirections end, nobody waits on a dead transport, and endpoint        *)
(* independence is claimed only of what was seen (Exchange, readerLoop,    *)
(* observeConcurrent).                                                     *)
StunInv ==
    /\ StunTypeOK /\ WaitersAreApart /\ AnswerIsOwn /\ RedirectsEnd /\ WaitersAreTold
    /\ EvidenceIsEarned
=============================================================================
