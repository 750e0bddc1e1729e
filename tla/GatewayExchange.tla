--------------------------- MODULE GatewayExchange ---------------------------
(***************************************************************************)
(* PCP and NAT-PMP transactions of several Forwards through the one        *)
(* adapter the data plane builds per mechanism (pcp/client.go,             *)
(* pcp/adapter.go, natpmp/client.go, natpmp/adapter.go).  A transaction    *)
(* copies the adapter's epoch baseline, sends at most MaxAttempts          *)
(* datagrams from a socket of its own, and hands the epoch it read back to *)
(* the adapter; no lock spans those steps.  The gateway counts its uptime, *)
(* loses every mapping when it reboots, refuses a foreign nonce (PCP), and *)
(* its datagrams are lost, duplicated and delayed within the life of the   *)
(* socket.                                                                 *)
(***************************************************************************)
EXTENDS Integers, FiniteSets

CONSTANTS Forwards,
          MaxAttempts,   \* ClientOptions.MaxAttempts
          Uptimes,       \* bound: the gateway's epochs in the model, 0 included
          MaxBoots,      \* bound: reboots
          MaxExchanges   \* bound: transactions started in one behaviour

ASSUME ExchangeAssumption ==
    /\ MaxAttempts \in Nat \ {0} /\ MaxBoots \in Nat /\ MaxExchanges \in Nat
    /\ Uptimes \subseteq Nat /\ 0 \in Uptimes

VARIABLES kind,      \* the protocol: "pcp" or "natpmp"
          uptime,    \* the gateway's epoch counter
          boot,      \* how often the gateway rebooted
          nat,       \* the nonce under which the gateway maps a Forward's port
          baseline,  \* Adapter.lastEpoch and epochSeen
          tx,        \* the transaction a Forward runs
          mine,      \* the mapping a Forward acquired
          started    \* transactions started so far

xVars == <<kind, uptime, boot, nat, baseline, tx, mine, started>>

NoNonce == 0
Unmapped == [nonce |-> NoNonce, epoch |-> 0, boot |-> 0, health |-> "none"]
Unseen == [seen |-> FALSE, epoch |-> 0, boot |-> 0]
NoAnswer == [code |-> "none", epoch |-> 0, boot |-> 0]
Resting == [op |-> "none", stage |-> "idle", base |-> Unseen, nonce |-> NoNonce, attempt |-> 0,
            asked |-> FALSE, answer |-> NoAnswer, rebooted |-> FALSE]
Operations == {"discover", "map", "renew", "delete"}
Tolerance == 2

(* observeEpoch of the client: a backward jump beyond the tolerance. *)
RolledBack(base, epoch) == base.seen /\ epoch - base.epoch < -Tolerance

(* epochState, then the first datagram: the baseline of the moment travels *)
(* with the transaction.                                                   *)
Asks(f, op, nonce) ==
    /\ tx[f].stage = "idle" /\ started < MaxExchanges
    /\ started' = started + 1
    /\ tx' = [tx EXCEPT ![f] = [Resting EXCEPT !.op = op, !.stage = "await", !.base = baseline,
                                              !.attempt = 1, !.asked = TRUE, !.nonce = nonce]]
    /\ UNCHANGED <<kind, uptime, boot, nat, baseline, mine>>

(* PCP: Map draws a fresh nonce, Renew and Delete carry the owning one. *)
PcpDiscover(f) == kind = "pcp" /\ Asks(f, "discover", NoNonce)
PcpMap(f) == kind = "pcp" /\ mine[f] = Unmapped /\ Asks(f, "map", started + 1)
PcpRenew(f) == kind = "pcp" /\ mine[f].health = "held" /\ Asks(f, "renew", mine[f].nonce)
PcpDelete(f) == kind = "pcp" /\ mine[f] # Unmapped /\ Asks(f, "delete", mine[f].nonce)

(* NAT-PMP has no nonce: the gateway tells mappings apart by their         *)
(* internal port alone.                                                    *)
PortIdentity == 1
NatpmpDiscover(f) == kind = "natpmp" /\ Asks(f, "discover", NoNonce)
NatpmpMap(f) == kind = "natpmp" /\ mine[f] = Unmapped /\ Asks(f, "map", PortIdentity)
NatpmpRenew(f) == kind = "natpmp" /\ mine[f].health = "held" /\ Asks(f, "renew", PortIdentity)
NatpmpDelete(f) == kind = "natpmp" /\ mine[f] # Unmapped /\ Asks(f, "delete", PortIdentity)

Begin(f) ==
    \/ PcpDiscover(f) \/ PcpMap(f) \/ PcpRenew(f) \/ PcpDelete(f)
    \/ NatpmpDiscover(f) \/ NatpmpMap(f) \/ NatpmpRenew(f) \/ NatpmpDelete(f)

(* The transaction failed: a mapping whose deletion went unanswered may or *)
(* may not exist any more.                                                 *)
Fails(f) ==
    /\ tx' = [tx EXCEPT ![f] = Resting]
    /\ mine' = IF tx[f].op = "delete" THEN [mine EXCEPT ![f].health = "doubtful"] ELSE mine

(* ErrNoResponse after the last attempt. *)
GiveUp(f) == Fails(f)

(* Back off and send the same packet again, or give up. *)
Retry(f) ==
    IF tx[f].attempt < MaxAttempts
    THEN tx' = [tx EXCEPT ![f].attempt = @ + 1, ![f].asked = TRUE, ![f].answer = NoAnswer] /\ UNCHANGED mine
    ELSE GiveUp(f)

Timeout(f) ==
    /\ tx[f].stage = "await" /\ tx[f].answer = NoAnswer
    /\ Retry(f)
    /\ UNCHANGED <<kind, uptime, boot, nat, baseline, started>>

(* The context of the caller ends, or a send fails. *)
Cancel(f) ==
    /\ tx[f].stage = "await"
    /\ Fails(f)
    /\ UNCHANGED <<kind, uptime, boot, nat, baseline, started>>

ObservedAgainstLatest(f) ==
    /\ tx' = [tx EXCEPT ![f].stage = "done", ![f].rebooted = RolledBack(baseline, tx[f].answer.epoch)]
    /\ UNCHANGED mine

(* A success is compared with the copy of the baseline, not with what other *)
(* transactions recorded since.                                            *)
Observed(f) ==
    /\ tx' = [tx EXCEPT ![f].stage = "done", ![f].rebooted = RolledBack(tx[f].base, tx[f].answer.epoch)]
    /\ UNCHANGED mine

ClassifiedAnyCode(f) == Observed(f)

(* awaitResponse: transient codes are retried, the others are final. *)
Classified(f) ==
    CASE tx[f].answer.code = "success" -> Observed(f)
      [] tx[f].answer.code = "busy"    -> Retry(f)
      [] tx[f].answer.code = "refused" -> Fails(f)

PcpAwaitAnnounce(f) == kind = "pcp" /\ tx[f].op = "discover" /\ Classified(f)
PcpAwaitResponse(f) == kind = "pcp" /\ tx[f].op # "discover" /\ Classified(f)

(* awaitMap and awaitPublic: every result code is definitive. *)
NatpmpAwaitMap(f) ==
    /\ kind = "natpmp" /\ tx[f].op # "discover"
    /\ IF tx[f].answer.code = "success" THEN Observed(f) ELSE Fails(f)

NatpmpAwaitPublic(f) ==
    /\ kind = "natpmp" /\ tx[f].op = "discover"
    /\ IF tx[f].answer.code = "success" THEN Observed(f) ELSE Fails(f)

Receive(f) ==
    /\ tx[f].stage = "await" /\ tx[f].answer # NoAnswer
    /\ PcpAwaitAnnounce(f) \/ PcpAwaitResponse(f) \/ NatpmpAwaitMap(f) \/ NatpmpAwaitPublic(f)
    /\ UNCHANGED <<kind, uptime, boot, nat, baseline, started>>

(* What the manager makes of a result.  Only renewOnce looks at            *)
(* ServerRebooted; the result of a reported reboot is not adopted.         *)
Adopted(f) ==
    LET granted == [nonce |-> tx[f].nonce, epoch |-> tx[f].answer.epoch,
                    boot |-> tx[f].answer.boot, health |-> "held"]
    IN  CASE tx[f].op = "map" -> granted
          [] tx[f].op = "renew" -> IF tx[f].rebooted THEN [mine[f] EXCEPT !.health = "lost"] ELSE granted
          [] tx[f].op = "delete" -> Unmapped
          [] OTHER -> mine[f]

(* Adapter.observeEpoch: the epoch of this answer becomes the baseline,    *)
(* whatever other transactions recorded since the copy was taken.          *)
Record(f) ==
    /\ tx[f].stage = "done"
    /\ baseline' = [seen |-> TRUE, epoch |-> tx[f].answer.epoch, boot |-> tx[f].answer.boot]
    /\ mine' = [mine EXCEPT ![f] = Adopted(f)]
    /\ tx' = [tx EXCEPT ![f] = Resting]
    /\ UNCHANGED <<kind, uptime, boot, nat, started>>
------------------------------------------------------------------------------
(* The gateway *)

Authorized(f) == kind = "natpmp" \/ nat[f] \in {NoNonce, tx[f].nonce}

Executed(f) ==
    CASE tx[f].op \in {"map", "renew"} -> [nat EXCEPT ![f] = tx[f].nonce]
      [] tx[f].op = "delete" -> [nat EXCEPT ![f] = NoNonce]
      [] OTHER -> nat

(* One copy of the request is served.  The first answer in the socket is   *)
(* the one that is read; a later one, or a lost one, changes nothing.      *)
Serves(f, code, lost) ==
    /\ tx[f].stage # "idle" /\ tx[f].asked
    /\ code = "success" => tx[f].op = "discover" \/ Authorized(f)
    /\ code = "busy" => kind = "pcp"
    /\ nat' = IF code = "success" THEN Executed(f) ELSE nat
    /\ tx' = [tx EXCEPT ![f].asked = FALSE,
                        ![f].answer = IF lost \/ @ # NoAnswer THEN @
                                      ELSE [code |-> code, epoch |-> uptime, boot |-> boot]]
    /\ UNCHANGED <<kind, uptime, boot, baseline, mine, started>>

Ages ==
    /\ \E later \in Uptimes : later > uptime /\ uptime' = later
    /\ UNCHANGED <<kind, boot, nat, baseline, tx, mine, started>>

Reboots ==
    /\ boot < MaxBoots
    /\ boot' = boot + 1 /\ uptime' = 0
    /\ nat' = [f \in Forwards |-> NoNonce]
    /\ UNCHANGED <<kind, baseline, tx, mine, started>>
------------------------------------------------------------------------------
XInit ==
    /\ kind \in {"pcp", "natpmp"}
    /\ uptime = 0 /\ boot = 0
    /\ nat = [f \in Forwards |-> NoNonce]
    /\ baseline = Unseen
    /\ tx = [f \in Forwards |-> Resting]
    /\ mine = [f \in Forwards |-> Unmapped]
    /\ started = 0

XNext ==
    \/ \E f \in Forwards :
          \/ Begin(f) \/ Timeout(f) \/ Receive(f) \/ Record(f) \/ Cancel(f)
          \/ Serves(f, "success", FALSE) \/ Serves(f, "success", TRUE)
          \/ Serves(f, "busy", FALSE) \/ Serves(f, "refused", FALSE)
    \/ Ages \/ Reboots

XSpec == XInit /\ [][XNext]_xVars
------------------------------------------------------------------------------
Answers == [code : {"none", "success", "busy", "refused"}, epoch : Uptimes, boot : 0..MaxBoots]
Baselines == [seen : BOOLEAN, epoch : Uptimes, boot : 0..MaxBoots]

Transactions ==
    [op : Operations \cup {"none"}, stage : {"idle", "await", "done"}, base : Baselines,
     nonce : 0..MaxExchanges, attempt : 0..MaxAttempts, asked : BOOLEAN, answer : Answers,
     rebooted : BOOLEAN]
Mappings ==
    [nonce : 0..MaxExchanges, epoch : Uptimes, boot : 0..MaxBoots,
     health : {"none", "held", "lost", "doubtful"}]

(* The adapter, the gateway and every transaction stay well formed, and no *)
(* transaction sends more than MaxAttempts datagrams.                      *)
XTypeOK ==
    /\ kind \in {"pcp", "natpmp"} /\ uptime \in Uptimes /\ boot \in 0..MaxBoots
    /\ nat \in [Forwards -> 0..MaxExchanges]
    /\ baseline \in Baselines /\ started \in 0..MaxExchanges
    /\ tx \in [Forwards -> Transactions] /\ mine \in [Forwards -> Mappings]

(* A mapping a Forward believes to hold is held by the gateway under the   *)
(* Forward's own nonce, as long as the gateway has not rebooted since the  *)
(* grant: lost answers, retransmissions and refused requests of the other  *)
(* transactions do not separate the two, and no deletion is under way.     *)
HeldIsMapped ==
    \A f \in Forwards :
        mine[f].health = "held" /\ mine[f].boot = boot /\ tx[f].op # "delete"
            => nat[f] = mine[f].nonce

(* What the agent read of the gateway's clock is in the past: an epoch of  *)
(* the same boot is not ahead of the counter, and the copy a transaction   *)
(* took of the baseline is not ahead of its answer (epochState,            *)
(* observeEpoch).                                                          *)
ReadBefore(a, epoch, n) == a.boot < n \/ (a.boot = n /\ a.epoch <= epoch)

EpochsInPast ==
    /\ ReadBefore(baseline, uptime, boot)
    /\ \A f \in Forwards :
          /\ ReadBefore(tx[f].base, uptime, boot) /\ ReadBefore(tx[f].answer, uptime, boot)
          /\ mine[f].boot <= boot
          /\ tx[f].answer # NoAnswer => ReadBefore(tx[f].base, tx[f].answer.epoch, tx[f].answer.boot)

(* What an answer in the socket says of the gateway: one answer per        *)
(* datagram, the nonce of the mapping it is about, and for a success the   *)
(* state it left behind, until a reboot (awaitResponse, Map, Renew,        *)
(* Delete).                                                                *)
OwnNonce(n) == n # NoNonce /\ (kind = "natpmp" => n = PortIdentity)

AnswerIsTrue(f) ==
    /\ tx[f].answer # NoAnswer => tx[f].answer.code # "none" /\ ~tx[f].asked
    /\ tx[f].stage = "idle" => tx[f] = Resting
    /\ tx[f].stage # "idle" => tx[f].op \in Operations
    /\ tx[f].stage = "done" => tx[f].answer.code = "success"
    /\ tx[f].rebooted => tx[f].stage = "done" /\ RolledBack(tx[f].base, tx[f].answer.epoch)
    /\ tx[f].op = "map" => mine[f] = Unmapped /\ OwnNonce(tx[f].nonce)
    /\ tx[f].op \in {"renew", "delete"} => mine[f] # Unmapped /\ tx[f].nonce = mine[f].nonce
    /\ mine[f] # Unmapped => OwnNonce(mine[f].nonce)
    /\ tx[f].answer.code = "success" /\ tx[f].op = "delete" => nat[f] = NoNonce
    /\ tx[f].answer.code = "success" /\ tx[f].op \in {"map", "renew"} /\ tx[f].answer.boot = boot
          => nat[f] = tx[f].nonce

(* What a mapping exchange leaves in memory is what the gateway has, and   *)
(* no transaction sends more than it may (exchange, Map, Renew).           *)
ExchangeInv ==
    XTypeOK /\ HeldIsMapped /\ EpochsInPast /\ \A f \in Forwards : AnswerIsTrue(f)

(* What a transaction concludes is true.  A deletion that reports success  *)
(* has taken the mapping off the gateway: silence after the last attempt   *)
(* is never taken for success.  A mapping is reported lost to a reboot     *)
(* only when the gateway rebooted after the answer the transaction was     *)
(* compared with, however concurrent answers overtake each other (Delete,  *)
(* Observed).                                                              *)
ConclusionsAreTrue ==
    [][\A f \in Forwards :
          /\ mine[f] # Unmapped /\ mine'[f] = Unmapped => nat'[f] # mine[f].nonce
          /\ mine[f].health = "held" /\ mine'[f].health = "lost"
                => tx[f].answer.boot > tx[f].base.boot]_xVars
==============================================================================
