--------------------------- MODULE ProbeLifecycle ---------------------------
(***************************************************************************)
(* The Agent's side of a reachability probe: the durable ARM1 row, the      *)
(* ingress workers that consume it once, the ACK1 written on the same       *)
(* path, the RCT1 receipt retried until the Controller acknowledges it, and *)
(* the sweeps that end rows and replay fences                               *)
(* (internal/agent/reconcile/probe.go, probe_udp.go, localstate/probe.go).  *)
(*                                                                          *)
(* A step is one critical section of ProbeManager.mu or one store           *)
(* transaction, so a worker, the sweeper, the receipt loop and the command  *)
(* interleave between them.  Times are ticks: an ARM1 lives TTL of them, a  *)
(* consumed probe Window more.  A frame stands for its challenge: frames    *)
(* that fail the binding or signature checks are dropped and not modelled.  *)
(***************************************************************************)
EXTENDS Integers, FiniteSets

CONSTANTS
  Probes, Challenges, Workers,
  Commanded,             \* the probes that commands arm; others are left from before
  TTL, Window,           \* life of an arm, and of a consumed row beyond it
  MaxActive, MaxReplay,  \* capacity of the operation and replay maps
  MaxNow, MaxCrashes, MaxFails

NoRow == [armed |-> FALSE]
NoOp == [deadline |-> 0, used |-> FALSE]

VARIABLES
  udp,         \* probes of UDP Forwards, none or all, fixed at the start
  row,         \* durable armed-probe rows
  up, op, replay,  \* ops and replay of the manager; replay 0 is none
  quarantined, \* recoveryErr is set
  sweeping,    \* probes sweep found unconsumed and is about to delete, mu held
  worker,      \* per worker: [pc, probe, challenge, mine]
  arm,         \* the probe_arm command: [pc, probe, deadline]
  receipts,    \* receipts the Controller has got
  now,
  answered,    \* per probe, the last ACK1 this process wrote: [challenge, until]
  crashes, fails

manager == <<up, op, replay, quarantined, sweeping>>
threads == <<worker, arm>>
bounds == <<udp, now, crashes>>
vars == <<udp, row, up, op, replay, quarantined, sweeping, worker, arm, receipts,
          now, answered, crashes, fails>>

Resting == [pc |-> "idle", probe |-> "none", challenge |-> "none", mine |-> FALSE]
NoAnswer == [challenge |-> "none", until |-> 0]
NoArm == [pc |-> "idle", probe |-> "none", deadline |-> 0]

Row(deadline) == [armed |-> TRUE, deadline |-> deadline, consumed |-> FALSE,
                  challenge |-> "none", ackSent |-> FALSE, sent |-> FALSE,
                  acked |-> FALSE, until |-> 0]

\* What a manager with other capacities, or before a setback of the clock, may
\* have left: an arm, or a consumed row with its receipt under way.
LeftRows == {NoRow, Row(1 + TTL),
             [Row(1 + TTL) EXCEPT !.consumed = TRUE, !.challenge = CHOOSE c \in Challenges : TRUE,
                                  !.ackSent = TRUE, !.sent = TRUE, !.until = 1 + TTL + Window]}

\* A manager that runs on an empty store, or one about to start on what an
\* earlier one left in it.
Init ==
  /\ udp \in {{}, Probes}
  /\ \/ up = TRUE /\ row = [p \in Probes |-> NoRow] /\ crashes = 0 /\ fails = 0
     \/ up = FALSE /\ row \in [Probes -> LeftRows] /\ crashes = MaxCrashes /\ fails = MaxFails
  /\ op = [p \in Probes |-> NoOp] /\ replay = [p \in Probes |-> 0]
  /\ quarantined = FALSE /\ sweeping = {}
  /\ worker = [w \in Workers |-> Resting] /\ arm = NoArm
  /\ answered = [p \in Probes |-> NoAnswer]
  /\ receipts = {} /\ now = 1

Armed(p) == row[p].armed
Consumed(p) == row[p].armed /\ row[p].consumed
Active == {p \in Probes : op[p] # NoOp}
Replayed == {p \in Probes : replay[p] # 0}

\* hasArmedBySource: the gate keeps connections of the probe's source from
\* the business path.
Diverts(p) == replay[p] # 0 \/ (op[p] # NoOp /\ ~op[p].used)

Fail == fails < MaxFails /\ fails' = fails + 1

-----------------------------------------------------------------------------
(* Expiry.                                                                  *)

\* What ProbeManager.sweep removes; its callers sweep before they look.
Expired(p) == (op[p] # NoOp /\ now >= op[p].deadline) \/ (replay[p] # 0 /\ now >= replay[p])
Swept == sweeping = {} /\ \A p \in Probes : ~Expired(p)

\* sweep in memory, with mu held: expired operations and replay entries go;
\* operations whose row is not consumed yet are to be deleted next.
Sweep ==
  /\ up /\ sweeping = {}
  /\ \E p \in Probes : Expired(p)
  /\ LET old == {p \in Active : now >= op[p].deadline}
     IN /\ op' = [p \in Probes |-> IF p \in old THEN NoOp ELSE op[p]]
        /\ sweeping' = {p \in old : ~Consumed(p)}
  /\ replay' = [p \in Probes |-> IF now >= replay[p] THEN 0 ELSE replay[p]]
  /\ UNCHANGED <<row, up, quarantined, threads, receipts, bounds, answered, fails>>

\* The DeleteArmedProbe of sweep, a transaction of its own.
SweepDelete(p) ==
  /\ p \in sweeping
  /\ sweeping' = sweeping \ {p}
  /\ row' = [row EXCEPT ![p] = NoRow]
  /\ UNCHANGED <<up, op, replay, quarantined, threads, receipts, bounds, answered,
                 fails>>

\* SweepArmedProbeTombstonesPage: one transaction reads and deletes.
Overdue(p) == Armed(p) /\ now >= (IF row[p].consumed THEN row[p].until ELSE row[p].deadline)

SweepTombstones ==
  /\ up
  /\ \E p \in Probes : Overdue(p)
  /\ row' = [p \in Probes |-> IF Overdue(p) THEN NoRow ELSE row[p]]
  /\ UNCHANGED <<manager, threads, receipts, bounds, answered, fails>>

-----------------------------------------------------------------------------
(* The probe_arm command.                                                   *)

\* PrepareProbeArm: room for another operation, deadline from the clock.
Prepare(p) ==
  /\ up /\ arm.pc = "idle" /\ sweeping = {}
  /\ Cardinality(Active) < MaxActive \/ p \in Active
  /\ now + TTL + Window <= MaxNow
  /\ arm' = [pc |-> "commit", probe |-> p, deadline |-> now + TTL]
  /\ UNCHANGED <<row, manager, worker, receipts, bounds, answered, fails>>

\* CommitProbeAdmission: a consumed id is refused, the same arm replaced.
CommitArm ==
  /\ arm.pc = "commit"
  /\ IF Consumed(arm.probe)
     THEN arm' = NoArm /\ UNCHANGED row
     ELSE /\ arm' = [arm EXCEPT !.pc = "publish"]
          /\ row' = [row EXCEPT ![arm.probe] = Row(arm.deadline)]
  /\ UNCHANGED <<manager, worker, receipts, bounds, answered, fails>>

\* The operation is published; a worker keeps its pointer to the old one.
PublishArm ==
  /\ arm.pc = "publish" /\ sweeping = {}
  /\ op' = [op EXCEPT ![arm.probe] = [deadline |-> arm.deadline, used |-> FALSE]]
  /\ worker' = [w \in Workers |-> IF worker[w].probe = arm.probe
                                   THEN [worker[w] EXCEPT !.mine = FALSE] ELSE worker[w]]
  /\ arm' = NoArm
  /\ UNCHANGED <<row, up, replay, quarantined, sweeping, receipts, bounds,
                 answered, fails>>

-----------------------------------------------------------------------------
(* Ingress.                                                                 *)

Step(w, pc) == worker' = [worker EXCEPT ![w].pc = pc]
Rest(w) == worker' = [worker EXCEPT ![w] = Resting]
Take(w, p, c, pc) == worker' = [worker EXCEPT ![w] =
                       [pc |-> pc, probe |-> p, challenge |-> c, mine |-> TRUE]]

\* A frame that finds an outstanding operation and room for its replay entry.
Matches(p) ==
  /\ up /\ Swept /\ ~quarantined
  /\ replay[p] = 0 /\ op[p] # NoOp /\ ~op[p].used
  /\ Cardinality(Replayed) < MaxReplay

Fence(p) ==
  /\ op' = [op EXCEPT ![p].used = TRUE]
  /\ replay' = [replay EXCEPT ![p] = op[p].deadline + Window]

\* handleIngress under mu: the operation is used, the replay entry made.
Claim(w, p, c) ==
  /\ worker[w].pc = "idle"
  /\ p \notin udp /\ Matches(p)
  /\ Fence(p)
  /\ Take(w, p, c, "consume")
  /\ UNCHANGED <<row, up, quarantined, sweeping, arm, receipts, bounds, answered,
                 fails>>

Consumption(p, c) == [row[p] EXCEPT !.consumed = TRUE, !.challenge = c,
                        !.ackSent = FALSE, !.sent = FALSE, !.until = replay[p]]

\* MarkArmedProbeConsumedWithACK without mu; an error of it, or of the write
\* deadline, gives operation and replay entry back.
Consume(w) ==
  LET p == worker[w].probe
      c == worker[w].challenge
      GiveBack ==
        /\ Rest(w)
        /\ op' = [op EXCEPT ![p].used = @ /\ ~worker[w].mine]
        /\ replay' = [replay EXCEPT ![p] = 0]
        /\ UNCHANGED row
  IN
  /\ worker[w].pc = "consume"
  /\ \/ /\ Armed(p) /\ (Consumed(p) => row[p].challenge = c)
        /\ row' = [row EXCEPT ![p] = IF Consumed(p) THEN @ ELSE Consumption(p, c)]
        /\ Step(w, "write")
        /\ UNCHANGED <<op, replay, fails>>
     \/ /\ sweeping = {}
        /\ ~Armed(p) \/ (Consumed(p) /\ row[p].challenge # c)
        /\ GiveBack /\ UNCHANGED fails
     \/ sweeping = {} /\ Fail /\ GiveBack
  /\ UNCHANGED <<up, quarantined, sweeping, arm, receipts, bounds, answered>>

\* HandleUDPProbe claims and consumes with mu held; an error changes nothing.
ClaimUDP(w, p, c) ==
  /\ worker[w].pc = "idle"
  /\ p \in udp /\ Matches(p)
  /\ Armed(p) /\ (Consumed(p) => row[p].challenge = c)
  /\ Fence(p)
  /\ row' = [row EXCEPT ![p] = IF Consumed(p) THEN @
                               ELSE [Consumption(p, c) EXCEPT !.until = op[p].deadline + Window]]
  /\ Take(w, p, c, "write")
  /\ UNCHANGED <<up, quarantined, sweeping, arm, receipts, bounds, answered, fails>>

\* The replay as it would be if it answered any challenge of the probe.
ReplayAnyAck(w, p, c) ==
  /\ worker[w].pc = "idle"
  /\ up /\ Swept /\ ~quarantined /\ replay[p] # 0
  /\ Consumed(p) /\ ~row[p].ackSent
  /\ Take(w, p, c, "rewrite")
  /\ UNCHANGED <<row, manager, arm, receipts, bounds, answered, fails>>

\* replayPendingACK, and the replay branch of HandleUDPProbe: only the very
\* frame whose ACK1 is recorded and not yet sent is answered again.
ReplayAck(w, p, c) ==
  /\ worker[w].pc = "idle"
  /\ up /\ Swept /\ ~quarantined /\ replay[p] # 0
  /\ Consumed(p) /\ ~row[p].ackSent /\ row[p].challenge = c
  /\ Take(w, p, c, "rewrite")
  /\ UNCHANGED <<row, manager, arm, receipts, bounds, answered, fails>>

\* The ACK1 is written, or the connection breaks and the worker ends.
WriteAck(w) ==
  /\ worker[w].pc \in {"write", "rewrite"}
  /\ \/ /\ answered' = [answered EXCEPT ![worker[w].probe] =
             [challenge |-> worker[w].challenge,
              until |-> IF Consumed(worker[w].probe) THEN row[worker[w].probe].until ELSE @.until]]
        /\ Step(w, IF worker[w].pc = "write" THEN "mark" ELSE "remark")
        /\ UNCHANGED fails
     \/ Fail /\ Rest(w) /\ UNCHANGED answered
  /\ UNCHANGED <<row, manager, arm, receipts, bounds>>

\* MarkArmedProbeACKSent; a row that is gone is ignored.
MarkAckSent(w) ==
  /\ worker[w].pc \in {"mark", "remark"}
  /\ LET p == worker[w].probe
     IN row' = IF Armed(p) THEN [row EXCEPT ![p].ackSent = TRUE] ELSE row
  /\ IF worker[w].pc = "mark" THEN Step(w, "send") ELSE Rest(w)
  /\ UNCHANGED <<manager, arm, receipts, bounds, answered, fails>>

\* The first send of the receipt, which may fail without further notice.
SendReceipt(w) ==
  /\ worker[w].pc = "send"
  /\ LET p == worker[w].probe
     IN \/ /\ receipts' = receipts \cup {p}
           /\ row' = IF Armed(p) THEN [row EXCEPT ![p].sent = TRUE] ELSE row
           /\ UNCHANGED fails
        \/ Fail /\ UNCHANGED <<row, receipts>>
  /\ Rest(w)
  /\ UNCHANGED <<manager, arm, bounds, answered>>

\* RetryPendingReceipts as it would be if a sent receipt needed no more.
RetryReceiptUnsent(p) ==
  /\ up
  /\ Consumed(p) /\ ~row[p].acked /\ ~row[p].sent
  /\ receipts' = receipts \cup {p}
  /\ row' = [row EXCEPT ![p].sent = TRUE]
  /\ UNCHANGED <<manager, threads, bounds, answered, fails>>

\* RetryPendingReceipts: every consumed row until it is acknowledged; that
\* the transport took it does not count.
RetryReceipt(p) ==
  /\ up
  /\ Consumed(p) /\ ~row[p].acked
  /\ receipts' = receipts \cup {p}
  /\ row' = [row EXCEPT ![p].sent = TRUE]
  /\ UNCHANGED <<manager, threads, bounds, answered, fails>>

\* AcknowledgeArmedProbeReceipt: the row stays, as a fence.
Acknowledge(p) ==
  /\ up /\ p \in receipts
  /\ receipts' = receipts \ {p}
  /\ row' = IF Consumed(p) THEN [row EXCEPT ![p].acked = TRUE] ELSE row
  /\ UNCHANGED <<manager, threads, bounds, answered, fails>>

\* The Controller went away with the receipt unprocessed.
LoseReceipt(p) ==
  /\ p \in receipts /\ Fail
  /\ receipts' = receipts \ {p}
  /\ UNCHANGED <<row, manager, threads, bounds, answered>>

-----------------------------------------------------------------------------
(* The process.                                                             *)

Crash ==
  /\ up /\ crashes < MaxCrashes
  /\ crashes' = crashes + 1
  /\ up' = FALSE
  /\ op' = [p \in Probes |-> NoOp] /\ replay' = [p \in Probes |-> 0]
  /\ sweeping' = {} /\ quarantined' = FALSE
  /\ answered' = [p \in Probes |-> NoAnswer]
  /\ worker' = [w \in Workers |-> Resting] /\ arm' = NoArm
  /\ UNCHANGED <<udp, row, receipts, now, fails>>

\* What makes the recovery incomplete, and as it would be if a full map were
\* no reason.
OnlyFutureRows(future, fences, keep, arms, take) == future # {}

Incomplete(future, fences, keep, arms, take) == future # {} \/ keep # fences \/ take # arms

\* NewProbeManager: rows past their end are deleted, the others become
\* operations or replay entries; what does not fit, or lies in the future of
\* a clock that went back, quarantines the manager.
Boot ==
  LET over == {p \in Probes : Overdue(p)}
      future == {p \in Probes : Armed(p) /\ now < row[p].deadline - TTL}
      fences == {p \in Probes : Consumed(p)} \ (over \cup future)
      arms == {p \in Probes : Armed(p) /\ ~Consumed(p)} \ (over \cup future)
  IN
  /\ ~up
  /\ up' = TRUE
  /\ row' = [p \in Probes |-> IF p \in over THEN NoRow ELSE row[p]]
  /\ \E keep \in SUBSET fences, take \in SUBSET arms :
       /\ Cardinality(keep) = IF Cardinality(fences) > MaxReplay THEN MaxReplay ELSE Cardinality(fences)
       /\ Cardinality(take) = IF Cardinality(arms) > MaxActive THEN MaxActive ELSE Cardinality(arms)
       /\ replay' = [p \in Probes |-> IF p \in keep THEN row[p].until ELSE 0]
       /\ op' = [p \in Probes |-> IF p \in take THEN [deadline |-> row[p].deadline, used |-> FALSE]
                                                ELSE NoOp]
       /\ quarantined' = Incomplete(future, fences, keep, arms, take)
  /\ UNCHANGED <<sweeping, threads, udp, receipts, now, answered, crashes, fails>>

\* Time passes, except that signing two frames and one transaction takes less
\* than the replay window; while the process is down the clock may be set back.
Tick ==
  /\ now < MaxNow
  /\ \A w \in Workers : worker[w].pc = "consume" => now + 1 < replay[worker[w].probe]
  /\ now' = now + 1
  /\ UNCHANGED <<row, manager, threads, receipts, udp, answered, crashes, fails>>

ClockBack ==
  /\ ~up /\ now > 1 /\ Fail
  /\ now' = now - 1
  /\ UNCHANGED <<row, manager, threads, receipts, udp, answered, crashes>>

-----------------------------------------------------------------------------
Ingress ==
  \E w \in Workers :
    \/ \E p \in Probes, c \in Challenges : Claim(w, p, c) \/ ClaimUDP(w, p, c) \/ ReplayAck(w, p, c)
    \/ Consume(w) \/ WriteAck(w) \/ MarkAckSent(w) \/ SendReceipt(w)

Next ==
  \/ Sweep \/ SweepTombstones \/ CommitArm \/ PublishArm \/ Ingress
  \/ \E p \in Probes :
       SweepDelete(p) \/ RetryReceipt(p) \/ Acknowledge(p) \/ LoseReceipt(p)
  \/ \E p \in Commanded : Prepare(p)
  \/ Crash \/ Boot \/ Tick \/ ClockBack

Spec == Init /\ [][Next]_vars

\* The receipt ticker, the process manager, and a Controller that processes
\* a receipt it gets again and again; for the probes that commands arm, whose
\* rows may be left from before as well.
Fairness ==
  /\ WF_vars(Boot)
  /\ \A p \in Commanded : WF_vars(RetryReceipt(p)) /\ SF_vars(Acknowledge(p))

FairSpec == Spec /\ Fairness

-----------------------------------------------------------------------------
\* Rows, maps and clock have their types, a consumed row names its challenge
\* and outlives its arm, and the maps stay within their capacities.
TypeOK ==
  /\ \A p \in Probes : row[p] = NoRow \/ row[p] \in
       [armed : {TRUE}, deadline : 1..MaxNow, consumed : BOOLEAN, ackSent : BOOLEAN,
        challenge : Challenges \cup {"none"}, sent : BOOLEAN, acked : BOOLEAN, until : 0..MaxNow]
  /\ \A p \in Probes : Consumed(p) => row[p].challenge \in Challenges /\ row[p].until > row[p].deadline - 1
  /\ op \in [Probes -> [deadline : 0..MaxNow, used : BOOLEAN]]
  /\ replay \in [Probes -> 0..MaxNow]
  /\ Cardinality(Active) <= MaxActive /\ Cardinality(Replayed) <= MaxReplay
  /\ up \in BOOLEAN /\ quarantined \in BOOLEAN /\ sweeping \subseteq Probes
  /\ receipts \subseteq Probes /\ now \in 1..MaxNow

\* One process never answers two different challenges for one probe while
\* the consumption is remembered: concurrent frames, re-arming, sweeps and
\* failed writes included (op.used and the replay map).
OneAnswerPerRun ==
  [][\A p \in Probes : up /\ now < answered[p].until
       => answered'[p].challenge \in {answered[p].challenge, "none"}]_vars

\* A durable consumption fences its source in memory too, so no connection of
\* that source reaches the business path before the receipt deadline, unless
\* the manager is quarantined and accepts nothing (hasArmedBySource, NewProbeManager).
DurableFenceHolds ==
  \A p \in Probes :
    up /\ ~quarantined /\ Consumed(p) /\ now < row[p].until => Diverts(p)

\* A probe that was consumed durably stays consumed for the ingress path, and
\* rows and maps stay within their lifetimes and capacities (ConsumeProbe, Boot).
ProbeInv == TypeOK /\ DurableFenceHolds

\* A consumed probe's receipt gets acknowledged, whatever sends are lost, as
\* long as its row is kept: a transport that took it is not the end
\* (RetryPendingReceipts).
ReceiptGetsAcknowledged ==
  \A p \in Commanded : Consumed(p) ~> (~Consumed(p) \/ row[p].acked)

\* probe.go, sweep: a consumed row lives until its ReceiptDeadline, not until
\* the deadline of the arm.
ConsumedIsKept ==
  [][\A p \in Probes : Consumed(p) /\ now < row[p].until => Consumed(p)']_vars
=============================================================================
