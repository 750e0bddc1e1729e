--------------------------- MODULE ControlJournal ---------------------------
(***************************************************************************)
(* The durable command journal of the Agent and the control session that   *)
(* drives it.                                                              *)
(*                                                                         *)
(* internal/agent/localstate/journal.go keeps, in one bbolt store, the     *)
(* inbox, the operation journal (RECEIVED, INTENT_PERSISTED, APPLYING,     *)
(* APPLIED or NACKED), the semantic results, the outbox (PENDING, CLAIMED, *)
(* SENT, SEMANTIC_ACKED) and the receipt tombstones.  Each exported method *)
(* is one bbolt transaction, hence one atomic step here.                   *)
(*                                                                         *)
(* internal/agent/control/session.go runs two goroutines per session: the  *)
(* frame loop (variable frame), which handles commands and Controller      *)
(* receipts one at a time, and the outbox pump (variable pump).  They race *)
(* on the outbox rows.  The reconnect loop (variable conn) joins both      *)
(* before it starts a new handshake.  A crash may strike between any two   *)
(* transactions; the bbolt store survives it and nothing else does.        *)
(*                                                                         *)
(* The Controller is external: it re-sends every command it has not        *)
(* garbage-collected on each new session, persists each semantic result it *)
(* receives before it sends a receipt, and garbage-collects a command only *)
(* on the Agent's message_receipt.  What it has sent and the Agent has not *)
(* read is a set: it may send in any order.  What the Agent writes either  *)
(* reaches it or dies with the transport.                                  *)
(***************************************************************************)
EXTENDS Naturals

CONSTANTS
    Cmds,         \* command ids; the operation id C is the message id
    Dels,         \* deletion operation ids D; they have no journal row
    NoOp,         \* "reports nothing"
    ReportOf,     \* the id under which a command's handler queues its own result
    PayloadCmds,  \* the desired and forward_delete commands
    Legacy,       \* commands whose journal row an older client wrote
    Sessions,     \* session ids
    NoSession,    \* no session was ever accepted
    MaxEpoch      \* bound: the highest connection epoch the Controller grants

Ops == Cmds \cup Dels

ASSUME ConstantsAssumption ==
    /\ Cmds \cap Dels = {}
    /\ NoOp \notin Ops
    /\ ReportOf \in [Cmds -> Ops \cup {NoOp}]
    /\ \A c \in Cmds : ReportOf[c] \in Dels \cup {c, NoOp}
    /\ PayloadCmds \subseteq Cmds
    /\ Legacy \subseteq Cmds
    /\ NoSession \notin Sessions
    /\ MaxEpoch \in Nat

Phases == {"NONE", "RECEIVED", "INTENT_PERSISTED", "APPLYING", "APPLIED", "NACKED"}
Stages == {"NONE", "PENDING", "CLAIMED", "SENT", "SEMANTIC_ACKED"}

\* Semantic results.  "recovered" is the NACK of RecoverApplyingOperations,
\* "renacked" the one QueueNackedResult builds for the same reason: the two
\* JSON texts differ in the "recovered" member.
Results == {"applied", "nacked", "recovered", "renacked",
            "deleted", "deleteFailed", "acked"}
NoResult == "none"

VARIABLES
    session,   \* durable: the accepted epoch and session id
    accepted,  \* history: every epoch and session pair ever accepted
    inbox,     \* durable: the command ids with a dedup row
    journal,   \* durable: one row per command, phase "NONE" when absent
    result,    \* durable: semantic result per operation
    outbox,    \* durable: outbox row per operation, stage "NONE" when absent
    receipt,   \* durable: receipt tombstone per operation, holding its payload
    fence,     \* durable: deletion fence of each D, owned by the delete path
    link,      \* the transport: "up" or "down"
    conn,      \* the reconnect loop: where the handshake stands
    frame,     \* the frame loop: its step, the operation and the outcome so far
    pump,      \* the outbox pump: its step, the operation and the result it read
    c2a,       \* frames of this session the Agent has not read yet
    ctl,       \* the Controller: its outbox and the results it holds
    effects    \* history: how often OnCommand ran for each command

durable == <<session, accepted, inbox, journal, result, outbox, receipt, fence>>
threads == <<link, conn, frame, pump>>
vars == <<durable, threads, c2a, ctl, effects>>

Row == [phase: Phases, reason: {"none", "error", "recovered"},
        payload: BOOLEAN, links: BOOLEAN, pending: BOOLEAN]
NoRow == [phase |-> "NONE", reason |-> "none",
          payload |-> FALSE, links |-> FALSE, pending |-> FALSE]

CommandSteps == {"intent", "applying", "run", "report", "finish",
                 "converge", "converged", "recover", "requeueNack"}
ReceiptSteps == {"rcClaim", "rcSent", "rcAck", "rcAccept"}
FrameSteps == {"idle"} \cup CommandSteps \cup ReceiptSteps
PumpSteps == {"idle", "claim", "write", "sent", "rcpt"}

IdleFrame == [pc |-> "idle", op |-> NoOp, ok |-> FALSE, clean |-> FALSE]
IdlePump == [pc |-> "idle", op |-> NoOp, val |-> NoResult]

Messages == [type: {"command"}, op: Cmds] \cup [type: {"receipt"}, op: Ops]
Command(c) == [type |-> "command", op |-> c]
Receipt(o) == [type |-> "receipt", op |-> o]

-----------------------------------------------------------------------------
(* Definitions whose name ends in a phrase after "_" are faulty variants of *)
(* the one that follows them: each is a bug this code could have, and makes *)
(* one of the properties below fail.                                        *)

(* classifyForwardDeletions: a payload-bearing command with an ABSENT spec. *)
Linked(c) == c \in PayloadCmds /\ ReportOf[c] \in Dels

Queued(o) == outbox[o].stage # "NONE"

(* putForwardDeleteIntentTx for a set of deletion ids: a fence that already *)
(* exists, pending or final, is left alone.                                 *)
PutIntents(D) ==
    fence' = [d \in Dels |-> IF d \in D /\ fence[d] = "none" THEN "pending" ELSE fence[d]]

(* recordResultAndQueue for a set of operations in one transaction.  It     *)
(* fails when the operation is receipted, or when no outbox row exists but  *)
(* a different result does; an existing row is never touched.               *)
RecordFails_NoReceiptCheck(o, r) == ~Queued(o) /\ result[o] \notin {NoResult, r}

RecordFails_QueuedRowCompared(o, r) == receipt[o] # NoResult \/ result[o] \notin {NoResult, r}

RecordFails(o, r) ==
    \/ receipt[o] # NoResult
    \/ ~Queued(o) /\ result[o] \notin {NoResult, r}

RecordResultAndQueue_Overwrites(S, r) ==
    /\ result' = [o \in Ops |-> IF o \in S THEN r ELSE result[o]]
    /\ outbox' = [o \in Ops |-> IF o \in S THEN [stage |-> "PENDING", val |-> r]
                                           ELSE outbox[o]]

RecordResultAndQueue(S, r) ==
    /\ result' = [o \in Ops |-> IF o \in S /\ ~Queued(o) THEN r ELSE result[o]]
    /\ outbox' = [o \in Ops |-> IF o \in S /\ ~Queued(o)
                                THEN [stage |-> "PENDING", val |-> r]
                                ELSE outbox[o]]

SetPhase(c, p) == journal' = [journal EXCEPT ![c].phase = p]
SetStage(o, s) == outbox' = [outbox EXCEPT ![o].stage = s]

(* stopSession: the transport is gone, the goroutine returns.               *)
CloseSession ==
    /\ link' = "down"
    /\ c2a' = {}
    /\ frame' = IdleFrame

FrameGoto(pc) == frame' = [frame EXCEPT !.pc = pc]

-----------------------------------------------------------------------------
(* The handshake and the reconnect loop.                                    *)

AcceptsSession_NoSplitBrainCheck(e, s) == e >= session.epoch

(* handshake and AdvanceSession: no lower epoch, and no second session id   *)
(* at the accepted epoch.                                                   *)
AcceptsSession(e, s) ==
    \/ e > session.epoch
    \/ e = session.epoch /\ session.id \in {NoSession, s}

(* client.Wait has joined the workers of the previous session.  The welcome *)
(* is the Controller's: it may offer any epoch and session.                 *)
AdvanceSession ==
    /\ link = "down" /\ conn = "idle"
    /\ frame.pc = "idle" /\ pump.pc = "idle"
    /\ \E e \in 1..MaxEpoch, s \in Sessions :
        /\ AcceptsSession(e, s)
        /\ session' = [epoch |-> e, id |-> s]
        /\ accepted' = accepted \cup {<<e, s>>}
    /\ conn' = "advanced"
    /\ UNCHANGED <<inbox, journal, result, outbox, receipt, fence, link, frame, pump,
                   c2a, ctl, effects>>

(* RecoverApplyingOperations: every APPLYING row that owes no cleanup is    *)
(* NACKed and its result queued, all in one transaction that fails as one.  *)
Recoverable ==
    {c \in Cmds : /\ journal[c].phase = "APPLYING"
                  /\ c \in PayloadCmds => journal[c].payload
                  /\ ~journal[c].pending}

RecoveryFails == \E c \in Recoverable : RecordFails(c, "recovered")

RecoverApplyingOperations ==
    /\ ~RecoveryFails
    /\ journal' = [c \in Cmds |-> IF c \in Recoverable
                                  THEN [journal[c] EXCEPT !.phase = "NACKED",
                                                          !.reason = "recovered"]
                                  ELSE journal[c]]
    /\ PutIntents({ReportOf[c] : c \in {k \in Recoverable : journal[k].links}})
    /\ RecordResultAndQueue(Recoverable, "recovered")

HandshakeRecover ==
    /\ conn = "advanced"
    /\ \/ RecoverApplyingOperations /\ conn' = "recovered"
       \/ RecoveryFails /\ conn' = "idle" /\ UNCHANGED <<journal, fence, result, outbox>>
    /\ UNCHANGED <<session, accepted, inbox, receipt, link, frame, pump,
                   c2a, ctl, effects>>

ActivateSession_NoRequeue ==
    /\ conn = "recovered"
    /\ link' = "up" /\ conn' = "idle"
    /\ c2a' = {Command(c) : c \in ctl.outbox}
              \cup {Receipt(o) : o \in {k \in Ops : ctl.results[k] # {}}}
    /\ UNCHANGED <<durable, frame, pump, ctl, effects>>

(* The final is sent, RequeueOutboxForSession resets every row, the workers *)
(* start.  The Controller re-sends what it still holds.                     *)
ActivateSession ==
    /\ conn = "recovered"
    /\ outbox' = [o \in Ops |-> IF Queued(o) THEN [outbox[o] EXCEPT !.stage = "PENDING"]
                                             ELSE outbox[o]]
    /\ link' = "up" /\ conn' = "idle"
    /\ c2a' = {Command(c) : c \in ctl.outbox}
              \cup {Receipt(o) : o \in {k \in Ops : ctl.results[k] # {}}}
    /\ UNCHANGED <<session, accepted, inbox, journal, result, receipt, fence, frame,
                   pump, ctl, effects>>

(* A handshake read or write fails; Connect returns an error.               *)
AbortHandshake ==
    /\ conn # "idle"
    /\ conn' = "idle"
    /\ UNCHANGED <<durable, link, frame, pump, c2a, ctl, effects>>

(* The transport dies under the session.                                    *)
Disconnect ==
    /\ link = "up"
    /\ link' = "down" /\ c2a' = {}
    /\ UNCHANGED <<durable, conn, frame, pump, ctl, effects>>

(* The process dies and restarts: only the store survives.                  *)
Crash ==
    /\ link' = "down" /\ conn' = "idle"
    /\ frame' = IdleFrame /\ pump' = IdlePump /\ c2a' = {}
    /\ UNCHANGED <<durable, ctl, effects>>

-----------------------------------------------------------------------------
(* The frame loop: commands (handleCommandOnSession).                       *)

(* receiveCommandTx for a redelivered command: a legacy row is backfilled   *)
(* with its payload and classification, and the fences are re-asserted.     *)
Backfilled(c) ==
    LET j == journal[c] IN
    IF c \in PayloadCmds /\ ~j.payload
    THEN [j EXCEPT !.payload = TRUE,
                   !.links = Linked(c),
                   !.pending = /\ Linked(c)
                               /\ \/ j.phase = "APPLYING"
                                  \/ j.phase = "NACKED" /\ j.reason = "recovered"]
    ELSE j

NextStep_NoNackRepair(c, j) ==
    CASE j.phase = "RECEIVED" -> "intent"
      [] j.phase = "INTENT_PERSISTED" -> "applying"
      [] j.phase = "APPLYING" -> IF j.pending THEN "converge" ELSE "recover"
      [] j.phase = "NACKED" /\ j.pending -> "converge"
      [] OTHER -> "idle"

(* The step handleCommandOnSession takes next for a row it just received.   *)
NextStep(c, j) ==
    CASE j.phase = "RECEIVED" -> "intent"
      [] j.phase = "INTENT_PERSISTED" -> "applying"
      [] j.phase = "APPLYING" -> IF j.pending THEN "converge" ELSE "recover"
      [] j.phase = "NACKED" -> IF j.pending THEN "converge" ELSE "requeueNack"
      [] OTHER -> "idle"

Reads(m) == frame.pc = "idle" /\ link = "up" /\ m \in c2a

(* A command whose receipt tombstone exists is refused and the session dies. *)
RefuseReceipted ==
    /\ \E c \in Cmds : Reads(Command(c)) /\ receipt[c] # NoResult
    /\ CloseSession
    /\ UNCHANGED <<durable, conn, pump, ctl, effects>>

ReceiveNew ==
    /\ \E c \in Cmds :
        /\ Reads(Command(c))
        /\ receipt[c] = NoResult /\ c \notin inbox /\ journal[c].phase = "NONE"
        /\ inbox' = inbox \cup {c}
        /\ journal' = [journal EXCEPT ![c] =
                        [phase |-> "RECEIVED", reason |-> "none", pending |-> FALSE,
                         payload |-> c \in PayloadCmds, links |-> Linked(c)]]
        /\ PutIntents(IF Linked(c) THEN {ReportOf[c]} ELSE {})
        /\ frame' = [IdleFrame EXCEPT !.pc = "intent", !.op = c]
        /\ c2a' = c2a \ {Command(c)}
    /\ UNCHANGED <<session, accepted, result, outbox, receipt, link, conn,
                   pump, ctl, effects>>

(* An APPLIED duplicate needs its queued result, or the session dies.       *)
ReceiveDuplicate ==
    /\ \E c \in Cmds :
        /\ Reads(Command(c))
        /\ receipt[c] = NoResult /\ c \in inbox /\ journal[c].phase # "NONE"
        /\ journal' = [journal EXCEPT ![c] = Backfilled(c)]
        /\ PutIntents(IF Linked(c) THEN {ReportOf[c]} ELSE {})
        /\ IF journal[c].phase = "APPLIED" /\ ~Queued(c)
           THEN CloseSession
           ELSE /\ frame' = IF NextStep(c, Backfilled(c)) = "idle" THEN IdleFrame
                            ELSE [IdleFrame EXCEPT !.pc = NextStep(c, Backfilled(c)),
                                                   !.op = c]
                /\ c2a' = c2a \ {Command(c)}
                /\ UNCHANGED link
    /\ UNCHANGED <<session, accepted, inbox, result, outbox, receipt, conn, pump,
                   ctl, effects>>

PersistOperationIntent ==
    /\ frame.pc = "intent"
    /\ journal[frame.op].phase = "RECEIVED"
    /\ SetPhase(frame.op, "INTENT_PERSISTED")
    /\ FrameGoto("applying")
    /\ UNCHANGED <<session, accepted, inbox, result, outbox, receipt, fence, link,
                   conn, pump, c2a, ctl, effects>>

MarkOperationApplying_ForgetsCleanup ==
    /\ frame.pc = "applying"
    /\ journal[frame.op].phase = "INTENT_PERSISTED"
    /\ SetPhase(frame.op, "APPLYING")
    /\ FrameGoto("run")
    /\ UNCHANGED <<session, accepted, inbox, result, outbox, receipt, fence, link, conn,
                   pump, c2a, ctl, effects>>

(* From here a crash may have left side effects and still owes the cleanup. *)
MarkOperationApplying ==
    /\ frame.pc = "applying"
    /\ journal[frame.op].phase = "INTENT_PERSISTED"
    /\ journal' = [journal EXCEPT ![frame.op].phase = "APPLYING",
                                  ![frame.op].pending = @ \/ journal[frame.op].links]
    /\ FrameGoto("run")
    /\ UNCHANGED <<session, accepted, inbox, result, outbox, receipt, fence, link,
                   conn, pump, c2a, ctl, effects>>

(* OnCommand: the external side effect.  The handler succeeds or not, and a *)
(* deletion's cleanup completes or not; the result of a deletion (or of a   *)
(* decommission) is queued under its own id before the handler returns, and *)
(* a failing handler may or may not have come that far.                     *)
OnCommand ==
    /\ frame.pc = "run"
    /\ effects' = [effects EXCEPT ![frame.op] = @ + 1]
    /\ \E ok, reports, clean \in BOOLEAN :
        /\ reports => ReportOf[frame.op] # NoOp
        /\ ok /\ ReportOf[frame.op] # NoOp => reports
        /\ clean => ReportOf[frame.op] \in Dels
        /\ frame' = [frame EXCEPT !.pc = IF reports THEN "report" ELSE "finish",
                                  !.ok = ok, !.clean = clean]
        /\ fence' = IF clean THEN [fence EXCEPT ![ReportOf[frame.op]] = "tombstoned"]
                             ELSE fence
    /\ UNCHANGED <<session, accepted, inbox, journal, result, outbox, receipt, link,
                   conn, pump, c2a, ctl>>

(* The result queued under the deletion id: what RecordResult is given.     *)
ReportValue ==
    CASE ReportOf[frame.op] \in Cmds -> "acked"
      [] ReportOf[frame.op] \in Dels /\ frame.clean -> "deleted"
      [] OTHER -> "deleteFailed"

(* QueueResult; its error fails the handler, and so NACKs the command.      *)
QueueReport ==
    /\ frame.pc = "report"
    /\ LET o == ReportOf[frame.op] IN
        \/ /\ ~RecordFails(o, ReportValue)
           /\ RecordResultAndQueue({o}, ReportValue)
           /\ FrameGoto("finish")
        \/ /\ RecordFails(o, ReportValue)
           /\ frame' = [frame EXCEPT !.pc = "finish", !.ok = FALSE]
           /\ UNCHANGED <<result, outbox>>
    /\ UNCHANGED <<session, accepted, inbox, journal, receipt, fence, link, conn, pump,
                   c2a, ctl, effects>>

(* CompleteOperation, or NackOperationWithResult after a handler error: the *)
(* phase and the queued result are one transaction.                         *)
FinishOperation ==
    /\ frame.pc = "finish"
    /\ journal[frame.op].phase = "APPLYING"
    /\ LET c == frame.op
           r == IF frame.ok THEN "applied" ELSE "nacked"
       IN \/ /\ ~RecordFails(c, r)
             /\ journal' = [journal EXCEPT
                             ![c].phase = IF frame.ok THEN "APPLIED" ELSE "NACKED",
                             ![c].reason = IF frame.ok THEN @ ELSE "error"]
             /\ RecordResultAndQueue({c}, r)
             /\ frame' = IdleFrame
             /\ UNCHANGED <<link, c2a>>
          \/ /\ RecordFails(c, r)
             /\ CloseSession
             /\ UNCHANGED <<journal, result, outbox>>
    /\ UNCHANGED <<session, accepted, inbox, receipt, fence, conn, pump, ctl, effects>>

(* OnRecoveredDeletion: only the ABSENT subset runs, and it queues the      *)
(* deletion result.  A cleanup that does not converge ends the session.     *)
ConvergeDeletion ==
    /\ frame.pc = "converge"
    /\ LET d == ReportOf[frame.op] IN
        \/ /\ fence' = [fence EXCEPT ![d] = "tombstoned"]
           /\ \/ /\ ~RecordFails(d, "deleted")
                 /\ RecordResultAndQueue({d}, "deleted")
                 /\ FrameGoto("converged")
                 /\ UNCHANGED <<link, c2a>>
              \/ /\ RecordFails(d, "deleted")
                 /\ CloseSession
                 /\ UNCHANGED <<result, outbox>>
        \/ /\ CloseSession
           /\ UNCHANGED <<fence, result, outbox>>
    /\ UNCHANGED <<session, accepted, inbox, journal, receipt, conn, pump, ctl, effects>>

CompleteRecoveredDeletion ==
    /\ frame.pc = "converged"
    /\ journal' = [journal EXCEPT ![frame.op].pending = FALSE]
    /\ FrameGoto(IF journal[frame.op].phase = "NACKED" THEN "requeueNack" ELSE "recover")
    /\ UNCHANGED <<session, accepted, inbox, result, outbox, receipt, fence, link,
                   conn, pump, c2a, ctl, effects>>

(* RecoverApplyingOperations from the APPLYING duplicate path.              *)
RecoverDuplicate ==
    /\ frame.pc = "recover"
    /\ \/ /\ RecoverApplyingOperations
          /\ frame' = IdleFrame
          /\ UNCHANGED <<link, c2a>>
       \/ /\ RecoveryFails
          /\ CloseSession
          /\ UNCHANGED <<journal, fence, result, outbox>>
    /\ UNCHANGED <<session, accepted, inbox, receipt, conn, pump, ctl, effects>>

QueueNackedResult ==
    /\ frame.pc = "requeueNack"
    /\ LET c == frame.op
           r == IF journal[c].reason = "recovered" THEN "renacked" ELSE "nacked"
       IN \/ /\ ~RecordFails(c, r)
             /\ RecordResultAndQueue({c}, r)
             /\ frame' = IdleFrame
             /\ UNCHANGED <<link, c2a>>
          \/ /\ RecordFails(c, r)
             /\ CloseSession
             /\ UNCHANGED <<result, outbox>>
    /\ UNCHANGED <<session, accepted, inbox, journal, receipt, fence, conn, pump, ctl,
                   effects>>

-----------------------------------------------------------------------------
(* The frame loop: Controller receipts (handleReceiptOnSession).            *)

(* OutboxState is read in a transaction of its own.  A row that is gone was *)
(* garbage-collected already, or never was an outbox operation.             *)
ReadReceipt ==
    /\ \E o \in Ops :
        /\ Reads(Receipt(o))
        /\ c2a' = c2a \ {Receipt(o)}
        /\ LET step == CASE outbox[o].stage = "PENDING" -> "rcClaim"
                         [] outbox[o].stage = "CLAIMED" -> "rcSent"
                         [] outbox[o].stage \in {"SENT", "SEMANTIC_ACKED"} -> "rcAck"
                         [] OTHER -> "idle"
           IN frame' = IF step = "idle" THEN IdleFrame
                                        ELSE [IdleFrame EXCEPT !.pc = step, !.op = o]
    /\ UNCHANGED <<durable, link, conn, pump, ctl, effects>>

(* The pump may have claimed the row since it was read: the receipt is then *)
(* dropped.                                                                 *)
ReceiptClaim ==
    /\ frame.pc = "rcClaim"
    /\ IF outbox[frame.op].stage = "PENDING"
       THEN SetStage(frame.op, "CLAIMED") /\ FrameGoto("rcSent")
       ELSE frame' = IdleFrame /\ UNCHANGED outbox
    /\ UNCHANGED <<session, accepted, inbox, journal, result, receipt, fence, link,
                   conn, pump, c2a, ctl, effects>>

(* The pump may have marked the row SENT since: this transition loss is not *)
(* tolerated and the session dies.                                          *)
ReceiptMarkSent ==
    /\ frame.pc = "rcSent"
    /\ IF outbox[frame.op].stage = "CLAIMED"
       THEN /\ SetStage(frame.op, "SENT") /\ FrameGoto("rcAck")
            /\ UNCHANGED <<link, c2a>>
       ELSE CloseSession /\ UNCHANGED outbox
    /\ UNCHANGED <<session, accepted, inbox, journal, result, receipt, fence, conn, pump,
                   ctl, effects>>

AcceptSemanticACK ==
    /\ frame.pc = "rcAck"
    /\ IF outbox[frame.op].stage = "SENT"
       THEN SetStage(frame.op, "SEMANTIC_ACKED") /\ FrameGoto("rcAccept")
       ELSE frame' = IdleFrame /\ UNCHANGED outbox
    /\ UNCHANGED <<session, accepted, inbox, journal, result, receipt, fence, link,
                   conn, pump, c2a, ctl, effects>>

(* The receipt tombstone takes the payload; the outbox row, the result, the *)
(* journal row and the inbox row go in the same transaction.                *)
AcceptReceipt ==
    /\ frame.pc = "rcAccept"
    /\ LET o == frame.op IN
        /\ receipt[o] = NoResult /\ outbox[o].stage = "SEMANTIC_ACKED"
        /\ receipt' = [receipt EXCEPT ![o] = outbox[o].val]
        /\ outbox' = [outbox EXCEPT ![o] = [stage |-> "NONE", val |-> NoResult]]
        /\ result' = [result EXCEPT ![o] = NoResult]
        /\ journal' = [c \in Cmds |-> IF c = o THEN NoRow ELSE journal[c]]
        /\ inbox' = inbox \ {o}
    /\ frame' = IdleFrame
    /\ UNCHANGED <<session, accepted, fence, link, conn, pump, c2a, ctl,
                   effects>>

-----------------------------------------------------------------------------
(* The outbox pump (pumpOnce), one row at a time.                           *)

(* OutboxState and ResultForOperation.                                      *)
PumpPick ==
    /\ pump.pc = "idle" /\ link = "up"
    /\ \E o \in Ops :
        /\ outbox[o].stage = "PENDING" /\ result[o] # NoResult
        /\ pump' = [pc |-> "claim", op |-> o, val |-> result[o]]
    /\ UNCHANGED <<durable, link, conn, frame, c2a, ctl, effects>>

PumpClaim ==
    /\ pump.pc = "claim"
    /\ IF outbox[pump.op].stage = "PENDING"
       THEN SetStage(pump.op, "CLAIMED") /\ pump' = [pump EXCEPT !.pc = "write"]
       ELSE pump' = IdlePump /\ UNCHANGED outbox
    /\ UNCHANGED <<session, accepted, inbox, journal, result, receipt, fence, link,
                   conn, frame, c2a, ctl, effects>>

(* The frame is on the wire: the Controller gets it, or the transport dies  *)
(* with it.  On a transport already dead the write fails and the pump       *)
(* returns.                                                                 *)
Deliver(step, c2aAfter, ctlAfter) ==
    \/ /\ link = "up"
       /\ c2a' = c2aAfter /\ ctl' = ctlAfter
       /\ pump' = step /\ UNCHANGED link
    \/ /\ link = "up"
       /\ link' = "down" /\ c2a' = {}
       /\ pump' = step /\ UNCHANGED ctl
    \/ /\ link = "down"
       /\ pump' = IdlePump /\ UNCHANGED <<link, c2a, ctl>>

(* operation_complete: the Controller persists the result and answers with  *)
(* a receipt.                                                               *)
PumpWrite ==
    /\ pump.pc = "write"
    /\ Deliver([pump EXCEPT !.pc = "sent"],
               c2a \cup {Receipt(pump.op)},
               [ctl EXCEPT !.results[pump.op] = @ \cup {pump.val}])
    /\ UNCHANGED <<durable, conn, frame, effects>>

(* MarkOutboxSent; a receipt that got there first is tolerated.             *)
PumpMarkSent ==
    /\ pump.pc = "sent"
    /\ IF outbox[pump.op].stage = "CLAIMED" THEN SetStage(pump.op, "SENT")
                                            ELSE UNCHANGED outbox
    /\ pump' = [pump EXCEPT !.pc = "rcpt"]
    /\ UNCHANGED <<session, accepted, inbox, journal, result, receipt, fence, link,
                   conn, frame, c2a, ctl, effects>>

(* message_receipt: the Controller garbage-collects the command.            *)
PumpReceipt ==
    /\ pump.pc = "rcpt"
    /\ Deliver(IdlePump, c2a, [ctl EXCEPT !.outbox = @ \ {pump.op}])
    /\ UNCHANGED <<durable, conn, frame, effects>>

-----------------------------------------------------------------------------
(* A legacy row is a command an older client had begun: APPLYING, NACKED    *)
(* between its NACK and result transactions, or NACKED by its recovery.     *)
LegacyRows == {[NoRow EXCEPT !.phase = "APPLYING"],
               [NoRow EXCEPT !.phase = "NACKED", !.reason = "error"],
               [NoRow EXCEPT !.phase = "NACKED", !.reason = "recovered"]}

Init ==
    /\ session = [epoch |-> 0, id |-> NoSession] /\ accepted = {}
    /\ inbox = Legacy
    /\ journal \in [Cmds -> LegacyRows \cup {NoRow}]
    /\ \A c \in Cmds : c \in Legacy <=> journal[c] # NoRow
    /\ result = [o \in Ops |-> IF o \in Legacy /\ journal[o].reason = "recovered"
                               THEN "recovered" ELSE NoResult]
    /\ outbox = [o \in Ops |-> [stage |-> IF result[o] = NoResult THEN "NONE" ELSE "PENDING",
                                val |-> result[o]]]
    /\ receipt = [o \in Ops |-> NoResult]
    /\ fence = [d \in Dels |-> "none"]
    /\ link = "down" /\ conn = "idle"
    /\ frame = IdleFrame /\ pump = IdlePump
    /\ c2a = {}
    /\ ctl = [outbox |-> Cmds, results |-> [o \in Ops |-> {}]]
    /\ effects = [c \in Cmds |-> IF c \in Legacy THEN 1 ELSE 0]

Reconnect == AdvanceSession \/ HandshakeRecover \/ ActivateSession

FrameLoop ==
    \/ RefuseReceipted \/ ReceiveNew \/ ReceiveDuplicate
    \/ PersistOperationIntent \/ MarkOperationApplying \/ OnCommand \/ QueueReport
    \/ FinishOperation \/ ConvergeDeletion \/ CompleteRecoveredDeletion
    \/ RecoverDuplicate \/ QueueNackedResult
    \/ ReadReceipt \/ ReceiptClaim \/ ReceiptMarkSent \/ AcceptSemanticACK \/ AcceptReceipt

OutboxPump == PumpPick \/ PumpClaim \/ PumpWrite \/ PumpMarkSent \/ PumpReceipt

Next == Reconnect \/ AbortHandshake \/ Disconnect \/ Crash \/ FrameLoop \/ OutboxPump

Spec == Init /\ [][Next]_vars

(* The reconnect loop and the two workers keep running; nothing obliges the *)
(* network or the process to fail.                                          *)
Fairness == WF_vars(Reconnect) /\ WF_vars(FrameLoop) /\ WF_vars(OutboxPump)

FairSpec == Spec /\ Fairness

-----------------------------------------------------------------------------
(* Type invariant: the rows, the goroutine states and the frames in flight  *)
(* stay in the sets localstate and session.go declare for them.             *)
SessionTypeOK ==
    /\ session \in [epoch: 0..MaxEpoch, id: Sessions \cup {NoSession}]
    /\ accepted \subseteq (1..MaxEpoch) \X Sessions
    /\ link \in {"up", "down"} /\ conn \in {"idle", "advanced", "recovered"}
JournalTypeOK ==
    /\ inbox \subseteq Cmds
    /\ journal \in [Cmds -> Row]
    /\ fence \in [Dels -> {"none", "pending", "tombstoned"}]
OutboxTypeOK ==
    /\ result \in [Ops -> Results \cup {NoResult}]
    /\ outbox \in [Ops -> [stage: Stages, val: Results \cup {NoResult}]]
    /\ receipt \in [Ops -> Results \cup {NoResult}]
WorkerTypeOK ==
    /\ frame \in [pc: FrameSteps, op: Ops \cup {NoOp}, ok: BOOLEAN, clean: BOOLEAN]
    /\ frame.pc \in CommandSteps => frame.op \in Cmds
    /\ frame.pc \in ReceiptSteps => frame.op \in Ops
    /\ pump \in [pc: PumpSteps, op: Ops \cup {NoOp}, val: Results \cup {NoResult}]
    /\ pump.pc # "idle" => pump.op \in Ops /\ pump.val \in Results
ControllerTypeOK ==
    /\ c2a \subseteq Messages
    /\ ctl \in [outbox: SUBSET Cmds, results: [Ops -> SUBSET Results]]
    /\ effects \in [Cmds -> Nat]
TypeOK ==
    SessionTypeOK /\ JournalTypeOK /\ OutboxTypeOK /\ WorkerTypeOK /\ ControllerTypeOK

(* OnCommand runs at most once for a command, whatever crashes, lost        *)
(* sessions and redeliveries happen between its journal transactions        *)
(* (handleCommandOnSession: "Never invoke OnCommand a second time").        *)
AtMostOnce == \A c \in Cmds : effects[c] <= 1

(* A command this client settled always has its result queued: the APPLIED  *)
(* duplicate never meets a missing outbox row, and no crash separates the   *)
(* NACK from its result (CompleteOperation, NackOperationWithResult).       *)
SettledIsQueued ==
    \A c \in Cmds : \/ journal[c].phase = "APPLIED"
                    \/ journal[c].phase = "NACKED" /\ c \notin Legacy
                    => Queued(c)

(* The Controller never learns two different results of one operation, over *)
(* all re-sends of all sessions; and the Agent drops its rows only for a    *)
(* result the Controller holds (recordResultAndQueue, AcceptReceipt).       *)
OneSemanticResult ==
    /\ \A o \in Ops : \A r1, r2 \in ctl.results[o] : r1 = r2
    /\ \A o \in Ops : receipt[o] # NoResult => receipt[o] \in ctl.results[o]

(* Receipted operations stay dead: no late handler step, pump step or       *)
(* redelivery writes any of their rows again (receipt tombstone).           *)
NoResurrection ==
    \A o \in Ops : receipt[o] # NoResult =>
        /\ result[o] = NoResult /\ ~Queued(o)
        /\ o \in Cmds => o \notin inbox /\ journal[o].phase = "NONE"

(* The recovery transaction of the handshake cannot fail for good: if it    *)
(* did, every later Connect would fail the same way and the Agent could     *)
(* never come back (RecoverApplyingOperations aborts as one).               *)
RecoveryNeverWedged == ~RecoveryFails

(* The Controller hears "recovered" for a command that deletes a forward    *)
(* only after the deletion has converged: C stays APPLYING until the        *)
(* cleanup it owed is done (RecoveredDeletionPending).                      *)
RecoveredAfterCleanup ==
    \A c \in Cmds \ Legacy :
        Linked(c) /\ "recovered" \in ctl.results[c] => fence[ReportOf[c]] = "tombstoned"

(* A journal row classified as a deletion never exists without its durable  *)
(* fence, for rows backfilled from an older client too (receiveCommandTx    *)
(* writes both in one transaction).                                         *)
ClassifiedIsFenced ==
    \A c \in Cmds : journal[c].links => fence[ReportOf[c]] # "none"

(* What is known of an operation's outcome: its result, kept by the receipt *)
(* tombstone once the rows are gone.                                        *)
Known(o) == IF receipt[o] # NoResult THEN receipt[o] ELSE result[o]

(* The inductive invariant.  RowsAgree: the result table and the outbox     *)
(* hold the same values.  FrameAgrees: the frame loop's step fits the row   *)
(* it works on, which is still there.  PumpAgrees: what the pump is about   *)
(* to send is still the outcome.  ControllerAgrees: the Controller holds    *)
(* only that outcome, and no receipt precedes its result.                   *)
RowsAgree ==
    \A o \in Ops : (Queued(o) <=> result[o] # NoResult) /\ outbox[o].val = result[o]
FrameAgrees ==
    /\ frame.pc \in CommandSteps => receipt[frame.op] = NoResult
    /\ frame.pc = "intent" => journal[frame.op].phase = "RECEIVED"
    /\ frame.pc = "applying" => journal[frame.op].phase = "INTENT_PERSISTED"
    /\ frame.pc = "run" => /\ journal[frame.op].phase = "APPLYING"
                           /\ effects[frame.op] = 0 /\ result[frame.op] = NoResult
    /\ frame.pc \in {"report", "finish"} => /\ journal[frame.op].phase = "APPLYING"
                                            /\ effects[frame.op] = 1
    /\ frame.pc = "report" => ReportOf[frame.op] # NoOp
    /\ frame.pc \in {"converge", "converged"} =>
            /\ journal[frame.op].phase \in {"APPLYING", "NACKED"}
            /\ ReportOf[frame.op] \in Dels
    /\ frame.pc = "requeueNack" => journal[frame.op].phase = "NACKED"
    /\ frame.pc \in ReceiptSteps => ctl.results[frame.op] # {}
    /\ conn # "idle" => frame.pc = "idle" /\ link = "down"
PumpAgrees == pump.pc # "idle" => pump.val = Known(pump.op)
EffectsAgree ==
    \A c \in Cmds :
        /\ journal[c].phase \in {"NONE", "RECEIVED", "INTENT_PERSISTED"}
                /\ receipt[c] = NoResult => effects[c] = 0 /\ result[c] = NoResult
        /\ Known(c) \in {"applied", "acked"} => effects[c] = 1
        /\ journal[c].pending => journal[c].links
        /\ journal[c].links => Linked(c)
ControllerAgrees ==
    /\ \A o \in Ops : \A r \in ctl.results[o] : r = Known(o)
    /\ \A o \in Ops : Receipt(o) \in c2a \/ receipt[o] # NoResult => ctl.results[o] # {}
IndInv ==
    /\ TypeOK /\ RowsAgree /\ FrameAgrees /\ PumpAgrees /\ EffectsAgree
    /\ ControllerAgrees /\ AtMostOnce /\ SettledIsQueued /\ NoResurrection

(* No epoch ever carries two sessions, and the store holds the newest one   *)
(* (AdvanceSession's downgrade and split-brain checks).                     *)
NoSplitBrain ==
    /\ \A p, q \in accepted : p[1] = q[1] => p[2] = q[2]
    /\ \A p \in accepted : p[1] <= session.epoch

(* Once the transport stays up, every queued result is delivered, receipted *)
(* and garbage-collected: no race between pump and receipt strands a row.   *)
QueuedGetsReceipted ==
    <>[](link = "up") => \A o \in Ops : Queued(o) ~> receipt[o] # NoResult

(* Once the transport stays up, every command the Controller holds is       *)
(* carried to its receipt, wherever in the pipeline a crash left it.        *)
CommandsGetAnswered ==
    <>[](link = "up") => \A c \in Cmds : <>(receipt[c] # NoResult)

(* outboxPump: each result is followed by a message_receipt for the command *)
(* it answers, so that the Controller can garbage-collect its row.          *)
ControllerCanCollect ==
    <>[](link = "up") => \A c \in Cmds : <>(c \notin ctl.outbox)

Contract == INSTANCE CommandContract WITH
    Successes <- {"applied", "acked"},
    ran <- {c \in Cmds : effects[c] > 0},
    answer <- [c \in Cmds |-> Known(c)]

(* The journal implements the contract of CommandContract: over crashes,    *)
(* redeliveries and receipts, one effect and one unrevised answer for each  *)
(* command, and no success without its effect.                              *)
ImplementsContract == Contract!Spec

(* docs/protocol.md: an exact redelivery is answered with the cached        *)
(* result.  At the least it must not cost the session.                      *)
RedeliveryKeepsSession == [][RefuseReceipted => link' = link]_vars
=============================================================================
