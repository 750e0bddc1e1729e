--------------------------- MODULE ControlProofs ---------------------------
(***************************************************************************)
(* Theorems about the durable state of the control plane.  ControlJournal: *)
(* for every set of commands, deletion ids, sessions and legacy rows; the  *)
(* lemmas come first, what each kind of transaction does to the tables,    *)
(* the initial states, the steps that receive a command and bring it to    *)
(* its handler, the handler and the answer, Controller receipts, and the   *)
(* outbox pump.  Rotation: for every set of keys and bound.                *)
(***************************************************************************)
EXTENDS ControlJournal, Rotation, TLAPS

USE Zenon

-----------------------------------------------------------------------------
(* ControlJournal.                                                         *)

(* The part of IndInv about durable rows and effects alone.                 *)
DurableInv ==
    /\ JournalTypeOK /\ OutboxTypeOK /\ RowsAgree /\ EffectsAgree
    /\ AtMostOnce /\ SettledIsQueued /\ NoResurrection

rows == <<inbox, journal, fence, result, outbox, receipt, effects>>

(* A step that writes no row and runs no handler keeps everything that is   *)
(* said about rows, and every outcome.                                      *)
LEMMA QuietFacts ==
  ASSUME IndInv, UNCHANGED rows
  PROVE  DurableInv' /\ \A o \in Ops : Known(o)' = Known(o)
  BY DEF IndInv, TypeOK, DurableInv, rows, JournalTypeOK, OutboxTypeOK, RowsAgree,
     EffectsAgree, AtMostOnce, SettledIsQueued, NoResurrection, Known, Queued

(* What recordResultAndQueue does to the tables when it does not fail.      *)
LEMMA RecordFacts ==
  ASSUME IndInv, NEW S \in SUBSET Ops, NEW r \in Results,
         \A o \in S : ~RecordFails(o, r),
         RecordResultAndQueue(S, r), receipt' = receipt
  PROVE  /\ OutboxTypeOK' /\ RowsAgree'
         /\ \A o \in Ops : Known(o) # NoResult => Known(o)' = Known(o)
         /\ \A o \in Ops : Queued(o) => Queued(o)'
         /\ \A o \in S : /\ Queued(o)' /\ receipt[o] = NoResult
                         /\ result'[o] = result[o] \/ result'[o] = r
         /\ \A o \in Ops \ S : result'[o] = result[o]
<1>1. OutboxTypeOK'
  BY DEF IndInv, TypeOK, OutboxTypeOK, RecordResultAndQueue, Stages
<1>2. RowsAgree'
  BY DEF IndInv, TypeOK, OutboxTypeOK, RowsAgree, RecordResultAndQueue, Queued, Results, NoResult
<1>3. \A o \in Ops : Known(o) # NoResult => Known(o)' = Known(o)
  BY DEF IndInv, TypeOK, OutboxTypeOK, RowsAgree, RecordResultAndQueue, Queued, Known
<1>4. \A o \in Ops : Queued(o) => Queued(o)'
  BY DEF IndInv, TypeOK, OutboxTypeOK, RecordResultAndQueue, Queued
<1>5. \A o \in S : /\ Queued(o)' /\ receipt[o] = NoResult
                   /\ result'[o] = result[o] \/ result'[o] = r
  BY DEF IndInv, TypeOK, OutboxTypeOK, RecordResultAndQueue, RecordFails, Queued
<1>6. \A o \in Ops \ S : result'[o] = result[o]
  BY DEF RecordResultAndQueue
<1> QED
  BY <1>1, <1>2, <1>3, <1>4, <1>5, <1>6

(* What ClaimOutbox, MarkOutboxSent and AcceptSemanticACK do to the tables. *)
LEMMA StageFacts ==
  ASSUME IndInv, NEW o \in Ops, NEW s \in Stages \ {"NONE"}, Queued(o), SetStage(o, s),
         UNCHANGED <<inbox, journal, fence, result, receipt, effects>>
  PROVE  DurableInv' /\ \A k \in Ops : Known(k)' = Known(k)
<1>1. OutboxTypeOK'
  BY DEF IndInv, TypeOK, OutboxTypeOK, SetStage, Stages
<1>2. \A k \in Ops : (Queued(k)' <=> Queued(k)) /\ outbox'[k].val = outbox[k].val
  BY DEF IndInv, TypeOK, OutboxTypeOK, SetStage, Queued, Stages
<1>3. RowsAgree'
  BY <1>2 DEF IndInv, RowsAgree, Queued
<1>4. \A k \in Ops : Known(k)' = Known(k)
  BY DEF Known
<1>5. SettledIsQueued' /\ NoResurrection'
  BY <1>2 DEF IndInv, SettledIsQueued, NoResurrection, Queued, Ops
<1>6. EffectsAgree'
  BY <1>4 DEF IndInv, EffectsAgree, Ops
<1> QED
  BY <1>1, <1>3, <1>4, <1>5, <1>6 DEF IndInv, TypeOK, DurableInv, JournalTypeOK, AtMostOnce

(* A row an older client wrote, or none, classifies nothing as a deletion.  *)
LEMMA LegacyRowFacts ==
    /\ NoRow \in Row /\ LegacyRows \subseteq Row
    /\ NoRow.phase = "NONE" /\ NoRow.links = FALSE /\ NoRow.pending = FALSE
    /\ \A j \in LegacyRows : /\ j.phase \in {"APPLYING", "NACKED"}
                             /\ j.links = FALSE /\ j.pending = FALSE
  BY DEF NoRow, LegacyRows, Row, Phases

(* The idle goroutines, and the frames of the wire.                         *)
LEMMA IdleFacts ==
    /\ IdleFrame \in [pc: FrameSteps, op: Ops \cup {NoOp}, ok: BOOLEAN, clean: BOOLEAN]
    /\ IdleFrame.pc = "idle" /\ "idle" \notin CommandSteps \cup ReceiptSteps
    /\ IdlePump \in [pc: PumpSteps, op: Ops \cup {NoOp}, val: Results \cup {NoResult}]
    /\ IdlePump.pc = "idle"
  BY DEF IdleFrame, IdlePump, FrameSteps, CommandSteps, ReceiptSteps, PumpSteps

LEMMA MessageFacts ==
    /\ \A c \in Cmds : Command(c) \in Messages
    /\ \A o \in Ops : Receipt(o) \in Messages
    /\ \A c \in Cmds, o \in Ops : Command(c) # Receipt(o)
    /\ \A o, k \in Ops : Receipt(o) = Receipt(k) => o = k
  BY DEF Messages, Command, Receipt

(* The initial states satisfy the inductive invariant.                      *)
LEMMA InitIndInv == Init => IndInv
<1> SUFFICES ASSUME Init PROVE IndInv
  OBVIOUS
<1> USE ConstantsAssumption DEF Init
<1>1. JournalTypeOK
  BY LegacyRowFacts DEF JournalTypeOK
<1>2. OutboxTypeOK /\ RowsAgree
  BY DEF OutboxTypeOK, RowsAgree, Queued, Stages, Results, NoResult
<1>3. SessionTypeOK /\ WorkerTypeOK /\ ControllerTypeOK
  BY SMT DEF SessionTypeOK, WorkerTypeOK, ControllerTypeOK, IdleFrame, IdlePump, FrameSteps,
     CommandSteps, ReceiptSteps, PumpSteps, Messages, Results, NoResult
<1>4. FrameAgrees /\ PumpAgrees
  BY DEF FrameAgrees, PumpAgrees, IdleFrame, IdlePump, CommandSteps, ReceiptSteps
<1>5. \A c \in Cmds \ Legacy : journal[c] = NoRow
  OBVIOUS
<1>6. \A c \in Legacy : journal[c] \in LegacyRows
  OBVIOUS
<1>7. EffectsAgree /\ SettledIsQueued /\ NoResurrection /\ AtMostOnce
  <2>1. \A c \in Legacy : /\ journal[c].phase \in {"APPLYING", "NACKED"}
                          /\ journal[c].links = FALSE /\ journal[c].pending = FALSE
    BY <1>6, LegacyRowFacts
  <2>2. \A c \in Cmds \ Legacy : /\ journal[c].phase = "NONE"
                                 /\ journal[c].links = FALSE /\ journal[c].pending = FALSE
    BY <1>5, LegacyRowFacts
  <2>3. \A c \in Cmds : Known(c) \in {"recovered", NoResult}
    BY DEF Known, Ops
  <2>4. EffectsAgree
    <3> SUFFICES ASSUME NEW c \in Cmds
                 PROVE  /\ journal[c].phase \in {"NONE", "RECEIVED", "INTENT_PERSISTED"}
                           => effects[c] = 0 /\ result[c] = NoResult
                        /\ Known(c) \notin {"applied", "acked"}
                        /\ journal[c].pending = FALSE /\ journal[c].links = FALSE
      BY DEF EffectsAgree
    <3> QED
      BY <2>1, <2>2, <2>3 DEF Ops, NoResult
  <2>5. SettledIsQueued
    BY <2>1, <2>2 DEF SettledIsQueued
  <2> QED
    BY SMT, <2>4, <2>5 DEF NoResurrection, AtMostOnce
<1>8. ControllerAgrees
  BY DEF ControllerAgrees
<1> QED
  BY <1>1, <1>2, <1>3, <1>4, <1>7, <1>8 DEF IndInv, TypeOK

-----------------------------------------------------------------------------
(* One lemma per action, or per group of actions that write the same state. *)

(* Steps of the reconnect loop, the network and the environment that write  *)
(* no row.                                                                  *)
LEMMA EnvironmentStep ==
  ASSUME IndInv, AdvanceSession \/ AbortHandshake \/ Disconnect \/ Crash \/ RefuseReceipted
  PROVE  IndInv'
<1> USE ConstantsAssumption DEF IndInv, TypeOK
<1>1. UNCHANGED rows /\ UNCHANGED ctl /\ c2a' \subseteq c2a
  BY DEF AdvanceSession, AbortHandshake, Disconnect, Crash, RefuseReceipted, CloseSession,
     durable, rows
<1>2. DurableInv' /\ \A o \in Ops : Known(o)' = Known(o)
  BY <1>1, QuietFacts
<1>3. SessionTypeOK'
  BY SMT DEF SessionTypeOK, AdvanceSession, AbortHandshake, Disconnect, Crash, RefuseReceipted,
     CloseSession, durable
<1>4. /\ frame' = frame \/ frame' = IdleFrame
      /\ pump' = pump \/ pump' = IdlePump
  BY DEF AdvanceSession, AbortHandshake, Disconnect, Crash, RefuseReceipted, CloseSession
<1>5. WorkerTypeOK'
  BY SMT, <1>4, IdleFacts DEF WorkerTypeOK
<1>6. conn' # "idle" => frame'.pc = "idle" /\ link' = "down"
  BY SMT DEF FrameAgrees, AdvanceSession, AbortHandshake, Disconnect, Crash, RefuseReceipted,
     CloseSession, IdleFrame
<1>7. FrameAgrees'
  BY SMT, <1>1, <1>4, <1>6, IdleFacts DEF FrameAgrees, rows
<1>8. PumpAgrees'
  BY SMT, <1>2, <1>4, IdleFacts DEF PumpAgrees, WorkerTypeOK
<1>9. ControllerTypeOK' /\ ControllerAgrees'
  BY <1>1, <1>2 DEF ControllerTypeOK, ControllerAgrees, rows
<1> QED
  BY <1>2, <1>3, <1>5, <1>7, <1>8, <1>9 DEF DurableInv

(* The final of the handshake: every queued row is PENDING again.           *)
LEMMA ActivateStep ==
  ASSUME IndInv, ActivateSession
  PROVE  IndInv'
<1> USE ConstantsAssumption DEF IndInv, TypeOK, ActivateSession
<1>1. OutboxTypeOK'
  BY DEF OutboxTypeOK, Stages
<1>2. \A o \in Ops : (Queued(o)' <=> Queued(o)) /\ outbox'[o].val = outbox[o].val
  BY DEF OutboxTypeOK, Queued
<1>3. \A o \in Ops : Known(o)' = Known(o)
  BY DEF Known
<1>4. RowsAgree' /\ SettledIsQueued' /\ NoResurrection'
  BY <1>2 DEF RowsAgree, SettledIsQueued, NoResurrection, Ops, Queued
<1>5. EffectsAgree'
  BY <1>3 DEF EffectsAgree, Ops
<1>6. SessionTypeOK' /\ JournalTypeOK' /\ WorkerTypeOK' /\ AtMostOnce'
  BY DEF SessionTypeOK, JournalTypeOK, WorkerTypeOK, AtMostOnce
<1>7. ControllerTypeOK' /\ ControllerAgrees'
  BY SMT, <1>3, MessageFacts DEF ControllerTypeOK, ControllerAgrees
<1>8. FrameAgrees' /\ PumpAgrees'
  BY <1>3 DEF FrameAgrees, PumpAgrees, WorkerTypeOK, CommandSteps, ReceiptSteps
<1> QED
  BY <1>1, <1>4, <1>5, <1>6, <1>7, <1>8

(* RecoverApplyingOperations, wherever it is called from, keeps the rows    *)
(* consistent.                                                              *)
LEMMA RecoveryFacts ==
  ASSUME IndInv, RecoverApplyingOperations, UNCHANGED <<inbox, receipt, effects>>
  PROVE  DurableInv' /\ \A o \in Ops : Known(o) # NoResult => Known(o)' = Known(o)
<1> USE ConstantsAssumption DEF IndInv, TypeOK
<1>1. /\ Recoverable \in SUBSET Ops /\ "recovered" \in Results
      /\ \A c \in Recoverable : c \in Cmds /\ journal[c].phase = "APPLYING"
                               /\ ~RecordFails(c, "recovered")
  BY DEF RecoverApplyingOperations, RecoveryFails, Recoverable, Ops, Results
<1>2. RecordResultAndQueue(Recoverable, "recovered")
  BY DEF RecoverApplyingOperations
<1> DEFINE S == Recoverable
           r == "recovered"
<1>3. /\ OutboxTypeOK' /\ RowsAgree'
      /\ \A o \in Ops : Known(o) # NoResult => Known(o)' = Known(o)
      /\ \A o \in Ops : Queued(o) => Queued(o)'
      /\ \A o \in S : /\ Queued(o)' /\ receipt[o] = NoResult
                      /\ result'[o] = result[o] \/ result'[o] = r
      /\ \A o \in Ops \ S : result'[o] = result[o]
  <2> HIDE DEF S, r, TypeOK, IndInv
  <2> QED
    BY <1>1, <1>2, RecordFacts DEF S, r
<1>4. \A c \in Cmds : /\ c \notin Recoverable => journal'[c] = journal[c]
                      /\ c \in Recoverable => /\ journal'[c] \in Row
                                              /\ journal'[c].phase = "NACKED"
                                              /\ journal'[c].links = journal[c].links
                                              /\ journal'[c].pending = journal[c].pending
  <2> SUFFICES ASSUME NEW c \in Cmds, c \in Recoverable
               PROVE  /\ journal'[c] \in Row /\ journal'[c].phase = "NACKED"
                      /\ journal'[c].links = journal[c].links
                      /\ journal'[c].pending = journal[c].pending
    BY DEF RecoverApplyingOperations
  <2>1. journal[c] \in Row
    BY DEF JournalTypeOK
  <2>2. journal'[c] = [journal[c] EXCEPT !.phase = "NACKED", !.reason = "recovered"]
    BY DEF RecoverApplyingOperations
  <2> QED
    BY <2>1, <2>2 DEF Row, Phases
<1>5. JournalTypeOK'
  <2>1. journal' \in [Cmds -> Row]
    BY <1>4 DEF RecoverApplyingOperations, JournalTypeOK
  <2> QED
    BY <2>1 DEF RecoverApplyingOperations, PutIntents, JournalTypeOK
<1>6. SettledIsQueued'
  BY SMT, <1>3, <1>4 DEF SettledIsQueued, Queued, Ops
<1>7. NoResurrection'
  <2> SUFFICES ASSUME NEW o \in Ops, receipt[o] # NoResult
               PROVE  /\ result'[o] = NoResult /\ ~Queued(o)'
                      /\ o \in Cmds => o \notin inbox /\ journal'[o].phase = "NONE"
    BY DEF NoResurrection
  <2>1. o \notin Recoverable /\ result'[o] = NoResult
    BY <1>3 DEF NoResurrection
  <2> QED
    BY SMT, <1>3, <1>4, <2>1 DEF NoResurrection, RowsAgree, Queued
<1>8. EffectsAgree'
  <2> SUFFICES ASSUME NEW c \in Cmds
               PROVE  /\ journal'[c].phase \in {"NONE", "RECEIVED", "INTENT_PERSISTED"}
                           /\ receipt[c] = NoResult => effects[c] = 0 /\ result'[c] = NoResult
                      /\ Known(c)' \in {"applied", "acked"} => effects[c] = 1
                      /\ journal'[c].pending => journal'[c].links
                      /\ journal'[c].links => Linked(c)
    BY DEF EffectsAgree, Linked
  <2>1. CASE c \in Recoverable
    BY <1>3, <1>4, <2>1 DEF EffectsAgree, Known, Ops, NoResult
  <2>2. CASE c \notin Recoverable
    BY SMT, <1>3, <1>4, <2>2 DEF EffectsAgree, Known, Ops, NoResult
  <2> QED
    BY <2>1, <2>2
<1> QED
  BY <1>3, <1>5, <1>6, <1>7, <1>8 DEF DurableInv, AtMostOnce

(* Whoever else works on the rows, the pump and the Controller keep what    *)
(* they know as long as no outcome is revised.                              *)
LEMMA OthersKept ==
  ASSUME IndInv, pump' = pump, ctl' = ctl, c2a' \subseteq c2a, receipt' = receipt,
         effects' \in [Cmds -> Nat],
         \A o \in Ops : Known(o) # NoResult => Known(o)' = Known(o)
  PROVE  PumpAgrees' /\ ControllerTypeOK' /\ ControllerAgrees'
<1> USE DEF IndInv, TypeOK
<1>1. NoResult \notin Results
  BY DEF Results, NoResult
<1>2. PumpAgrees'
  BY <1>1 DEF PumpAgrees, WorkerTypeOK
<1>3. ControllerTypeOK'
  BY DEF ControllerTypeOK
<1>4. ControllerAgrees'
  BY <1>1 DEF ControllerAgrees, ControllerTypeOK
<1> QED
  BY <1>2, <1>3, <1>4

(* Recovery in the handshake.                                               *)
LEMMA HandshakeRecoverStep ==
  ASSUME IndInv, HandshakeRecover
  PROVE  IndInv'
<1> USE DEF HandshakeRecover
<1>1. DurableInv' /\ \A o \in Ops : Known(o) # NoResult => Known(o)' = Known(o)
  <2>1. CASE RecoverApplyingOperations
    BY <2>1, RecoveryFacts
  <2>2. CASE UNCHANGED <<journal, fence, result, outbox>>
    BY <2>2, QuietFacts DEF rows
  <2> QED
    BY <2>1, <2>2
<1>2. PumpAgrees' /\ ControllerTypeOK' /\ ControllerAgrees'
  BY <1>1, OthersKept DEF IndInv, TypeOK, ControllerTypeOK
<1>3. SessionTypeOK' /\ WorkerTypeOK'
  BY SMT DEF IndInv, TypeOK, SessionTypeOK, WorkerTypeOK
<1>4. FrameAgrees'
  BY IdleFacts DEF IndInv, FrameAgrees
<1> QED
  BY <1>1, <1>2, <1>3, <1>4 DEF IndInv, TypeOK, DurableInv

(* RecoverApplyingOperations on an APPLYING duplicate.                      *)
LEMMA RecoverDuplicateStep ==
  ASSUME IndInv, RecoverDuplicate
  PROVE  IndInv'
<1> USE DEF RecoverDuplicate
<1>1. DurableInv' /\ \A o \in Ops : Known(o) # NoResult => Known(o)' = Known(o)
  <2>1. CASE RecoverApplyingOperations
    BY <2>1, RecoveryFacts
  <2>2. CASE UNCHANGED <<journal, fence, result, outbox>>
    BY <2>2, QuietFacts DEF rows
  <2> QED
    BY <2>1, <2>2
<1>2. /\ frame' = IdleFrame /\ c2a' \subseteq c2a /\ link' \in {link, "down"}
  BY DEF CloseSession
<1>3. PumpAgrees' /\ ControllerTypeOK' /\ ControllerAgrees'
  BY <1>1, <1>2, OthersKept DEF IndInv, TypeOK, ControllerTypeOK
<1>4. SessionTypeOK' /\ WorkerTypeOK'
  BY SMT, <1>2, IdleFacts DEF IndInv, TypeOK, SessionTypeOK, WorkerTypeOK
<1>5. FrameAgrees'
  BY <1>2, IdleFacts DEF IndInv, FrameAgrees
<1> QED
  BY <1>1, <1>3, <1>4, <1>5 DEF IndInv, TypeOK, DurableInv

(* Writing one journal row of an operation without receipt, with a phase    *)
(* that claims nothing new about its effect or its answer.                  *)
Early == {"NONE", "RECEIVED", "INTENT_PERSISTED"}
Settled == {"APPLIED", "NACKED"}

LEMMA RowFacts ==
  ASSUME IndInv, NEW c \in Cmds, NEW j \in Row,
         journal' = [journal EXCEPT ![c] = j], receipt[c] = NoResult,
         j.phase \in Early => journal[c].phase \in Early,
         j.phase \in Settled => journal[c].phase = j.phase,
         j.pending => j.links, j.links => Linked(c),
         inbox' \subseteq Cmds, inbox' \subseteq inbox \cup {c},
         fence' \in [Dels -> {"none", "pending", "tombstoned"}],
         UNCHANGED <<result, outbox, receipt, effects>>
  PROVE  DurableInv' /\ \A o \in Ops : Known(o)' = Known(o)
<1> USE ConstantsAssumption DEF IndInv, TypeOK
<1>1. journal'[c] = j /\ \A k \in Cmds \ {c} : journal'[k] = journal[k]
  BY DEF JournalTypeOK
<1>2. JournalTypeOK'
  BY <1>1 DEF JournalTypeOK
<1>3. \A o \in Ops : (Known(o)' = Known(o)) /\ (Queued(o)' <=> Queued(o))
  BY DEF Known, Queued
<1>4. OutboxTypeOK' /\ RowsAgree' /\ AtMostOnce'
  BY DEF OutboxTypeOK, RowsAgree, AtMostOnce, Queued
<1>5. SettledIsQueued'
  BY SMT, <1>1, <1>3 DEF SettledIsQueued, Ops, Settled
<1>6. NoResurrection'
  BY <1>1, <1>3 DEF NoResurrection, Ops
<1>7. EffectsAgree'
  <2> SUFFICES ASSUME NEW k \in Cmds
               PROVE  /\ journal'[k].phase \in Early /\ receipt[k] = NoResult
                            => effects[k] = 0 /\ result[k] = NoResult
                      /\ Known(k)' \in {"applied", "acked"} => effects[k] = 1
                      /\ journal'[k].pending => journal'[k].links
                      /\ journal'[k].links => Linked(k)
    BY DEF EffectsAgree, Linked, Early
  <2>1. CASE k = c
    BY SMT, <1>1, <1>3, <2>1 DEF EffectsAgree, Ops, Early
  <2>2. CASE k # c
    BY <1>1, <1>3, <2>2 DEF EffectsAgree, Ops, Early
  <2> QED
    BY <2>1, <2>2
<1> QED
  BY <1>2, <1>3, <1>4, <1>5, <1>6, <1>7 DEF DurableInv

(* A first delivery: inbox row, journal row and fences in one transaction.  *)
LEMMA ReceiveNewStep ==
  ASSUME IndInv, ReceiveNew
  PROVE  IndInv'
<1> USE ConstantsAssumption DEF IndInv, TypeOK
<1>1. PICK c \in Cmds : /\ Reads(Command(c))
                        /\ receipt[c] = NoResult /\ c \notin inbox /\ journal[c].phase = "NONE"
                        /\ inbox' = inbox \cup {c}
                        /\ journal' = [journal EXCEPT ![c] =
                              [phase |-> "RECEIVED", reason |-> "none", pending |-> FALSE,
                               payload |-> c \in PayloadCmds, links |-> Linked(c)]]
                        /\ PutIntents(IF Linked(c) THEN {ReportOf[c]} ELSE {})
                        /\ frame' = [IdleFrame EXCEPT !.pc = "intent", !.op = c]
                        /\ c2a' = c2a \ {Command(c)}
  BY DEF ReceiveNew
<1>2. UNCHANGED <<session, accepted, result, outbox, receipt, link, conn, pump, ctl, effects>>
  BY DEF ReceiveNew
<1> DEFINE j == [phase |-> "RECEIVED", reason |-> "none", pending |-> FALSE,
                 payload |-> c \in PayloadCmds, links |-> Linked(c)]
<1>3. /\ j \in Row /\ j.phase = "RECEIVED" /\ j.pending = FALSE /\ j.links = Linked(c)
      /\ journal'[c] = j
  BY SMT, <1>1 DEF JournalTypeOK, Row, Phases, Linked
<1>4. fence' \in [Dels -> {"none", "pending", "tombstoned"}]
  BY <1>1 DEF JournalTypeOK, PutIntents
<1>5. DurableInv' /\ \A o \in Ops : Known(o)' = Known(o)
  <2>1. inbox' \subseteq Cmds /\ inbox' \subseteq inbox \cup {c}
    BY <1>1 DEF JournalTypeOK
  <2> HIDE DEF j, IndInv, TypeOK
  <2> QED
    BY <1>1, <1>2, <1>3, <1>4, <2>1, RowFacts DEF Early, Settled, j
<1>9. PumpAgrees' /\ ControllerTypeOK' /\ ControllerAgrees'
  BY <1>1, <1>2, <1>5, OthersKept DEF ControllerTypeOK
<1>10. frame'.pc = "intent" /\ frame'.op = c
       /\ frame' \in [pc: FrameSteps, op: Ops \cup {NoOp}, ok: BOOLEAN, clean: BOOLEAN]
  BY <1>1, IdleFacts DEF IdleFrame, FrameSteps, CommandSteps, Ops
<1>11. SessionTypeOK' /\ WorkerTypeOK'
  BY <1>2, <1>10 DEF SessionTypeOK, WorkerTypeOK, ReceiptSteps
<1>12. FrameAgrees'
  BY <1>1, <1>2, <1>3, <1>10 DEF FrameAgrees, Reads, ReceiptSteps
<1> QED
  BY <1>5, <1>9, <1>11, <1>12 DEF DurableInv

(* A redelivery: legacy rows are backfilled, and the next step fits the     *)
(* phase found.                                                             *)
LEMMA ReceiveDuplicateStep ==
  ASSUME IndInv, ReceiveDuplicate
  PROVE  IndInv'
<1> USE ConstantsAssumption DEF IndInv, TypeOK
<1>1. PICK c \in Cmds :
        /\ Reads(Command(c))
        /\ receipt[c] = NoResult /\ journal[c].phase # "NONE"
        /\ journal' = [journal EXCEPT ![c] = Backfilled(c)]
        /\ PutIntents(IF Linked(c) THEN {ReportOf[c]} ELSE {})
        /\ \/ frame' = IdleFrame
           \/ /\ NextStep(c, Backfilled(c)) # "idle"
              /\ frame' = [IdleFrame EXCEPT !.pc = NextStep(c, Backfilled(c)), !.op = c]
        /\ c2a' \subseteq c2a /\ link' \in {link, "down"}
  BY DEF ReceiveDuplicate, CloseSession
<1>2. UNCHANGED <<session, accepted, inbox, result, outbox, receipt, conn, pump, ctl, effects>>
  BY DEF ReceiveDuplicate
<1> DEFINE j == Backfilled(c)
<1>3. /\ j \in Row /\ j.phase = journal[c].phase
      /\ j.pending => j.links
      /\ j.links => Linked(c)
  <2>1. journal[c] \in Row
    BY DEF JournalTypeOK
  <2>2. CASE c \in PayloadCmds /\ ~journal[c].payload
    BY <2>1, <2>2 DEF Backfilled, Row, Linked
  <2>3. CASE ~(c \in PayloadCmds /\ ~journal[c].payload)
    BY <2>1, <2>3 DEF Backfilled, EffectsAgree
  <2> QED
    BY <2>2, <2>3
<1>4. fence' \in [Dels -> {"none", "pending", "tombstoned"}]
  BY <1>1 DEF JournalTypeOK, PutIntents
<1>5. DurableInv' /\ \A o \in Ops : Known(o)' = Known(o)
  <2>1. inbox' \subseteq Cmds /\ inbox' \subseteq inbox \cup {c}
    BY <1>2 DEF JournalTypeOK
  <2> HIDE DEF j, IndInv, TypeOK
  <2> QED
    BY <1>1, <1>2, <1>3, <1>4, <2>1, RowFacts DEF j
<1>6. journal'[c] = j
  BY <1>1 DEF JournalTypeOK
<1>7. PumpAgrees' /\ ControllerTypeOK' /\ ControllerAgrees'
  BY <1>1, <1>2, <1>5, OthersKept DEF ControllerTypeOK
<1>8. \/ frame' = IdleFrame
      \/ /\ frame' \in [pc: FrameSteps, op: Ops \cup {NoOp}, ok: BOOLEAN, clean: BOOLEAN]
         /\ frame'.op = c
         /\ \/ frame'.pc = "intent" /\ j.phase = "RECEIVED"
            \/ frame'.pc = "applying" /\ j.phase = "INTENT_PERSISTED"
            \/ frame'.pc = "converge" /\ j.phase \in {"APPLYING", "NACKED"} /\ Linked(c)
            \/ frame'.pc = "recover"
            \/ frame'.pc = "requeueNack" /\ j.phase = "NACKED"
  <2>1. SUFFICES ASSUME NextStep(c, j) # "idle",
                        frame' = [IdleFrame EXCEPT !.pc = NextStep(c, j), !.op = c]
                 PROVE  /\ frame' \in [pc: FrameSteps, op: Ops \cup {NoOp},
                                       ok: BOOLEAN, clean: BOOLEAN]
                        /\ frame'.op = c
                        /\ \/ frame'.pc = "intent" /\ j.phase = "RECEIVED"
                           \/ frame'.pc = "applying" /\ j.phase = "INTENT_PERSISTED"
                           \/ frame'.pc = "converge" /\ j.phase \in {"APPLYING", "NACKED"}
                                 /\ Linked(c)
                           \/ frame'.pc = "recover"
                           \/ frame'.pc = "requeueNack" /\ j.phase = "NACKED"
    BY <1>1
  <2>2. frame'.pc = NextStep(c, j) /\ frame'.op = c
    BY <2>1 DEF IdleFrame
  <2>3. \/ NextStep(c, j) = "intent" /\ j.phase = "RECEIVED"
        \/ NextStep(c, j) = "applying" /\ j.phase = "INTENT_PERSISTED"
        \/ NextStep(c, j) = "converge" /\ j.phase \in {"APPLYING", "NACKED"} /\ Linked(c)
        \/ NextStep(c, j) = "recover"
        \/ NextStep(c, j) = "requeueNack" /\ j.phase = "NACKED"
    <3> HIDE DEF j
    <3> QED
      BY <1>3, <2>1 DEF NextStep
  <2>4. NextStep(c, j) \in FrameSteps
    BY <2>3 DEF FrameSteps, CommandSteps
  <2>5. frame' \in [pc: FrameSteps, op: Ops \cup {NoOp}, ok: BOOLEAN, clean: BOOLEAN]
    BY <2>1, <2>4 DEF IdleFrame, Ops
  <2> QED
    BY <2>2, <2>3, <2>5
<1>9. SessionTypeOK' /\ WorkerTypeOK'
  BY SMT, <1>1, <1>2, <1>8, IdleFacts DEF SessionTypeOK, WorkerTypeOK, CommandSteps, ReceiptSteps
<1>10. FrameAgrees'
  <2> HIDE DEF j
  <2> QED
    BY <1>1, <1>2, <1>6, <1>8, IdleFacts DEF FrameAgrees, Reads, CommandSteps, ReceiptSteps,
       Linked
<1> QED
  BY <1>5, <1>7, <1>9, <1>10 DEF DurableInv

(* RECEIVED to INTENT_PERSISTED.                                            *)
LEMMA PersistIntentStep ==
  ASSUME IndInv, PersistOperationIntent
  PROVE  IndInv'
<1> USE ConstantsAssumption DEF IndInv, TypeOK, PersistOperationIntent
<1> DEFINE c == frame.op
           j == [journal[c] EXCEPT !.phase = "INTENT_PERSISTED"]
<1>1. /\ c \in Cmds /\ receipt[c] = NoResult /\ journal[c] \in Row
      /\ journal[c].phase = "RECEIVED"
  BY DEF WorkerTypeOK, CommandSteps, FrameAgrees, JournalTypeOK
<1>2. journal' = [journal EXCEPT ![c] = j]
  BY DEF SetPhase
<1>3. /\ j \in Row /\ j.phase = "INTENT_PERSISTED"
      /\ j.links = journal[c].links /\ j.pending = journal[c].pending
  BY <1>1 DEF Row, Phases
<1>4. DurableInv' /\ \A o \in Ops : Known(o)' = Known(o)
  <2>1. /\ inbox' \subseteq Cmds /\ inbox' \subseteq inbox \cup {c}
        /\ fence' \in [Dels -> {"none", "pending", "tombstoned"}]
        /\ UNCHANGED <<result, outbox, receipt, effects>>
    BY DEF JournalTypeOK
  <2>2. (j.pending => j.links) /\ (j.links => Linked(c))
    BY <1>1, <1>3 DEF EffectsAgree
  <2> HIDE DEF j, c, IndInv, TypeOK, PersistOperationIntent
  <2> QED
    BY <1>1, <1>2, <1>3, <2>1, <2>2, RowFacts DEF Early, Settled
<1>5. PumpAgrees' /\ ControllerTypeOK' /\ ControllerAgrees'
  BY <1>4, OthersKept DEF ControllerTypeOK
<1>6. frame' = [frame EXCEPT !.pc = "applying"]
  BY DEF FrameGoto
<1>7. SessionTypeOK' /\ WorkerTypeOK'
  BY <1>1, <1>6 DEF SessionTypeOK, WorkerTypeOK, FrameSteps, CommandSteps, ReceiptSteps
<1>8. FrameAgrees'
  <2>1. journal'[c].phase = "INTENT_PERSISTED" /\ frame'.pc = "applying" /\ frame'.op = c
    BY <1>1, <1>2, <1>3, <1>6 DEF JournalTypeOK, WorkerTypeOK
  <2> QED
    BY <1>1, <2>1 DEF FrameAgrees, ReceiptSteps
<1> QED
  BY <1>4, <1>5, <1>7, <1>8 DEF DurableInv

(* INTENT_PERSISTED to APPLYING: from here the cleanup is owed.             *)
LEMMA MarkApplyingStep ==
  ASSUME IndInv, MarkOperationApplying
  PROVE  IndInv'
<1> USE ConstantsAssumption DEF IndInv, TypeOK, MarkOperationApplying
<1> DEFINE c == frame.op
           j == [journal[c] EXCEPT !.phase = "APPLYING",
                                   !.pending = journal[c].pending \/ journal[c].links]
<1>1. /\ c \in Cmds /\ receipt[c] = NoResult /\ journal[c] \in Row
      /\ journal[c].phase = "INTENT_PERSISTED"
  BY DEF WorkerTypeOK, CommandSteps, FrameAgrees, JournalTypeOK
<1>2. journal' = [journal EXCEPT ![c] = j]
  BY <1>1 DEF JournalTypeOK, Row
<1>3. /\ j \in Row /\ j.phase = "APPLYING"
      /\ j.links = journal[c].links /\ j.pending = (journal[c].pending \/ journal[c].links)
  BY <1>1 DEF Row, Phases
<1>4. DurableInv' /\ \A o \in Ops : Known(o)' = Known(o)
  <2>1. /\ inbox' \subseteq Cmds /\ inbox' \subseteq inbox \cup {c}
        /\ fence' \in [Dels -> {"none", "pending", "tombstoned"}]
        /\ UNCHANGED <<result, outbox, receipt, effects>>
    BY DEF JournalTypeOK
  <2>2. (j.pending => j.links) /\ (j.links => Linked(c))
    BY <1>1, <1>3 DEF EffectsAgree
  <2> HIDE DEF j, c, IndInv, TypeOK, MarkOperationApplying
  <2> QED
    BY <1>1, <1>2, <1>3, <2>1, <2>2, RowFacts DEF Early, Settled
<1>5. PumpAgrees' /\ ControllerTypeOK' /\ ControllerAgrees'
  BY <1>4, OthersKept DEF ControllerTypeOK
<1>6. frame' = [frame EXCEPT !.pc = "run"]
  BY DEF FrameGoto
<1>7. SessionTypeOK' /\ WorkerTypeOK'
  BY <1>1, <1>6 DEF SessionTypeOK, WorkerTypeOK, FrameSteps, CommandSteps, ReceiptSteps
<1>8. FrameAgrees'
  <2>1. journal'[c].phase = "APPLYING" /\ frame'.pc = "run" /\ frame'.op = c
    BY SMT, <1>1, <1>2, <1>3, <1>6 DEF JournalTypeOK, WorkerTypeOK
  <2>2. effects[c] = 0 /\ result[c] = NoResult
    BY <1>1 DEF EffectsAgree
  <2> QED
    BY <1>1, <2>1, <2>2 DEF FrameAgrees, ReceiptSteps
<1> QED
  BY <1>4, <1>5, <1>7, <1>8 DEF DurableInv

(* The owed cleanup is done.                                                *)
LEMMA CompleteRecoveredStep ==
  ASSUME IndInv, CompleteRecoveredDeletion
  PROVE  IndInv'
<1> USE ConstantsAssumption DEF IndInv, TypeOK, CompleteRecoveredDeletion
<1> DEFINE c == frame.op
           j == [journal[c] EXCEPT !.pending = FALSE]
<1>1. /\ c \in Cmds /\ receipt[c] = NoResult /\ journal[c] \in Row
      /\ journal[c].phase \in {"APPLYING", "NACKED"}
  BY DEF WorkerTypeOK, CommandSteps, FrameAgrees, JournalTypeOK
<1>2. journal' = [journal EXCEPT ![c] = j]
  OBVIOUS
<1>3. /\ j \in Row /\ j.phase = journal[c].phase
      /\ j.links = journal[c].links /\ j.pending = FALSE
  BY <1>1 DEF Row, Phases
<1>4. DurableInv' /\ \A o \in Ops : Known(o)' = Known(o)
  <2>1. /\ inbox' \subseteq Cmds /\ inbox' \subseteq inbox \cup {c}
        /\ fence' \in [Dels -> {"none", "pending", "tombstoned"}]
        /\ UNCHANGED <<result, outbox, receipt, effects>>
    BY DEF JournalTypeOK
  <2>2. (j.pending => j.links) /\ (j.links => Linked(c))
    BY <1>1, <1>3 DEF EffectsAgree
  <2> HIDE DEF j, c, IndInv, TypeOK, CompleteRecoveredDeletion
  <2> QED
    BY <1>1, <1>2, <1>3, <2>1, <2>2, RowFacts DEF Early, Settled
<1>5. PumpAgrees' /\ ControllerTypeOK' /\ ControllerAgrees'
  BY <1>4, OthersKept DEF ControllerTypeOK
<1> DEFINE step == IF journal[c].phase = "NACKED" THEN "requeueNack" ELSE "recover"
<1>6. frame' = [frame EXCEPT !.pc = step]
  BY DEF FrameGoto
<1>7. SessionTypeOK' /\ WorkerTypeOK'
  BY <1>1, <1>6 DEF SessionTypeOK, WorkerTypeOK, FrameSteps, CommandSteps, ReceiptSteps
<1>8. FrameAgrees'
  <2>1. journal'[c].phase = journal[c].phase /\ frame'.pc = step /\ frame'.op = c
    BY <1>1, <1>2, <1>3, <1>6 DEF JournalTypeOK, WorkerTypeOK
  <2> QED
    BY <1>1, <2>1 DEF FrameAgrees, ReceiptSteps
<1> QED
  BY <1>4, <1>5, <1>7, <1>8 DEF DurableInv

(* The side effect itself: it was not yet run, and no answer exists yet.    *)
LEMMA OnCommandStep ==
  ASSUME IndInv, OnCommand
  PROVE  IndInv'
<1> USE ConstantsAssumption DEF IndInv, TypeOK
<1> DEFINE c == frame.op
<1>1. /\ c \in Cmds /\ receipt[c] = NoResult /\ journal[c].phase = "APPLYING"
      /\ effects[c] = 0 /\ result[c] = NoResult
  BY DEF OnCommand, WorkerTypeOK, CommandSteps, FrameAgrees
<1>2. effects' = [effects EXCEPT ![c] = 1] /\ effects' \in [Cmds -> Nat]
  BY SMT, <1>1 DEF OnCommand, ControllerTypeOK
<1>3. UNCHANGED <<session, accepted, inbox, journal, result, outbox, receipt, link, conn, pump,
                  c2a, ctl>>
  BY DEF OnCommand
<1>4. JournalTypeOK' /\ OutboxTypeOK' /\ RowsAgree'
  BY SMT, <1>3 DEF OnCommand, JournalTypeOK, OutboxTypeOK, RowsAgree, Queued
<1>5. \A o \in Ops : Known(o)' = Known(o)
  BY <1>3 DEF Known
<1>6. SettledIsQueued' /\ NoResurrection'
  BY <1>3 DEF SettledIsQueued, NoResurrection, Queued
<1>7. AtMostOnce' /\ EffectsAgree'
  <2>1. \A k \in Cmds : effects'[k] = IF k = c THEN 1 ELSE effects[k]
    BY <1>2 DEF ControllerTypeOK
  <2>2. AtMostOnce'
    BY SMT, <2>1 DEF AtMostOnce
  <2>3. EffectsAgree'
    BY SMT, <1>1, <1>3, <1>5, <2>1 DEF EffectsAgree, Linked, Ops
  <2> QED
    BY <2>2, <2>3
<1>8. PumpAgrees' /\ ControllerTypeOK' /\ ControllerAgrees'
  BY <1>2, <1>3, <1>5, OthersKept
<1>9. /\ frame' \in [pc: FrameSteps, op: Ops \cup {NoOp}, ok: BOOLEAN, clean: BOOLEAN]
      /\ frame'.op = c
      /\ frame'.pc \in {"finish", "report"}
      /\ frame'.pc = "report" => ReportOf[c] # NoOp
  <2>1. PICK ok, reports, clean \in BOOLEAN :
          /\ reports => ReportOf[c] # NoOp
          /\ frame' = [frame EXCEPT !.pc = IF reports THEN "report" ELSE "finish",
                                    !.ok = ok, !.clean = clean]
    BY DEF OnCommand
  <2> DEFINE step == IF reports THEN "report" ELSE "finish"
  <2>2. step \in FrameSteps
    BY DEF FrameSteps, CommandSteps
  <2>3. frame' = [frame EXCEPT !.pc = step, !.ok = ok, !.clean = clean]
    BY <2>1
  <2>4. /\ frame' \in [pc: FrameSteps, op: Ops \cup {NoOp}, ok: BOOLEAN, clean: BOOLEAN]
        /\ frame'.op = c /\ frame'.pc = step
    <3> HIDE DEF step
    <3> QED
      BY <2>2, <2>3 DEF WorkerTypeOK
  <2>5. CASE reports
    BY <2>1, <2>4, <2>5
  <2>6. CASE ~reports
    BY <2>4, <2>6
  <2> QED
    BY <2>5, <2>6
<1>10. SessionTypeOK' /\ WorkerTypeOK'
  BY <1>1, <1>3, <1>9 DEF SessionTypeOK, WorkerTypeOK, CommandSteps, ReceiptSteps
<1>11. FrameAgrees'
  <2>1. effects'[c] = 1 /\ conn = "idle"
    BY <1>1, <1>2 DEF ControllerTypeOK, OnCommand, FrameAgrees
  <2> QED
    BY <1>1, <1>3, <1>9, <2>1 DEF FrameAgrees, CommandSteps, ReceiptSteps
<1> QED
  BY <1>4, <1>6, <1>7, <1>8, <1>10, <1>11

(* Recording one result from a step of the frame loop that leaves the       *)
(* journal alone: a deletion report, a recovered deletion, a repaired NACK. *)
LEMMA ReportFacts ==
  ASSUME IndInv, NEW o \in Ops, NEW r \in Results, ~RecordFails(o, r),
         RecordResultAndQueue({o}, r),
         o \in Cmds => journal[o].phase \notin {"NONE", "RECEIVED", "INTENT_PERSISTED"},
         o \in Cmds /\ r \in {"applied", "acked"} => effects[o] = 1,
         fence' \in [Dels -> {"none", "pending", "tombstoned"}],
         UNCHANGED <<inbox, journal, receipt, effects>>
  PROVE  DurableInv' /\ \A k \in Ops : Known(k) # NoResult => Known(k)' = Known(k)
<1> DEFINE S == {o}
<1>1. /\ OutboxTypeOK' /\ RowsAgree'
      /\ \A k \in Ops : Known(k) # NoResult => Known(k)' = Known(k)
      /\ \A k \in Ops : Queued(k) => Queued(k)'
      /\ \A k \in S : /\ Queued(k)' /\ receipt[k] = NoResult
                      /\ result'[k] = result[k] \/ result'[k] = r
      /\ \A k \in Ops \ S : result'[k] = result[k]
  <2>1. S \in SUBSET Ops /\ (\A k \in S : ~RecordFails(k, r)) /\ RecordResultAndQueue(S, r)
    OBVIOUS
  <2> HIDE DEF S
  <2> QED
    BY <2>1, RecordFacts
<1> USE ConstantsAssumption DEF IndInv, TypeOK
<1>2. JournalTypeOK' /\ AtMostOnce'
  BY DEF JournalTypeOK, AtMostOnce
<1>3. SettledIsQueued'
  BY <1>1 DEF SettledIsQueued, Ops
<1>4. NoResurrection'
  <2> SUFFICES ASSUME NEW k \in Ops, receipt[k] # NoResult
               PROVE  /\ result'[k] = NoResult /\ ~Queued(k)'
                      /\ k \in Cmds => k \notin inbox /\ journal[k].phase = "NONE"
    BY DEF NoResurrection
  <2>1. k # o /\ result'[k] = NoResult
    BY <1>1 DEF NoResurrection
  <2> QED
    BY <1>1, <2>1 DEF NoResurrection, RowsAgree
<1>5. EffectsAgree'
  <2> SUFFICES ASSUME NEW k \in Cmds
               PROVE  /\ journal[k].phase \in {"NONE", "RECEIVED", "INTENT_PERSISTED"}
                           /\ receipt[k] = NoResult => effects[k] = 0 /\ result'[k] = NoResult
                      /\ Known(k)' \in {"applied", "acked"} => effects[k] = 1
                      /\ journal[k].pending => journal[k].links
                      /\ journal[k].links => Linked(k)
    BY DEF EffectsAgree, Linked
  <2>1. CASE k = o
    BY <1>1, <2>1 DEF EffectsAgree, Known, Ops
  <2>2. CASE k # o
    BY <1>1, <2>2 DEF EffectsAgree, Known, Ops
  <2> QED
    BY <2>1, <2>2
<1> QED
  BY <1>1, <1>2, <1>3, <1>4, <1>5 DEF DurableInv

(* The deletion or decommission result the handler queues.                  *)
LEMMA QueueReportStep ==
  ASSUME IndInv, QueueReport
  PROVE  IndInv'
<1> USE ConstantsAssumption DEF IndInv, TypeOK
<1> DEFINE c == frame.op
           o == ReportOf[c]
<1>1. /\ c \in Cmds /\ o \in Ops /\ o \in Dels \cup {c} /\ receipt[c] = NoResult
      /\ journal[c].phase = "APPLYING" /\ effects[c] = 1 /\ frame.pc = "report"
  BY DEF QueueReport, WorkerTypeOK, CommandSteps, FrameAgrees, Ops
<1>2. ReportValue \in Results
  BY DEF ReportValue, Results
<1>3. UNCHANGED <<session, accepted, inbox, journal, receipt, fence, link, conn, pump, c2a, ctl,
                  effects>>
  BY DEF QueueReport
<1>4. DurableInv' /\ \A k \in Ops : Known(k) # NoResult => Known(k)' = Known(k)
  <2>1. CASE ~RecordFails(o, ReportValue) /\ RecordResultAndQueue({o}, ReportValue)
    <3>1. /\ o \in Cmds => o = c
          /\ fence' \in [Dels -> {"none", "pending", "tombstoned"}]
      BY <1>1, <1>3 DEF JournalTypeOK
    <3> HIDE DEF o, c, IndInv, TypeOK
    <3> QED
      BY <1>1, <1>2, <1>3, <2>1, <3>1, ReportFacts
  <2>2. CASE UNCHANGED <<result, outbox>>
    BY <1>3, <2>2, QuietFacts DEF rows
  <2> QED
    BY <2>1, <2>2 DEF QueueReport
<1>5. PumpAgrees' /\ ControllerTypeOK' /\ ControllerAgrees'
  BY <1>3, <1>4, OthersKept DEF ControllerTypeOK
<1>6. /\ frame' \in [pc: FrameSteps, op: Ops \cup {NoOp}, ok: BOOLEAN, clean: BOOLEAN]
      /\ frame'.op = c /\ frame'.pc = "finish"
  BY ZenonT(30) DEF QueueReport, FrameGoto, WorkerTypeOK, FrameSteps, CommandSteps
<1>7. SessionTypeOK' /\ WorkerTypeOK'
  BY <1>1, <1>3, <1>6 DEF SessionTypeOK, WorkerTypeOK, ReceiptSteps
<1>8. FrameAgrees'
  BY <1>1, <1>3, <1>6 DEF FrameAgrees, CommandSteps, ReceiptSteps
<1> QED
  BY <1>4, <1>5, <1>7, <1>8 DEF DurableInv

(* A recovered deletion converges, or the session ends.                     *)
LEMMA ConvergeStep ==
  ASSUME IndInv, ConvergeDeletion
  PROVE  IndInv'
<1> USE ConstantsAssumption DEF IndInv, TypeOK
<1> DEFINE c == frame.op
           d == ReportOf[c]
<1>1. /\ c \in Cmds /\ d \in Dels /\ d \in Ops /\ d \notin Cmds /\ receipt[c] = NoResult
      /\ journal[c].phase \in {"APPLYING", "NACKED"} /\ frame.pc = "converge"
  BY DEF ConvergeDeletion, WorkerTypeOK, CommandSteps, FrameAgrees, Ops
<1>2. UNCHANGED <<session, accepted, inbox, journal, receipt, conn, pump, ctl, effects>>
  BY DEF ConvergeDeletion
<1>3. fence' \in [Dels -> {"none", "pending", "tombstoned"}]
  BY DEF ConvergeDeletion, JournalTypeOK
<1>4. DurableInv' /\ \A k \in Ops : Known(k) # NoResult => Known(k)' = Known(k)
  <2>1. CASE ~RecordFails(d, "deleted") /\ RecordResultAndQueue({d}, "deleted")
    <3>1. "deleted" \in Results
      BY DEF Results
    <3> HIDE DEF d, c, IndInv, TypeOK
    <3> QED
      BY <1>1, <1>2, <1>3, <2>1, <3>1, ReportFacts
  <2>2. CASE UNCHANGED <<result, outbox>>
    BY <1>2, <1>3, <2>2 DEF DurableInv, JournalTypeOK, OutboxTypeOK, RowsAgree, EffectsAgree,
       AtMostOnce, SettledIsQueued, NoResurrection, Known, Queued, Linked
  <2> QED
    BY <2>1, <2>2 DEF ConvergeDeletion
<1>5. /\ c2a' \subseteq c2a /\ link' \in {link, "down"}
      /\ \/ frame' = IdleFrame
         \/ frame' = [frame EXCEPT !.pc = "converged"]
  BY DEF ConvergeDeletion, CloseSession, FrameGoto
<1>6. PumpAgrees' /\ ControllerTypeOK' /\ ControllerAgrees'
  BY <1>2, <1>4, <1>5, OthersKept DEF ControllerTypeOK
<1>7. SessionTypeOK' /\ WorkerTypeOK'
  BY SMT, <1>1, <1>2, <1>5, IdleFacts
  DEF SessionTypeOK, WorkerTypeOK, FrameSteps, CommandSteps, ReceiptSteps
<1>8. FrameAgrees'
  <2>1. CASE frame' = IdleFrame
    BY <1>2, <1>5, <2>1, IdleFacts DEF FrameAgrees
  <2>2. CASE frame' = [frame EXCEPT !.pc = "converged"]
    <3>1. frame'.pc = "converged" /\ frame'.op = c
      BY <2>2 DEF WorkerTypeOK
    <3> QED
      BY <1>1, <1>2, <1>5, <3>1 DEF FrameAgrees, CommandSteps, ReceiptSteps
  <2> QED
    BY <1>5, <2>1, <2>2
<1> QED
  BY <1>4, <1>6, <1>7, <1>8 DEF DurableInv

(* CompleteOperation and NackOperationWithResult.                           *)
LEMMA FinishStep ==
  ASSUME IndInv, FinishOperation
  PROVE  IndInv'
<1> USE ConstantsAssumption DEF IndInv, TypeOK
<1> DEFINE c == frame.op
           r == IF frame.ok THEN "applied" ELSE "nacked"
           p == IF frame.ok THEN "APPLIED" ELSE "NACKED"
<1>1. /\ c \in Cmds /\ c \in Ops /\ receipt[c] = NoResult /\ journal[c] \in Row
      /\ journal[c].phase = "APPLYING" /\ effects[c] = 1
  BY DEF FinishOperation, WorkerTypeOK, CommandSteps, FrameAgrees, JournalTypeOK, Ops
<1>2. /\ r \in Results /\ p \in Settled
  BY DEF Results, Settled
<1>3. /\ UNCHANGED <<session, accepted, inbox, receipt, fence, conn, pump, ctl, effects>>
      /\ frame' = IdleFrame /\ c2a' \subseteq c2a /\ link' \in {link, "down"}
  BY DEF FinishOperation, CloseSession
<1>4. DurableInv' /\ \A k \in Ops : Known(k) # NoResult => Known(k)' = Known(k)
  <2>1. CASE UNCHANGED <<journal, result, outbox>>
    BY <1>3, <2>1, QuietFacts DEF rows
  <2>2. CASE /\ ~RecordFails(c, r) /\ RecordResultAndQueue({c}, r)
             /\ journal' = [journal EXCEPT
                             ![c].phase = IF frame.ok THEN "APPLIED" ELSE "NACKED",
                             ![c].reason = IF frame.ok THEN @ ELSE "error"]
    <3>1. /\ journal' \in [Cmds -> Row]
          /\ journal'[c].phase = p
          /\ journal'[c].links = journal[c].links /\ journal'[c].pending = journal[c].pending
          /\ \A k \in Cmds \ {c} : journal'[k] = journal[k]
      <4> DEFINE reason == IF frame.ok THEN journal[c].reason ELSE "error"
                 j == [journal[c] EXCEPT !.phase = p, !.reason = reason]
      <4>1. p \in Phases /\ reason \in {"none", "error", "recovered"}
        BY <1>1 DEF Phases, Row
      <4>2. journal' = [journal EXCEPT ![c] = j]
        BY <1>1, <2>2 DEF JournalTypeOK, Row
      <4>3. /\ j \in Row /\ j.phase = p
            /\ j.links = journal[c].links /\ j.pending = journal[c].pending
        <5> HIDE DEF p, reason
        <5> QED
          BY <1>1, <4>1 DEF Row
      <4> HIDE DEF j, p
      <4> QED
        BY <1>1, <4>2, <4>3 DEF JournalTypeOK
    <3> DEFINE S == {c}
    <3>2. /\ OutboxTypeOK' /\ RowsAgree'
          /\ \A k \in Ops : Known(k) # NoResult => Known(k)' = Known(k)
          /\ \A k \in Ops : Queued(k) => Queued(k)'
          /\ \A k \in S : /\ Queued(k)' /\ receipt[k] = NoResult
                          /\ result'[k] = result[k] \/ result'[k] = r
          /\ \A k \in Ops \ S : result'[k] = result[k]
      <4>1. S \in SUBSET Ops /\ (\A k \in S : ~RecordFails(k, r)) /\ RecordResultAndQueue(S, r)
        BY <1>1, <2>2
      <4> HIDE DEF S, c, r, IndInv, TypeOK
      <4> QED
        BY <1>2, <1>3, <4>1, RecordFacts
    <3> HIDE DEF p, r
    <3>3. JournalTypeOK' /\ AtMostOnce'
      BY <1>3, <3>1 DEF JournalTypeOK, AtMostOnce
    <3>4. SettledIsQueued'
      BY <1>1, <3>1, <3>2 DEF SettledIsQueued, Ops
    <3>5. NoResurrection'
      <4> SUFFICES ASSUME NEW k \in Ops, receipt[k] # NoResult
                   PROVE  /\ result'[k] = NoResult /\ ~Queued(k)'
                          /\ k \in Cmds => k \notin inbox /\ journal'[k].phase = "NONE"
        BY <1>3 DEF NoResurrection
      <4>1. k # c /\ result'[k] = NoResult
        BY <1>1, <3>2 DEF NoResurrection
      <4> QED
        BY <3>1, <3>2, <4>1 DEF NoResurrection, RowsAgree
    <3>6. EffectsAgree'
      <4> SUFFICES ASSUME NEW k \in Cmds
                   PROVE  /\ journal'[k].phase \in Early /\ receipt[k] = NoResult
                                => effects[k] = 0 /\ result'[k] = NoResult
                          /\ Known(k)' \in {"applied", "acked"} => effects[k] = 1
                          /\ journal'[k].pending => journal'[k].links
                          /\ journal'[k].links => Linked(k)
        BY <1>3 DEF EffectsAgree, Linked, Early
      <4>1. CASE k = c
        BY <1>1, <1>2, <3>1, <4>1 DEF EffectsAgree, Early, Settled
      <4>2. CASE k # c
        BY <1>3, <3>1, <3>2, <4>2 DEF EffectsAgree, Known, Ops, Early
      <4> QED
        BY <4>1, <4>2
    <3> QED
      BY <3>2, <3>3, <3>4, <3>5, <3>6 DEF DurableInv
  <2> QED
    BY <2>1, <2>2 DEF FinishOperation
<1>5. PumpAgrees' /\ ControllerTypeOK' /\ ControllerAgrees'
  BY <1>3, <1>4, OthersKept DEF ControllerTypeOK
<1>6. SessionTypeOK' /\ WorkerTypeOK'
  BY SMT, <1>3, IdleFacts DEF SessionTypeOK, WorkerTypeOK
<1>7. FrameAgrees'
  BY <1>3, IdleFacts DEF FrameAgrees
<1> QED
  BY <1>4, <1>5, <1>6, <1>7 DEF DurableInv

(* The repaired NACK of a legacy row.                                       *)
LEMMA QueueNackedStep ==
  ASSUME IndInv, QueueNackedResult
  PROVE  IndInv'
<1> USE ConstantsAssumption DEF IndInv, TypeOK
<1> DEFINE c == frame.op
           r == IF journal[c].reason = "recovered" THEN "renacked" ELSE "nacked"
<1>1. /\ c \in Cmds /\ c \in Ops /\ receipt[c] = NoResult /\ journal[c].phase = "NACKED"
  BY DEF QueueNackedResult, WorkerTypeOK, CommandSteps, FrameAgrees, Ops
<1>2. r \in Results /\ r \notin {"applied", "acked"}
  BY DEF Results
<1>3. /\ UNCHANGED <<session, accepted, inbox, journal, receipt, fence, conn, pump, ctl, effects>>
      /\ frame' = IdleFrame /\ c2a' \subseteq c2a /\ link' \in {link, "down"}
  BY DEF QueueNackedResult, CloseSession
<1>4. DurableInv' /\ \A k \in Ops : Known(k) # NoResult => Known(k)' = Known(k)
  <2>1. CASE UNCHANGED <<result, outbox>>
    BY <1>3, <2>1, QuietFacts DEF rows
  <2>2. CASE ~RecordFails(c, r) /\ RecordResultAndQueue({c}, r)
    <3>1. fence' \in [Dels -> {"none", "pending", "tombstoned"}]
      BY <1>3 DEF JournalTypeOK
    <3> HIDE DEF c, r, IndInv, TypeOK
    <3> QED
      BY <1>1, <1>2, <1>3, <2>2, <3>1, ReportFacts
  <2> QED
    BY <2>1, <2>2 DEF QueueNackedResult
<1>5. PumpAgrees' /\ ControllerTypeOK' /\ ControllerAgrees'
  BY <1>3, <1>4, OthersKept DEF ControllerTypeOK
<1>6. SessionTypeOK' /\ WorkerTypeOK'
  BY SMT, <1>3, IdleFacts DEF SessionTypeOK, WorkerTypeOK
<1>7. FrameAgrees'
  BY <1>3, IdleFacts DEF FrameAgrees
<1> QED
  BY <1>4, <1>5, <1>6, <1>7 DEF DurableInv

-----------------------------------------------------------------------------
(* Controller receipts.                                                     *)

LEMMA ReadReceiptStep ==
  ASSUME IndInv, ReadReceipt
  PROVE  IndInv'
<1> USE ConstantsAssumption DEF IndInv, TypeOK
<1>1. PICK o \in Ops :
        /\ Reads(Receipt(o)) /\ c2a' = c2a \ {Receipt(o)}
        /\ \/ frame' = IdleFrame
           \/ \E step \in {"rcClaim", "rcSent", "rcAck"} :
                frame' = [IdleFrame EXCEPT !.pc = step, !.op = o]
  BY DEF ReadReceipt
<1>2. /\ UNCHANGED <<link, conn, pump, ctl, effects>> /\ UNCHANGED <<session, accepted>>
      /\ UNCHANGED rows
  BY DEF ReadReceipt, durable, rows
<1>3. DurableInv' /\ \A k \in Ops : Known(k)' = Known(k)
  BY <1>2, QuietFacts
<1>4. receipt' = receipt /\ effects' \in [Cmds -> Nat]
  BY <1>2 DEF rows, ControllerTypeOK
<1>5. PumpAgrees' /\ ControllerTypeOK' /\ ControllerAgrees'
  BY <1>1, <1>2, <1>3, <1>4, OthersKept
<1>6. \/ frame' = IdleFrame
      \/ /\ frame' \in [pc: FrameSteps, op: Ops \cup {NoOp}, ok: BOOLEAN, clean: BOOLEAN]
         /\ frame'.pc \in {"rcClaim", "rcSent", "rcAck"} /\ frame'.op = o
  BY ZenonT(30), <1>1, IdleFacts DEF IdleFrame, FrameSteps, ReceiptSteps
<1>7. SessionTypeOK' /\ WorkerTypeOK'
  BY SMT, <1>2, <1>6, IdleFacts DEF SessionTypeOK, WorkerTypeOK, CommandSteps
<1>8. FrameAgrees'
  <2>1. ctl.results[o] # {} /\ conn = "idle"
    BY <1>1 DEF ControllerAgrees, FrameAgrees, Reads
  <2> QED
    BY <1>2, <1>6, <2>1, IdleFacts DEF FrameAgrees, CommandSteps
<1> QED
  BY <1>3, <1>5, <1>7, <1>8 DEF DurableInv

(* Claim, sent and semantic acknowledgement taken by the frame loop.        *)
LEMMA ReceiptStageStep ==
  ASSUME IndInv, ReceiptClaim \/ ReceiptMarkSent \/ AcceptSemanticACK
  PROVE  IndInv'
<1> USE ConstantsAssumption DEF IndInv, TypeOK
<1> DEFINE o == frame.op
<1>1. o \in Ops /\ ctl.results[o] # {} /\ frame.pc \in ReceiptSteps
  BY DEF ReceiptClaim, ReceiptMarkSent, AcceptSemanticACK, WorkerTypeOK, FrameAgrees, ReceiptSteps
<1>2. UNCHANGED <<session, accepted, inbox, journal, result, receipt, fence, conn, pump, ctl,
                  effects>>
  BY DEF ReceiptClaim, ReceiptMarkSent, AcceptSemanticACK
<1>3. \/ /\ outbox' = outbox /\ frame' = IdleFrame
         /\ c2a' \subseteq c2a /\ link' \in {link, "down"}
      \/ /\ Queued(o) /\ c2a' = c2a /\ link' = link
         /\ \E st \in {"CLAIMED", "SENT", "SEMANTIC_ACKED"} : SetStage(o, st)
         /\ \E step \in {"rcSent", "rcAck", "rcAccept"} : frame' = [frame EXCEPT !.pc = step]
  BY DEF ReceiptClaim, ReceiptMarkSent, AcceptSemanticACK, CloseSession, FrameGoto, Queued
<1>4. DurableInv' /\ \A k \in Ops : Known(k)' = Known(k)
  <2>1. CASE outbox' = outbox
    BY <1>2, <2>1, QuietFacts DEF rows
  <2>2. CASE Queued(o) /\ \E st \in {"CLAIMED", "SENT", "SEMANTIC_ACKED"} : SetStage(o, st)
    <3>1. PICK st \in Stages \ {"NONE"} : SetStage(o, st)
      BY <2>2 DEF Stages
    <3> HIDE DEF o, IndInv, TypeOK
    <3> QED
      BY <1>1, <1>2, <2>2, <3>1, StageFacts
  <2> QED
    BY <1>3, <2>1, <2>2
<1>5. PumpAgrees' /\ ControllerTypeOK' /\ ControllerAgrees'
  BY <1>2, <1>3, <1>4, OthersKept DEF ControllerTypeOK
<1>6. \/ frame' = IdleFrame
      \/ /\ frame' \in [pc: FrameSteps, op: Ops \cup {NoOp}, ok: BOOLEAN, clean: BOOLEAN]
         /\ frame'.pc \in {"rcSent", "rcAck", "rcAccept"} /\ frame'.op = o /\ link' = link
  BY SMT, <1>3 DEF WorkerTypeOK, FrameSteps, ReceiptSteps
<1>7. SessionTypeOK' /\ WorkerTypeOK'
  BY SMT, <1>1, <1>2, <1>3, <1>6, IdleFacts DEF SessionTypeOK, WorkerTypeOK, CommandSteps
<1>8. FrameAgrees'
  BY <1>1, <1>2, <1>3, <1>6, IdleFacts DEF FrameAgrees, CommandSteps, ReceiptSteps
<1> QED
  BY <1>4, <1>5, <1>7, <1>8 DEF DurableInv

(* The receipt: all rows of the operation go, its outcome stays known.      *)
LEMMA AcceptReceiptStep ==
  ASSUME IndInv, AcceptReceipt
  PROVE  IndInv'
<1> USE ConstantsAssumption DEF IndInv, TypeOK
<1> DEFINE o == frame.op
<1>1. /\ o \in Ops /\ ctl.results[o] # {} /\ receipt[o] = NoResult /\ Queued(o)
      /\ result[o] # NoResult /\ outbox[o].val = result[o]
  BY DEF AcceptReceipt, WorkerTypeOK, FrameAgrees, ReceiptSteps, RowsAgree, Queued
<1>2. /\ receipt' = [receipt EXCEPT ![o] = result[o]]
      /\ outbox' = [outbox EXCEPT ![o] = [stage |-> "NONE", val |-> NoResult]]
      /\ result' = [result EXCEPT ![o] = NoResult]
      /\ journal' = [c \in Cmds |-> IF c = o THEN NoRow ELSE journal[c]]
      /\ inbox' = inbox \ {o}
      /\ frame' = IdleFrame
      /\ UNCHANGED <<session, accepted, fence, link, conn, pump, c2a, ctl, effects>>
  BY <1>1 DEF AcceptReceipt
<1>3. JournalTypeOK' /\ AtMostOnce'
  BY <1>2, LegacyRowFacts DEF JournalTypeOK, AtMostOnce
<1>4. OutboxTypeOK'
  BY <1>1, <1>2 DEF OutboxTypeOK, Stages
<1>5. \A k \in Ops : k # o => /\ receipt'[k] = receipt[k] /\ result'[k] = result[k]
                             /\ outbox'[k] = outbox[k] /\ (Queued(k)' <=> Queued(k))
  BY <1>2 DEF OutboxTypeOK, Queued
<1>6. /\ receipt'[o] = result[o] /\ result'[o] = NoResult
      /\ outbox'[o].stage = "NONE" /\ outbox'[o].val = NoResult
  BY <1>1, <1>2 DEF OutboxTypeOK, Queued
<1>7. \A k \in Ops : Known(k)' = Known(k)
  BY <1>1, <1>5, <1>6 DEF Known
<1>8. RowsAgree'
  BY SMT, <1>5, <1>6 DEF RowsAgree, Queued
<1>9. /\ o \in Cmds => /\ journal'[o].phase = "NONE"
                       /\ journal'[o].links = FALSE /\ journal'[o].pending = FALSE
      /\ \A c \in Cmds : c # o => journal'[c] = journal[c]
  BY <1>2, LegacyRowFacts
<1>10. SettledIsQueued' /\ NoResurrection'
  <2>1. SettledIsQueued'
    BY <1>5, <1>9 DEF SettledIsQueued, Ops
  <2>2. ASSUME NEW k \in Ops, receipt'[k] # NoResult
        PROVE  /\ result'[k] = NoResult /\ ~Queued(k)'
               /\ k \in Cmds => k \notin inbox' /\ journal'[k].phase = "NONE"
    <3>1. CASE k = o
      BY <1>2, <1>6, <1>9, <3>1 DEF Queued
    <3>2. CASE k # o
      BY <1>2, <1>5, <1>9, <2>2, <3>2 DEF NoResurrection
    <3> QED
      BY <3>1, <3>2
  <2> QED
    BY <2>1, <2>2 DEF NoResurrection
<1>11. EffectsAgree'
  <2> SUFFICES ASSUME NEW k \in Cmds
               PROVE  /\ journal'[k].phase \in Early /\ receipt'[k] = NoResult
                            => effects[k] = 0 /\ result'[k] = NoResult
                      /\ Known(k)' \in {"applied", "acked"} => effects[k] = 1
                      /\ journal'[k].pending => journal'[k].links
                      /\ journal'[k].links => Linked(k)
    BY <1>2 DEF EffectsAgree, Linked, Early
  <2>1. CASE k = o
    BY <1>1, <1>6, <1>7, <1>9, <2>1 DEF EffectsAgree, Ops
  <2>2. CASE k # o
    BY SMT, <1>5, <1>7, <1>9, <2>2 DEF EffectsAgree, Ops, Early
  <2> QED
    BY <2>1, <2>2
<1>12. PumpAgrees' /\ ControllerTypeOK'
  BY <1>2, <1>7 DEF PumpAgrees, WorkerTypeOK, ControllerTypeOK
<1>13. ControllerAgrees'
  BY <1>1, <1>2, <1>5, <1>7 DEF ControllerAgrees
<1>14. SessionTypeOK' /\ WorkerTypeOK'
  BY ZenonT(30), <1>2, IdleFacts DEF SessionTypeOK, WorkerTypeOK
<1>15. FrameAgrees'
  BY ZenonT(30), <1>2, IdleFacts DEF FrameAgrees
<1> QED
  BY <1>3, <1>4, <1>8, <1>10, <1>11, <1>12, <1>13, <1>14, <1>15

-----------------------------------------------------------------------------
(* The outbox pump.                                                         *)

LEMMA PumpPickStep ==
  ASSUME IndInv, PumpPick
  PROVE  IndInv'
<1> USE ConstantsAssumption DEF IndInv, TypeOK
<1>1. PICK o \in Ops : /\ result[o] # NoResult
                       /\ pump' = [pc |-> "claim", op |-> o, val |-> result[o]]
  BY DEF PumpPick
<1>2. UNCHANGED <<session, accepted, link, conn, frame, c2a, ctl>> /\ UNCHANGED rows
  BY DEF PumpPick, durable, rows
<1>3. DurableInv' /\ \A k \in Ops : Known(k)' = Known(k)
  BY <1>2, QuietFacts
<1>4. result[o] \in Results /\ Known(o) = result[o]
  BY <1>1 DEF OutboxTypeOK, NoResurrection, Known
<1>5. PumpAgrees'
  BY <1>1, <1>3, <1>4 DEF PumpAgrees
<1>6. SessionTypeOK' /\ WorkerTypeOK' /\ ControllerTypeOK' /\ FrameAgrees'
  <2>1. SessionTypeOK' /\ ControllerTypeOK'
    BY <1>2 DEF SessionTypeOK, ControllerTypeOK, rows
  <2>2. WorkerTypeOK'
    BY <1>1, <1>2, <1>4 DEF WorkerTypeOK, PumpSteps
  <2>3. FrameAgrees'
    BY <1>2 DEF FrameAgrees, rows
  <2> QED
    BY <2>1, <2>2, <2>3
<1>7. ControllerAgrees'
  BY <1>2, <1>3 DEF ControllerAgrees, rows
<1> QED
  BY <1>3, <1>5, <1>6, <1>7 DEF DurableInv

LEMMA PumpStageStep ==
  ASSUME IndInv, PumpClaim \/ PumpMarkSent
  PROVE  IndInv'
<1> USE ConstantsAssumption DEF IndInv, TypeOK
<1> DEFINE o == pump.op
<1>1. o \in Ops /\ pump.val \in Results /\ pump.pc # "idle"
  BY DEF PumpClaim, PumpMarkSent, WorkerTypeOK
<1>2. UNCHANGED <<session, accepted, inbox, journal, result, receipt, fence, link, conn, frame,
                  c2a, ctl, effects>>
  BY DEF PumpClaim, PumpMarkSent
<1>3. /\ \/ outbox' = outbox
         \/ Queued(o) /\ \E st \in {"CLAIMED", "SENT"} : SetStage(o, st)
      /\ \/ pump' = IdlePump
         \/ \E step \in {"write", "rcpt"} : pump' = [pump EXCEPT !.pc = step]
  BY DEF PumpClaim, PumpMarkSent, Queued
<1>4. DurableInv' /\ \A k \in Ops : Known(k)' = Known(k)
  <2>1. CASE outbox' = outbox
    BY <1>2, <2>1, QuietFacts DEF rows
  <2>2. CASE Queued(o) /\ \E st \in {"CLAIMED", "SENT"} : SetStage(o, st)
    <3>1. PICK st \in Stages \ {"NONE"} : SetStage(o, st)
      BY <2>2 DEF Stages
    <3> HIDE DEF o, IndInv, TypeOK
    <3> QED
      BY <1>1, <1>2, <2>2, <3>1, StageFacts
  <2> QED
    BY <1>3, <2>1, <2>2
<1>5. WorkerTypeOK' /\ PumpAgrees'
  BY SMT, <1>1, <1>2, <1>3, <1>4, IdleFacts DEF WorkerTypeOK, PumpAgrees, PumpSteps
<1>6. SessionTypeOK' /\ ControllerTypeOK' /\ FrameAgrees'
  BY <1>2 DEF SessionTypeOK, ControllerTypeOK, FrameAgrees
<1>7. ControllerAgrees'
  BY <1>2, <1>4 DEF ControllerAgrees
<1> QED
  BY <1>4, <1>5, <1>6, <1>7 DEF DurableInv

(* A write reaches the Controller with the outcome, or is lost.             *)
LEMMA PumpSendStep ==
  ASSUME IndInv, PumpWrite \/ PumpReceipt
  PROVE  IndInv'
<1> USE ConstantsAssumption DEF IndInv, TypeOK
<1> DEFINE o == pump.op
<1>1. o \in Ops /\ pump.val \in Results /\ pump.val = Known(o)
  BY DEF PumpWrite, PumpReceipt, WorkerTypeOK, PumpAgrees
<1>2. UNCHANGED <<session, accepted, conn, frame>> /\ UNCHANGED rows
  BY DEF PumpWrite, PumpReceipt, durable, rows
<1>3. /\ pump' = IdlePump \/ pump' = [pump EXCEPT !.pc = "sent"]
      /\ link' \in {link, "down"}
      /\ \/ ctl' = ctl /\ c2a' \subseteq c2a
         \/ /\ ctl' = [ctl EXCEPT !.results[o] = @ \cup {pump.val}]
            /\ c2a' = c2a \cup {Receipt(o)}
         \/ ctl' = [ctl EXCEPT !.outbox = @ \ {o}] /\ c2a' = c2a
  BY DEF PumpWrite, PumpReceipt, Deliver
<1>4. DurableInv' /\ \A k \in Ops : Known(k)' = Known(k)
  BY <1>2, QuietFacts
<1>5. SessionTypeOK' /\ WorkerTypeOK' /\ PumpAgrees'
  BY SMT, <1>1, <1>2, <1>3, <1>4, IdleFacts DEF SessionTypeOK, WorkerTypeOK, PumpAgrees, PumpSteps
<1>6. /\ ctl' \in [outbox: SUBSET Cmds, results: [Ops -> SUBSET Results]]
      /\ \A k \in Ops : /\ ctl.results[k] \subseteq ctl'.results[k]
                        /\ \A r \in ctl'.results[k] : r \in ctl.results[k] \/ r = Known(k)
                        /\ Receipt(k) \in c2a' => Receipt(k) \in c2a \/ ctl'.results[k] # {}
  <2>1. CASE ctl' = ctl /\ c2a' \subseteq c2a
    BY <2>1 DEF ControllerTypeOK
  <2>2. CASE /\ ctl' = [ctl EXCEPT !.results[o] = @ \cup {pump.val}]
             /\ c2a' = c2a \cup {Receipt(o)}
    BY <1>1, <2>2, MessageFacts DEF ControllerTypeOK
  <2>3. CASE ctl' = [ctl EXCEPT !.outbox = @ \ {o}] /\ c2a' = c2a
    BY <2>3 DEF ControllerTypeOK
  <2> QED
    BY <1>3, <2>1, <2>2, <2>3
<1>7. ControllerTypeOK'
  BY SMT, <1>1, <1>2, <1>3, <1>6, MessageFacts DEF ControllerTypeOK, rows
<1>8. ControllerAgrees'
  BY <1>2, <1>4, <1>6 DEF ControllerAgrees, rows
<1>9. FrameAgrees'
  BY SMT, <1>2, <1>3, <1>6 DEF FrameAgrees, rows, WorkerTypeOK
<1> QED
  BY <1>4, <1>5, <1>7, <1>8, <1>9 DEF DurableInv

(* Every step keeps the inductive invariant.                                *)
LEMMA IndInvNext == IndInv /\ [Next]_vars => IndInv'
<1> SUFFICES ASSUME IndInv, [Next]_vars PROVE IndInv'
  OBVIOUS
<1>1. CASE Reconnect \/ AbortHandshake \/ Disconnect \/ Crash
  BY <1>1, EnvironmentStep, ActivateStep, HandshakeRecoverStep DEF Reconnect
<1>2. CASE FrameLoop
  BY <1>2, EnvironmentStep, ReceiveNewStep, ReceiveDuplicateStep, PersistIntentStep,
     MarkApplyingStep, OnCommandStep, QueueReportStep, FinishStep, ConvergeStep,
     CompleteRecoveredStep, RecoverDuplicateStep, QueueNackedStep, ReadReceiptStep,
     ReceiptStageStep, AcceptReceiptStep
     DEF FrameLoop
<1>3. CASE OutboxPump
  BY <1>3, PumpPickStep, PumpStageStep, PumpSendStep DEF OutboxPump
<1>4. CASE UNCHANGED vars
  <2>1. UNCHANGED rows /\ UNCHANGED <<session, accepted, link, conn, frame, pump, c2a, ctl>>
    BY <1>4 DEF vars, durable, threads, rows
  <2>2. DurableInv' /\ \A o \in Ops : Known(o)' = Known(o)
    BY <2>1, QuietFacts
  <2>3. SessionTypeOK' /\ WorkerTypeOK' /\ ControllerTypeOK'
    BY SMT, <2>1 DEF IndInv, TypeOK, SessionTypeOK, WorkerTypeOK, ControllerTypeOK, rows
  <2>4. FrameAgrees'
    BY <2>1 DEF IndInv, FrameAgrees, rows
  <2>5. PumpAgrees' /\ ControllerAgrees'
    BY <2>1, <2>2 DEF IndInv, TypeOK, WorkerTypeOK, PumpAgrees, ControllerAgrees, rows
  <2> QED
    BY <2>2, <2>3, <2>4, <2>5 DEF DurableInv, IndInv, TypeOK
<1> QED
  BY <1>1, <1>2, <1>3, <1>4 DEF Next

(* The inductive invariant holds in every reachable state: the journal, the *)
(* result table, the outbox and the receipts agree, and both workers act on *)
(* what they say.                                                           *)
THEOREM InductiveInvariant == Spec => []IndInv
<1>1. Init => IndInv
  BY InitIndInv
<1>2. IndInv /\ [Next]_vars => IndInv'
  BY IndInvNext
<1> QED
  BY <1>1, <1>2, PTL DEF Spec

(* Type correctness of the store, the workers and the frames in flight.     *)
THEOREM TypeCorrect == Spec => []TypeOK
<1>1. IndInv => TypeOK
  BY DEF IndInv
<1> QED
  BY <1>1, InductiveInvariant, PTL

(* OnCommand runs at most once for a command.                               *)
THEOREM EffectOnce == Spec => []AtMostOnce
<1>1. IndInv => AtMostOnce
  BY DEF IndInv
<1> QED
  BY <1>1, InductiveInvariant, PTL

(* A command that is APPLIED or NACKED has its result queued.               *)
THEOREM SettledHasResult == Spec => []SettledIsQueued
<1>1. IndInv => SettledIsQueued
  BY DEF IndInv
<1> QED
  BY <1>1, InductiveInvariant, PTL

(* The Controller never learns two results of one operation, and holds the  *)
(* result of every operation the Agent has forgotten.                       *)
THEOREM OneResultOnly == Spec => []OneSemanticResult
<1>1. IndInv => OneSemanticResult
  BY DEF IndInv, ControllerAgrees, OneSemanticResult, Known
<1> QED
  BY <1>1, InductiveInvariant, PTL

(* A receipted operation stays dead.                                        *)
THEOREM ReceiptedStaysDead == Spec => []NoResurrection
<1>1. IndInv => NoResurrection
  BY DEF IndInv
<1> QED
  BY <1>1, InductiveInvariant, PTL

(* The recovery of the handshake never fails: no Agent is locked out of its *)
(* Controller by what its own journal holds.                                *)
THEOREM RecoverySucceeds == Spec => []RecoveryNeverWedged
<1>1. IndInv => RecoveryNeverWedged
  <2> SUFFICES ASSUME IndInv, NEW c \in Recoverable, RecordFails(c, "recovered") PROVE FALSE
    BY DEF RecoveryNeverWedged, RecoveryFails
  <2>1. c \in Cmds /\ c \in Ops /\ journal[c].phase = "APPLYING"
    BY DEF Recoverable, Ops
  <2>2. receipt[c] = NoResult
    BY <2>1 DEF IndInv, NoResurrection
  <2> QED
    BY <2>1, <2>2 DEF IndInv, RowsAgree, RecordFails
<1> QED
  BY <1>1, InductiveInvariant, PTL

-----------------------------------------------------------------------------
(* Refinement.  Only OnCommand has an effect, and no step revises an        *)
(* outcome.                                                                 *)
LEMMA EffectStep == [Next]_vars => UNCHANGED effects \/ OnCommand
  BY DEF Next, Reconnect, FrameLoop, OutboxPump, AdvanceSession, HandshakeRecover,
     ActivateSession, AbortHandshake, Disconnect, Crash, RefuseReceipted, ReceiveNew,
     ReceiveDuplicate, PersistOperationIntent, MarkOperationApplying, QueueReport,
     FinishOperation, ConvergeDeletion, CompleteRecoveredDeletion, RecoverDuplicate,
     QueueNackedResult, ReadReceipt, ReceiptClaim, ReceiptMarkSent, AcceptSemanticACK,
     AcceptReceipt, PumpPick, PumpClaim, PumpWrite, PumpMarkSent, PumpReceipt, vars

LEMMA RecordOrReceipt ==
  ASSUME [Next]_vars
  PROVE  \/ UNCHANGED <<result, receipt>>
         \/ \E S \in SUBSET Cmds, r \in Results : RecordResultAndQueue(S, r) /\ receipt' = receipt
         \/ QueueReport \/ ConvergeDeletion \/ FinishOperation \/ QueueNackedResult
         \/ AcceptReceipt
<1>1. RecoverApplyingOperations =>
        \E S \in SUBSET Cmds, r \in Results : RecordResultAndQueue(S, r)
  BY DEF RecoverApplyingOperations, Recoverable, Results
<1>2. HandshakeRecover \/ RecoverDuplicate =>
        \/ UNCHANGED <<result, receipt>>
        \/ RecoverApplyingOperations /\ receipt' = receipt
  BY DEF HandshakeRecover, RecoverDuplicate
<1>3. \/ UNCHANGED <<result, receipt>> \/ HandshakeRecover \/ RecoverDuplicate
      \/ QueueReport \/ ConvergeDeletion \/ FinishOperation \/ QueueNackedResult
      \/ AcceptReceipt
  BY DEF Next, Reconnect, FrameLoop, OutboxPump, AdvanceSession,
     ActivateSession, AbortHandshake, Disconnect, Crash, RefuseReceipted, ReceiveNew,
     ReceiveDuplicate, PersistOperationIntent, MarkOperationApplying, OnCommand,
     CompleteRecoveredDeletion, ReadReceipt, ReceiptClaim, ReceiptMarkSent, AcceptSemanticACK,
     PumpPick, PumpClaim, PumpWrite, PumpMarkSent, PumpReceipt, vars, durable
<1> QED
  BY <1>1, <1>2, <1>3

LEMMA OutcomeKept ==
  ASSUME IndInv, [Next]_vars
  PROVE  \A k \in Ops : Known(k) # NoResult => Known(k)' = Known(k)
<1>1. ASSUME NEW S, NEW r, RecordResultAndQueue(S, r), receipt' = receipt
      PROVE  \A k \in Ops : Known(k) # NoResult => Known(k)' = Known(k)
  BY <1>1 DEF IndInv, TypeOK, OutboxTypeOK, RowsAgree, RecordResultAndQueue, Queued, Known
<1>2. CASE QueueReport \/ ConvergeDeletion \/ FinishOperation \/ QueueNackedResult
  <2>1. \/ UNCHANGED <<result, receipt>>
        \/ \E S, r : RecordResultAndQueue(S, r) /\ receipt' = receipt
    BY <1>2 DEF QueueReport, ConvergeDeletion, FinishOperation, QueueNackedResult
  <2> QED
    BY <1>1, <2>1 DEF Known
<1>3. CASE AcceptReceipt
  <2>1. frame.op \in Ops /\ outbox[frame.op].val = result[frame.op]
    BY <1>3 DEF AcceptReceipt, IndInv, TypeOK, WorkerTypeOK, ReceiptSteps, RowsAgree
  <2> QED
    BY <1>3, <2>1 DEF AcceptReceipt, Known, IndInv, TypeOK, OutboxTypeOK, Results, NoResult
<1> QED
  BY <1>1, <1>2, <1>3, RecordOrReceipt DEF Known

(* The journal implements CommandContract.  OnCommand maps to Run; every    *)
(* other step maps to Answer of the commands whose outcome it settles,      *)
(* which is a stutter when there are none.                                  *)
THEOREM JournalRefinesContract == Spec => ImplementsContract
<1> DEFINE Ran == {c \in Cmds : effects[c] > 0}
           Ans == [c \in Cmds |-> Known(c)]
<1>1. IndInv => /\ Ran \subseteq Cmds
                /\ Ans \in [Cmds -> Results \cup {NoResult}]
                /\ \A c \in Cmds : Ans[c] \in {"applied", "acked"} => c \in Ran
  BY SMT DEF IndInv, TypeOK, OutboxTypeOK, EffectsAgree, Known, Ops
<1>2. Init => Contract!Init
  BY <1>1, InitIndInv DEF Contract!Init
<1>3. IndInv /\ IndInv' /\ [Next]_vars => [Contract!Next]_<<Ran, Ans>>
  <2> SUFFICES ASSUME IndInv, IndInv', [Next]_vars
               PROVE  Contract!Next
    OBVIOUS
  <2>1. CASE UNCHANGED effects
    <3> DEFINE S == {c \in Cmds : Known(c) = NoResult /\ Known(c)' # NoResult}
    <3>1. Ran' = Ran /\ Ans' \in [Cmds -> Results \cup {NoResult}]
      BY <2>1 DEF IndInv, TypeOK, OutboxTypeOK, Known, Ops
    <3>2. \A c \in Cmds \ S : Ans'[c] = Ans[c]
      BY OutcomeKept DEF Ops
    <3>3. \A c \in S : Ans'[c] # NoResult /\ (Ans'[c] \in {"applied", "acked"} => c \in Ran)
      <4>1. EffectsAgree'
        BY DEF IndInv
      <4>2. \A c \in Cmds : Known(c)' \in {"applied", "acked"} => effects[c] = 1
        BY <2>1, <4>1 DEF EffectsAgree
      <4> QED
        BY SMT, <4>2
    <3>4. Contract!Answer(S)
      BY <3>1, <3>2, <3>3 DEF Contract!Answer
    <3>5. S \in SUBSET Cmds
      OBVIOUS
    <3> HIDE DEF S
    <3> QED
      BY <3>4, <3>5 DEF Contract!Next
  <2>2. CASE OnCommand
    <3> DEFINE c == frame.op
    <3>1. /\ c \in Cmds /\ effects[c] = 0 /\ Known(c) = NoResult
          /\ effects' = [effects EXCEPT ![c] = @ + 1] /\ UNCHANGED <<result, receipt>>
      BY <2>2 DEF OnCommand, IndInv, TypeOK, WorkerTypeOK, FrameAgrees, CommandSteps, Known
    <3>2. Ran' = Ran \cup {c} /\ c \notin Ran
      BY SMT, <3>1 DEF IndInv, TypeOK, ControllerTypeOK
    <3>3. Ans' = Ans /\ Ans[c] = NoResult
      BY <3>1 DEF Known
    <3> QED
      BY <3>1, <3>2, <3>3 DEF Contract!Next, Contract!Run
  <2> QED
    BY <2>1, <2>2, EffectStep
<1> QED
  BY <1>2, <1>3, InductiveInvariant, PTL DEF Spec, ImplementsContract, Contract!Spec

-----------------------------------------------------------------------------
(* Every session accepted at the stored epoch is the stored one.            *)
StoredIsNewest == \A p \in accepted : p[1] = session.epoch => p[2] = session.id

LEMMA SessionStep == [Next]_vars => UNCHANGED <<session, accepted>> \/ AdvanceSession
  BY DEF Next, Reconnect, FrameLoop, OutboxPump, HandshakeRecover,
     ActivateSession, AbortHandshake, Disconnect, Crash, RefuseReceipted, ReceiveNew,
     ReceiveDuplicate, PersistOperationIntent, MarkOperationApplying, OnCommand, QueueReport,
     FinishOperation, ConvergeDeletion, CompleteRecoveredDeletion, RecoverDuplicate,
     QueueNackedResult, ReadReceipt, ReceiptClaim, ReceiptMarkSent, AcceptSemanticACK,
     AcceptReceipt, PumpPick, PumpClaim, PumpWrite, PumpMarkSent, PumpReceipt, vars, durable

(* AdvanceSession's downgrade and split-brain checks keep one session per   *)
(* epoch, over every handshake, abort and crash.                            *)
THEOREM OneSessionPerEpoch == Spec => []NoSplitBrain
<1> DEFINE SInv == SessionTypeOK /\ NoSplitBrain /\ StoredIsNewest
<1>1. Init => SInv
  BY InitIndInv DEF Init, IndInv, TypeOK, NoSplitBrain, StoredIsNewest
<1>2. SInv /\ IndInv' /\ [Next]_vars => SInv'
  <2> SUFFICES ASSUME SInv, IndInv', [Next]_vars PROVE SInv'
    OBVIOUS
  <2>1. SessionTypeOK'
    BY DEF IndInv, TypeOK
  <2>2. CASE UNCHANGED <<session, accepted>>
    BY <2>1, <2>2 DEF NoSplitBrain, StoredIsNewest
  <2>3. CASE AdvanceSession
    <3>1. PICK e \in 1..MaxEpoch, s \in Sessions :
            /\ AcceptsSession(e, s)
            /\ session' = [epoch |-> e, id |-> s] /\ accepted' = accepted \cup {<<e, s>>}
      BY <2>3 DEF AdvanceSession
    <3>2. session'.epoch = e /\ session'.id = s
      BY <3>1
    <3>3. \A p \in accepted : /\ p[1] \in Nat /\ p[2] \in Sessions /\ p[1] <= session.epoch
                              /\ p[1] = session.epoch => p[2] = session.id
      BY SMT, ConstantsAssumption DEF SessionTypeOK, NoSplitBrain, StoredIsNewest
    <3>4. /\ session.epoch \in Nat /\ session.epoch <= e
          /\ e = session.epoch => session.id \in {NoSession, s}
      BY SMT, <3>1, ConstantsAssumption DEF AcceptsSession, SessionTypeOK
    <3>5. NoSession \notin Sessions
      BY ConstantsAssumption DEF ConstantsAssumption
    <3>6. \A p \in accepted : p[1] <= e /\ (p[1] = e => p[2] = s)
      BY SMT, <3>3, <3>4, <3>5
    <3> QED
      BY SMT, <2>1, <3>1, <3>2, <3>6 DEF NoSplitBrain, StoredIsNewest
  <2> QED
    BY <2>2, <2>3, SessionStep
<1> QED
  BY <1>1, <1>2, InductiveInvariant, PTL DEF Spec

LEMMA FenceStep ==
  ASSUME IndInv, IndInv', ClassifiedIsFenced, [Next]_vars
  PROVE  ClassifiedIsFenced'
<1> USE ConstantsAssumption
<1>1. ASSUME NEW D, PutIntents(D)
      PROVE  \A d \in Dels : /\ fence[d] # "none" => fence'[d] # "none"
                             /\ d \in D => fence'[d] # "none"
  BY <1>1 DEF PutIntents
<1>2. \A k \in Cmds : /\ journal[k] \in Row /\ ReportOf[k] \in Dels \cup {k, NoOp}
                      /\ journal[k].links => Linked(k)
                      /\ journal'[k].links => Linked(k)
  BY DEF IndInv, TypeOK, JournalTypeOK, EffectsAgree, Linked
<1>3. CASE ReceiveNew \/ ReceiveDuplicate
  <2>1. PICK c \in Cmds :
          /\ \E j : journal' = [journal EXCEPT ![c] = j]
          /\ PutIntents(IF Linked(c) THEN {ReportOf[c]} ELSE {})
    BY <1>3 DEF ReceiveNew, ReceiveDuplicate
  <2>2. \A k \in Cmds : k # c => journal'[k] = journal[k]
    BY <2>1 DEF IndInv, TypeOK, JournalTypeOK
  <2> QED
    BY <1>1, <1>2, <2>1, <2>2 DEF ClassifiedIsFenced, Linked
<1>4. CASE UNCHANGED journal /\ \A d \in Dels : fence[d] # "none" => fence'[d] # "none"
  BY <1>2, <1>4 DEF ClassifiedIsFenced, Linked
<1>5. CASE HandshakeRecover \/ RecoverDuplicate
  <2>1. CASE UNCHANGED <<journal, fence>>
    BY <1>4, <2>1
  <2>2. CASE RecoverApplyingOperations
    <3>1. \A d \in Dels : fence[d] # "none" => fence'[d] # "none"
      BY <1>1, <2>2 DEF RecoverApplyingOperations
    <3>2. ASSUME NEW k \in Cmds PROVE journal'[k].links = journal[k].links
      <4>1. \/ journal'[k] = journal[k]
            \/ journal'[k] = [journal[k] EXCEPT !.phase = "NACKED", !.reason = "recovered"]
        BY <2>2 DEF RecoverApplyingOperations
      <4> QED
        BY <1>2, <4>1 DEF Row
    <3> QED
      BY <1>2, <3>1, <3>2 DEF ClassifiedIsFenced, Linked
  <2> QED
    BY <1>5, <2>1, <2>2 DEF HandshakeRecover, RecoverDuplicate
<1>6. CASE /\ \/ PersistOperationIntent \/ MarkOperationApplying \/ FinishOperation
              \/ CompleteRecoveredDeletion
           /\ frame.op \in Cmds
  <2> DEFINE c == frame.op
  <2>1. UNCHANGED fence /\ \A k \in Cmds : k # c => journal'[k] = journal[k]
    BY <1>6 DEF PersistOperationIntent, MarkOperationApplying, FinishOperation,
       CompleteRecoveredDeletion, SetPhase, IndInv, TypeOK, JournalTypeOK
  <2>2. journal'[c].links = journal[c].links
    <3>1. CASE PersistOperationIntent \/ CompleteRecoveredDeletion
      <4>1. \/ journal'[c] = [journal[c] EXCEPT !.phase = "INTENT_PERSISTED"]
            \/ journal'[c] = [journal[c] EXCEPT !.pending = FALSE]
        BY <1>6, <3>1 DEF PersistOperationIntent, CompleteRecoveredDeletion, SetPhase,
           IndInv, TypeOK, JournalTypeOK
      <4> QED
        BY <1>2, <1>6, <4>1 DEF Row
    <3>2. CASE MarkOperationApplying
      <4>1. PICK b : journal'[c] = [journal[c] EXCEPT !.phase = "APPLYING", !.pending = b]
        BY <1>6, <3>2 DEF MarkOperationApplying, IndInv, TypeOK, JournalTypeOK
      <4> QED
        BY <1>2, <1>6, <4>1 DEF Row
    <3>3. CASE FinishOperation
      <4> DEFINE p == IF frame.ok THEN "APPLIED" ELSE "NACKED"
                 q == IF frame.ok THEN journal[c].reason ELSE "error"
      <4>1. \/ journal'[c] = journal[c]
            \/ journal'[c] = [journal[c] EXCEPT !.phase = p, !.reason = q]
        BY <1>2, <1>6, <3>3 DEF FinishOperation, IndInv, TypeOK, JournalTypeOK, Row
      <4> HIDE DEF p, q
      <4> QED
        BY <1>2, <1>6, <4>1 DEF Row
    <3> QED
      BY <1>6, <3>1, <3>2, <3>3
  <2> QED
    BY <2>1, <2>2 DEF ClassifiedIsFenced
<1>7. CASE OnCommand \/ ConvergeDeletion
  <2>1. UNCHANGED journal /\ \A d \in Dels : fence[d] # "none" => fence'[d] # "none"
    BY <1>7 DEF OnCommand, ConvergeDeletion, IndInv, TypeOK, JournalTypeOK
  <2> QED
    BY <1>4, <2>1
<1>8. CASE AcceptReceipt
  <2>1. \A k \in Cmds : journal'[k] = NoRow \/ journal'[k] = journal[k]
    BY <1>8 DEF AcceptReceipt
  <2> QED
    BY <1>8, <2>1, LegacyRowFacts DEF AcceptReceipt, ClassifiedIsFenced
<1>9. CASE UNCHANGED <<journal, fence>>
  BY <1>9 DEF ClassifiedIsFenced
<1>10. frame.pc \in {"intent", "applying", "finish", "converged"} => frame.op \in Cmds
  BY DEF IndInv, TypeOK, WorkerTypeOK, CommandSteps
<1> QED
  BY <1>3, <1>5, <1>6, <1>7, <1>8, <1>9, <1>10
     DEF Next, Reconnect, FrameLoop, OutboxPump, AdvanceSession,
     ActivateSession, AbortHandshake, Disconnect, Crash, RefuseReceipted, ReadReceipt,
     ReceiptClaim, ReceiptMarkSent, AcceptSemanticACK, PumpPick, PumpClaim, PumpWrite,
     PumpMarkSent, PumpReceipt, vars, durable, QueueReport, QueueNackedResult,
     PersistOperationIntent, MarkOperationApplying, FinishOperation, CompleteRecoveredDeletion

(* A journal row classified as a deletion always has its durable fence,     *)
(* through backfills, recoveries and receipts.                              *)
THEOREM DeletionIsFenced == Spec => []ClassifiedIsFenced
<1>1. Init => ClassifiedIsFenced
  BY SMT, LegacyRowFacts DEF Init, ClassifiedIsFenced
<1>2. IndInv /\ IndInv' /\ ClassifiedIsFenced /\ [Next]_vars => ClassifiedIsFenced'
  BY FenceStep
<1> QED
  BY <1>1, <1>2, InductiveInvariant, PTL DEF Spec

-----------------------------------------------------------------------------
(* Rotation.                                                               *)

(* The range of the durable rotation and of what is signed.                 *)
Certificates == [old : Pins, new : Pins]
RotOps == [cert : Certificates, phase : {"none", "applying", "applied", "nacked"}]
NoKey == [key |-> 0, gen |-> 0]

(* Types of the keys, and of the Agent's side.                              *)
RotKeysTyped ==
    /\ signer \in Pins /\ pin \in Pins /\ confirmed \in Nat /\ minted \in Nat
    /\ pin.key > 0 /\ pin.gen > 0 /\ signer.key > 0 /\ signer.gen > 0
    /\ offer \in Certificates /\ first \in FirstGens

RotNodeTyped ==
    /\ op \in RotOps /\ handler \in {"idle", "deciding", "saved", "refused", "failed"}
    /\ running \in BOOLEAN /\ linked \in BOOLEAN /\ acked \in BOOLEAN
    /\ forced \in BOOLEAN /\ reenrolled \in BOOLEAN
    /\ handler # "idle" => running /\ op.phase = "applying"
    /\ op.phase # "none" => op.cert.new.key # 0
    /\ linked => running

(* A key identity stands for one generation.                                *)
KeysKnown ==
    /\ pin.key <= minted /\ \A x \in KnownKeys : x.key <= minted
    /\ \A x, y \in KnownKeys : x.key = y.key /\ x.key # 0 => x.gen = y.gen
    /\ ~reenrolled => \A x \in KnownKeys : x.key = pin.key => x.gen + 1 = pin.gen + first

(* What the Controller signed is a step from its present key.               *)
OfferFits ==
    offer # NoOffer =>
        offer.old = signer /\ offer.new.key \notin {0, signer.key} /\ offer.new.gen = signer.gen + 1

(* A rotation reported as applied is pinned.                                *)
SavedIsPinned == op.phase = "applied" \/ handler = "saved" => op.cert.new.gen <= pin.gen

(* Without a forced rotation, the handler, the pin and the durable record   *)
(* agree on the rotation under way.                                         *)
Unforced ==
    ~forced =>
        /\ handler # "idle" => op.cert = offer /\ offer # NoOffer /\ ~acked
        /\ handler \in {"deciding", "refused", "failed"} => pin.key = signer.key
        /\ handler = "saved" => pin = offer.new
        /\ op.cert = offer /\ offer # NoOffer =>
            /\ op.phase = "nacked" => pin.key = signer.key
            /\ op.phase = "applied" => pin = offer.new
        /\ acked => op.cert = offer /\ offer # NoOffer /\ op.phase = "applied"

(* The invariant from its parts, before and after a step.                   *)
LEMMA RotationWhole ==
  (RotKeysTyped /\ RotNodeTyped /\ KeysKnown /\ OfferFits /\ SavedIsPinned /\ Unforced
   /\ ConfirmedIsPinned /\ PinIsLive => RotationInv)'
<1>1. RotKeysTyped /\ RotNodeTyped /\ KeysKnown /\ OfferFits /\ SavedIsPinned /\ Unforced
      /\ ConfirmedIsPinned /\ PinIsLive => RotationInv
  <2> SUFFICES ASSUME RotKeysTyped, RotNodeTyped, KeysKnown, OfferFits, SavedIsPinned, Unforced,
                      ConfirmedIsPinned, PinIsLive
               PROVE  RotationInv
    OBVIOUS
  <2>1. RotTypeOK
    BY SMT DEF RotTypeOK, RotKeysTyped, RotNodeTyped, RotOps, Certificates
  <2>2. GenerationsAgree
    BY DEF GenerationsAgree, KeysKnown, KnownKeys
  <2>3. KeysAgree /\ AnswersAreTrue
    BY DEF KeysAgree, AnswersAreTrue, KeysKnown, OfferFits, SavedIsPinned, Unforced
  <2> QED
    BY <2>1, <2>2, <2>3 DEF RotationInv
<1> QED
  BY <1>1, PTL

(* ... and the parts from the invariant.                                    *)
LEMMA RotationParts ==
  ASSUME RotationInv
  PROVE  /\ RotKeysTyped /\ RotNodeTyped /\ KeysKnown /\ OfferFits /\ SavedIsPinned /\ Unforced
         /\ ConfirmedIsPinned /\ PinIsLive
<1>1. RotKeysTyped /\ RotNodeTyped
  BY SMT DEF RotationInv, RotTypeOK, RotKeysTyped, RotNodeTyped, RotOps, Certificates
<1>2. KeysKnown /\ OfferFits /\ SavedIsPinned /\ Unforced
  BY DEF RotationInv, KeysAgree, AnswersAreTrue, KeysKnown, OfferFits, SavedIsPinned, Unforced
<1> QED
  BY <1>1, <1>2 DEF RotationInv

(* The keys written down have number keys and number generations.           *)
LEMMA KeysTyped ==
  ASSUME RotKeysTyped, RotNodeTyped
  PROVE  /\ \A x \in KnownKeys : x \in Pins /\ x.key \in Nat /\ x.gen \in Nat
         /\ pin.key \in Nat /\ pin.gen \in Nat /\ first \in Nat /\ first > 0
<1>1. \A x \in KnownKeys : x \in Pins
  BY DEF RotKeysTyped, RotNodeTyped, KnownKeys, RotOps, Certificates
<1>2. first \in Nat \ {0}
  BY RotAssumption DEF RotKeysTyped
<1>3. first \in Nat /\ first > 0
  BY SMT, <1>2
<1> QED
  BY <1>1, <1>3 DEF Pins, RotKeysTyped

(* A step that writes down no new key and leaves the pin alone.             *)
LEMMA KeysKept ==
  ASSUME RotKeysTyped, RotNodeTyped, KeysKnown, \A x \in KnownKeys' : x \in KnownKeys \/ x = NoKey,
         UNCHANGED <<minted, pin, first>>, reenrolled => reenrolled'
  PROVE  KeysKnown'
<1>1. NoKey.key = 0 /\ NoKey.gen = 0
  BY DEF NoKey
<1>2. pin.key > 0 /\ pin.key \in Nat /\ minted \in Nat
  BY KeysTyped DEF RotKeysTyped
<1>3. 0 <= minted /\ pin.key # 0
  BY SMT, <1>2
<1>4. \A x \in KnownKeys' : x.key <= minted
  BY <1>1, <1>3 DEF KeysKnown
<1>5. \A x, y \in KnownKeys' : x.key = y.key /\ x.key # 0 => x.gen = y.gen
  BY <1>1 DEF KeysKnown
<1>6. ~reenrolled' => \A x \in KnownKeys' : x.key = pin.key => x.gen + 1 = pin.gen + first
  BY <1>1, <1>3 DEF KeysKnown
<1> QED
  BY <1>4, <1>5, <1>6 DEF KeysKnown
-----------------------------------------------------------------------------
(* Sessions come and go, the process crashes and starts, a certificate is   *)
(* refused or cannot be saved: the pin and the journal stay.                *)
LEMMA LinkStep ==
  ASSUME RotationInv,
         \/ RefuseFrame \/ RefuseCertificate \/ SaveFails \/ AnswerCommit
         \/ LoseSession \/ CrashNode \/ StartNode \/ UNCHANGED rotVars
  PROVE  RotationInv'
<1>1. /\ RotKeysTyped /\ RotNodeTyped /\ KeysKnown /\ OfferFits /\ SavedIsPinned /\ Unforced
      /\ ConfirmedIsPinned /\ PinIsLive
  BY RotationParts
<1>2. UNCHANGED <<signer, offer, minted, first, acked, forced, reenrolled, pin, op>>
  BY DEF RefuseFrame, RefuseCertificate, SaveFails, AnswerCommit, LoseSession, CrashNode, StartNode,
         rotVars, ctlVars
<1>3. /\ confirmed' \in {confirmed, pin.gen}
      /\ \/ handler' = handler \/ handler' = "idle"
         \/ handler = "deciding" /\ handler' \in {"refused", "failed"}
  BY DEF RefuseFrame, RefuseCertificate, SaveFails, AnswerCommit, LoseSession, CrashNode, StartNode,
         rotVars, ctlVars
<1>4. /\ running' \in BOOLEAN /\ linked' \in BOOLEAN /\ (linked' => running')
      /\ handler' # "idle" => running'
  <2>1. CASE AnswerCommit \/ UNCHANGED rotVars
    <3>1. UNCHANGED <<running, linked, handler>>
      BY <2>1 DEF AnswerCommit, rotVars
    <3> QED
      BY <1>1, <3>1 DEF RotNodeTyped
  <2>4. CASE RefuseFrame
    BY <1>1, <2>4 DEF RefuseFrame, RotNodeTyped
  <2>5. CASE LoseSession
    BY <1>1, <2>5 DEF LoseSession, RotNodeTyped
  <2>2. CASE RefuseCertificate \/ SaveFails
    BY <1>1, <2>2 DEF RefuseCertificate, SaveFails, RotNodeTyped
  <2>3. CASE CrashNode \/ StartNode
    BY <1>1, <2>3 DEF CrashNode, StartNode, RotNodeTyped
  <2> QED
    BY <2>1, <2>2, <2>3, <2>4, <2>5
<1>5. RotKeysTyped'
  <2>1. pin.gen \in Nat
    BY <1>1, KeysTyped
  <2> QED
    BY <1>1, <1>2, <1>3, <2>1 DEF RotKeysTyped
<1>6. RotNodeTyped'
  BY <1>1, <1>2, <1>3, <1>4 DEF RotNodeTyped
<1>7. KnownKeys' = KnownKeys
  BY <1>2 DEF KnownKeys
<1>8. KeysKnown'
  BY <1>1, <1>2, <1>7, KeysKept
<1>9. ConfirmedIsPinned'
  <2>1. pin.gen <= pin.gen
    BY SMT, <1>1, KeysTyped
  <2> QED
    BY <1>1, <1>2, <1>3, <2>1 DEF ConfirmedIsPinned
<1>10. OfferFits' /\ SavedIsPinned' /\ PinIsLive'
  BY <1>1, <1>2, <1>3 DEF OfferFits, SavedIsPinned, PinIsLive
<1>11. Unforced'
  BY <1>1, <1>2, <1>3 DEF Unforced
<1> QED
  BY <1>5, <1>6, <1>8, <1>9, <1>10, <1>11, RotationWhole

(* A phase of the journal changes, by a handshake, a repeat or the return   *)
(* of the handler.                                                          *)
LEMMA PhaseStep ==
  ASSUME RotationInv, NEW ph \in {"none", "applying", "applied", "nacked"},
         op' = [op EXCEPT !.phase = ph],
         UNCHANGED <<signer, offer, minted, first, acked, forced, reenrolled, pin, confirmed, running>>,
         linked' \in BOOLEAN, linked' => running, handler' = "idle",
         \/ ph = op.phase /\ handler = "idle"
         \/ handler = "idle" /\ op.phase = "applying" /\ ph = "nacked" /\ Verifies
         \/ handler \in {"refused", "failed"} /\ ph = "nacked"
         \/ handler = "saved" /\ ph = "applied"
  PROVE  RotationInv'
<1>1. /\ RotKeysTyped /\ RotNodeTyped /\ KeysKnown /\ OfferFits /\ SavedIsPinned /\ Unforced
      /\ ConfirmedIsPinned /\ PinIsLive
  BY RotationParts
<1>2. op' \in RotOps /\ op'.cert = op.cert /\ op'.phase = ph
  BY <1>1 DEF RotNodeTyped, RotOps
<1>3. RotKeysTyped' /\ OfferFits' /\ ConfirmedIsPinned' /\ PinIsLive'
  BY <1>1 DEF RotKeysTyped, OfferFits, ConfirmedIsPinned, PinIsLive
<1>4. RotNodeTyped'
  BY <1>1, <1>2 DEF RotNodeTyped
<1>5. KnownKeys' = KnownKeys
  BY <1>2 DEF KnownKeys
<1>6. KeysKnown'
  BY <1>1, <1>5, KeysKept
<1>7. SavedIsPinned'
  BY <1>1, <1>2 DEF SavedIsPinned
<1>8. Unforced'
  <2> SUFFICES ASSUME ~forced PROVE Unforced'
    BY DEF Unforced
  <2>1. acked => handler = "idle" /\ op.phase = "applied"
    BY <1>1 DEF Unforced
  <2>2. acked => ph = "applied" /\ op.cert = offer /\ offer # NoOffer
    BY <1>1, <2>1 DEF Unforced
  <2>3. op.cert = offer /\ offer # NoOffer =>
          (ph = "nacked" => pin.key = signer.key) /\ (ph = "applied" => pin = offer.new)
    BY <1>1 DEF Unforced, Verifies
  <2> QED
    BY <1>2, <2>2, <2>3 DEF Unforced
<1> QED
  BY <1>3, <1>4, <1>6, <1>7, <1>8, RotationWhole

(* The prepare command: a first delivery is journalled while the pinned key *)
(* is the Controller's.                                                     *)
LEMMA PrepareStep ==
  ASSUME RotationInv, Handshake \/ ReceivePrepare \/ FinishPrepare
  PROVE  RotationInv'
<1>1. /\ RotKeysTyped /\ RotNodeTyped /\ KeysKnown /\ OfferFits /\ SavedIsPinned /\ Unforced
      /\ ConfirmedIsPinned /\ PinIsLive
  BY RotationParts
<1>2. op \in RotOps /\ op = [op EXCEPT !.phase = op.phase]
  BY <1>1 DEF RotNodeTyped, RotOps
<1>3. UNCHANGED <<signer, offer, minted, first, acked, forced, reenrolled, pin, confirmed, running>>
      /\ linked' \in BOOLEAN /\ (linked' => running)
  BY <1>1 DEF Handshake, ReceivePrepare, FinishPrepare, ctlVars, RotNodeTyped
<1>4. CASE FinishPrepare
  <2>1. /\ handler \in {"saved", "refused", "failed"} /\ handler' = "idle"
        /\ op' = [op EXCEPT !.phase = Answer(handler)]
    BY <1>4 DEF FinishPrepare
  <2>2. CASE handler = "saved"
    <3>1. op' = [op EXCEPT !.phase = "applied"]
      BY <2>1, <2>2 DEF Answer
    <3> QED
      BY <1>3, <2>1, <2>2, <3>1, PhaseStep
  <2>3. CASE handler # "saved"
    <3>1. op' = [op EXCEPT !.phase = "nacked"]
      BY <2>1, <2>3 DEF Answer
    <3> QED
      BY <1>3, <2>1, <2>3, <3>1, PhaseStep
  <2> QED
    BY <2>2, <2>3
<1>5. ASSUME handler = "idle", handler' = "idle", Verifies, op' = Recovered(op)
      PROVE  RotationInv'
  <2>1. CASE op.phase = "applying"
    <3>1. op' = [op EXCEPT !.phase = "nacked"]
      BY <1>5, <2>1 DEF Recovered
    <3> QED
      BY <1>3, <1>5, <2>1, <3>1, PhaseStep
  <2>2. CASE op.phase # "applying"
    <3>1. op' = [op EXCEPT !.phase = op.phase] /\ op.phase \in {"none", "applying", "applied", "nacked"}
      BY <1>2, <1>5, <2>2 DEF Recovered, RotOps
    <3> QED
      BY <1>3, <1>5, <3>1, PhaseStep
  <2> QED
    BY <2>1, <2>2
<1>6. CASE Handshake \/ (ReceivePrepare /\ op.cert = offer)
  BY <1>5, <1>6 DEF Handshake, ReceivePrepare
<1>7. CASE ReceivePrepare /\ op.cert # offer
  <2>1. /\ op' = [cert |-> offer, phase |-> "applying"] /\ handler' = "deciding"
        /\ linked /\ handler = "idle" /\ Verifies /\ offer # NoOffer /\ ~acked
        /\ UNCHANGED linked
    BY <1>7 DEF ReceivePrepare
  <2>2. op' \in RotOps /\ op'.cert = offer /\ op'.phase = "applying"
    BY <1>1, <2>1 DEF RotOps, RotKeysTyped
  <2>3. RotKeysTyped' /\ OfferFits' /\ ConfirmedIsPinned' /\ PinIsLive'
    BY <1>1, <1>3 DEF RotKeysTyped, OfferFits, ConfirmedIsPinned, PinIsLive
  <2>4. RotNodeTyped'
    <3>1. op'.cert.new.key # 0
      BY <1>1, <2>1, <2>2 DEF OfferFits
    <3> QED
      BY <1>1, <1>3, <2>1, <2>2, <3>1 DEF RotNodeTyped
  <2>5. \A x \in KnownKeys' : x \in KnownKeys
    BY <1>3, <2>2 DEF KnownKeys
  <2>6. KeysKnown'
    BY <1>1, <1>3, <2>5, KeysKept
  <2>7. SavedIsPinned'
    BY <2>1, <2>2 DEF SavedIsPinned
  <2>8. Unforced'
    BY <1>3, <2>1, <2>2 DEF Unforced, Verifies
  <2> QED
    BY <2>3, <2>4, <2>6, <2>7, <2>8, RotationWhole
<1> QED
  BY <1>4, <1>6, <1>7

(* A certificate of the pinned key and generation replaces the pin.  Then   *)
(* the Controller counted as the node does, so the distance stays.          *)
LEMMA AcceptPinStep ==
  ASSUME RotationInv, AcceptPin
  PROVE  RotationInv'
<1>1. /\ RotKeysTyped /\ RotNodeTyped /\ KeysKnown /\ OfferFits /\ SavedIsPinned /\ Unforced
      /\ ConfirmedIsPinned /\ PinIsLive
  BY RotationParts
<1>2. /\ handler = "deciding" /\ handler' = "saved" /\ pin' = op.cert.new
      /\ UNCHANGED <<signer, offer, minted, first, acked, forced, reenrolled, confirmed, op, running,
                     linked>>
  BY DEF AcceptPin, ctlVars
<1>3. /\ op.cert.old.key = pin.key /\ op.cert.old.gen = pin.gen /\ op.cert.new.gen > pin.gen
  BY DEF AcceptPin, Acceptable
<1>4. op.cert.old \in KnownKeys /\ op.cert.new \in KnownKeys
  BY DEF KnownKeys
<1>5. KnownKeys' = KnownKeys
  BY <1>2 DEF KnownKeys
<1>6. /\ op.cert.new \in Pins /\ op.cert.new.gen \in Nat /\ op.cert.new.key \in Nat /\ pin.gen \in Nat
      /\ first \in Nat /\ pin.gen > 0 /\ confirmed \in Nat /\ minted \in Nat
  BY <1>1, <1>4, KeysTyped DEF RotKeysTyped
<1>7. op.cert.new.key > 0 /\ op.cert.new.gen > 0 /\ pin.gen <= op.cert.new.gen
      /\ op.cert.new.gen <= op.cert.new.gen
  <2>1. op.cert.new.key # 0
    BY <1>1, <1>2 DEF RotNodeTyped
  <2> QED
    BY SMT, <1>3, <1>6, <2>1
<1>8. RotKeysTyped'
  BY <1>1, <1>2, <1>6, <1>7 DEF RotKeysTyped
<1>9. RotNodeTyped'
  BY <1>1, <1>2 DEF RotNodeTyped
<1>10. KeysKnown'
  <2>1. pin'.key <= minted
    BY <1>1, <1>2, <1>4 DEF KeysKnown
  <2>2. ASSUME ~reenrolled, NEW x \in KnownKeys, x.key = op.cert.new.key
        PROVE  x.gen + 1 = op.cert.new.gen + first
    <3>1. op.cert.old.gen + 1 = pin.gen + first
      BY <1>1, <1>3, <1>4, <2>2 DEF KeysKnown
    <3>2. first = 1
      BY SMT, <1>3, <1>6, <3>1
    <3>3. op.cert.new.key # 0
      BY <1>1, <1>2 DEF RotNodeTyped
    <3>4. x.gen = op.cert.new.gen
      BY <1>1, <1>4, <2>2, <3>3 DEF KeysKnown
    <3> QED
      BY <3>2, <3>4
  <2> QED
    BY <1>1, <1>2, <1>5, <2>1, <2>2 DEF KeysKnown
<1>11. ConfirmedIsPinned'
  <2>1. confirmed <= pin.gen
    BY <1>1 DEF ConfirmedIsPinned
  <2>2. confirmed <= op.cert.new.gen
    BY SMT, <1>6, <1>7, <2>1
  <2> QED
    BY <1>2, <2>2 DEF ConfirmedIsPinned
<1>12. OfferFits' /\ SavedIsPinned'
  BY <1>1, <1>2, <1>7 DEF OfferFits, SavedIsPinned
<1>13. PinIsLive' /\ Unforced'
  <2> SUFFICES ASSUME ~forced PROVE PinIsLive' /\ Unforced'
    BY <1>2 DEF PinIsLive, Unforced
  <2>1. op.cert = offer /\ offer # NoOffer /\ ~acked /\ op.phase = "applying"
    BY <1>1, <1>2 DEF Unforced, RotNodeTyped
  <2> QED
    BY <1>2, <2>1 DEF PinIsLive, Unforced
<1> QED
  BY <1>8, <1>9, <1>10, <1>11, <1>12, <1>13, RotationWhole

(* The Controller hears the answer: it may trust a "pinned", and a refusal  *)
(* withdraws an offer that nobody has pinned.                               *)
LEMMA SendStep ==
  ASSUME RotationInv, SendAnswer
  PROVE  RotationInv'
<1>1. /\ RotKeysTyped /\ RotNodeTyped /\ KeysKnown /\ OfferFits /\ SavedIsPinned /\ Unforced
      /\ ConfirmedIsPinned /\ PinIsLive
  BY RotationParts
<1>2. /\ UNCHANGED <<signer, minted, first, forced, reenrolled, pin, op, running, linked, handler>>
      /\ op.cert = offer /\ offer # NoOffer /\ ~acked /\ op.phase \in {"applied", "nacked"}
  BY DEF SendAnswer
<1>3. handler = "idle"
  BY <1>1, <1>2 DEF RotNodeTyped
<1>4. NoOffer \in Certificates /\ NoOffer.old = NoKey /\ NoOffer.new = NoKey
  BY SMT DEF NoOffer, NoKey, Certificates, Pins
<1>5. \/ acked' = TRUE /\ confirmed' = op.cert.new.gen /\ offer' = offer /\ op.phase = "applied"
      \/ acked' = acked /\ confirmed' = confirmed /\ offer' = NoOffer /\ op.phase = "nacked"
  BY <1>2 DEF SendAnswer
<1>6. op.cert.new \in KnownKeys
  BY DEF KnownKeys
<1>7. RotKeysTyped'
  <2>1. op.cert.new.gen \in Nat
    BY <1>1, <1>6, KeysTyped
  <2> QED
    BY <1>1, <1>2, <1>4, <1>5, <2>1 DEF RotKeysTyped
<1>8. RotNodeTyped'
  BY <1>1, <1>2, <1>5 DEF RotNodeTyped
<1>9. \A x \in KnownKeys' : x \in KnownKeys \/ x = NoKey
  BY <1>2, <1>4, <1>5 DEF KnownKeys
<1>10. KeysKnown'
  BY <1>1, <1>2, <1>9, KeysKept
<1>11. ConfirmedIsPinned'
  BY <1>1, <1>2, <1>5 DEF ConfirmedIsPinned, SavedIsPinned
<1>12. OfferFits' /\ SavedIsPinned'
  BY <1>1, <1>2, <1>5 DEF OfferFits, SavedIsPinned
<1>13. PinIsLive' /\ Unforced'
  <2> SUFFICES ASSUME ~forced PROVE PinIsLive' /\ Unforced'
    BY <1>2 DEF PinIsLive, Unforced
  <2>1. /\ op.phase = "nacked" => pin.key = signer.key
        /\ op.phase = "applied" => pin = offer.new
    BY <1>1, <1>2 DEF Unforced
  <2>2. pin.key = signer.key \/ pin.key = offer.new.key
    BY <1>1, <1>2 DEF PinIsLive
  <2>3. CASE op.phase = "applied"
    BY <1>2, <1>3, <1>5, <2>1, <2>2, <2>3 DEF PinIsLive, Unforced
  <2>4. CASE op.phase = "nacked"
    <3>1. offer' = NoOffer /\ acked' = acked
      BY <1>5, <2>4
    <3> QED
      BY SMT, <1>2, <1>3, <2>1, <2>4, <3>1 DEF PinIsLive, Unforced
  <2> QED
    BY <1>2, <2>3, <2>4
<1> QED
  BY <1>7, <1>8, <1>10, <1>11, <1>12, <1>13, RotationWhole

(* A successor has a key of its own, one generation on.                     *)
LEMMA OfferStep ==
  ASSUME RotationInv, OfferSuccessor
  PROVE  RotationInv'
<1> DEFINE k == [key |-> minted + 1, gen |-> signer.gen + 1]
<1> DEFINE o == [old |-> signer, new |-> k]
<1>1. /\ RotKeysTyped /\ RotNodeTyped /\ KeysKnown /\ OfferFits /\ SavedIsPinned /\ Unforced
      /\ ConfirmedIsPinned /\ PinIsLive
  BY RotationParts
<1>2. /\ UNCHANGED <<signer, first, forced, reenrolled, confirmed, pin, op, running, linked, handler>>
      /\ offer = NoOffer /\ minted' = minted + 1 /\ offer' = o /\ acked' = FALSE
  BY DEF OfferSuccessor
<1>3. signer \in Pins /\ signer.gen \in Nat /\ signer.key \in Nat /\ minted \in Nat /\ pin.key \in Nat
  BY <1>1, KeysTyped DEF RotKeysTyped, KnownKeys
<1>4. minted + 1 \in Nat /\ signer.gen + 1 \in Nat
  BY SMT, <1>3
<1>5. k \in Pins /\ k.key = minted + 1 /\ k.gen = signer.gen + 1
  BY <1>4 DEF Pins
<1> HIDE DEF k
<1>6. o \in Certificates /\ o.old = signer /\ o.new = k
  BY <1>3, <1>5 DEF Certificates
<1> HIDE DEF o
<1>7. \A x \in KnownKeys : x.key \in Nat /\ x.key <= minted
  BY <1>1, KeysTyped DEF KeysKnown
<1>8. \A x \in KnownKeys : x.key <= minted + 1 /\ x.key # k.key
  BY SMT, <1>3, <1>5, <1>7
<1>9. pin.key <= minted + 1 /\ pin.key # k.key /\ k.key # 0 /\ k.key <= minted + 1
  <2>1. pin.key <= minted
    BY <1>1 DEF KeysKnown
  <2> QED
    BY SMT, <1>3, <1>5, <2>1
<1>10. \A x \in KnownKeys' : x \in KnownKeys \/ x = k
  BY <1>2, <1>6 DEF KnownKeys
<1>11. RotKeysTyped' /\ RotNodeTyped'
  <2>1. RotKeysTyped'
    BY <1>1, <1>2, <1>4, <1>6 DEF RotKeysTyped
  <2>2. RotNodeTyped'
    BY <1>1, <1>2 DEF RotNodeTyped
  <2> QED
    BY <2>1, <2>2
<1>12. KeysKnown'
  <2>1. \A x \in KnownKeys' : x.key <= minted'
    BY <1>2, <1>8, <1>9, <1>10
  <2>2. \A x, y \in KnownKeys' : x.key = y.key /\ x.key # 0 => x.gen = y.gen
    BY <1>1, <1>8, <1>10 DEF KeysKnown
  <2>3. ~reenrolled => \A x \in KnownKeys' : x.key = pin.key => x.gen + 1 = pin.gen + first
    BY <1>1, <1>9, <1>10 DEF KeysKnown
  <2> QED
    BY <1>2, <1>9, <2>1, <2>2, <2>3 DEF KeysKnown
<1>13. OfferFits'
  <2>1. k.key # signer.key
    BY <1>8 DEF KnownKeys
  <2> QED
    BY <1>2, <1>5, <1>6, <1>9, <2>1 DEF OfferFits
<1>14. ConfirmedIsPinned' /\ SavedIsPinned'
  BY <1>1, <1>2 DEF ConfirmedIsPinned, SavedIsPinned
<1>15. PinIsLive' /\ Unforced'
  <2> SUFFICES ASSUME ~forced PROVE PinIsLive' /\ Unforced'
    BY <1>2 DEF PinIsLive, Unforced
  <2>1. handler = "idle" /\ ~acked
    BY <1>1, <1>2 DEF Unforced
  <2>2. pin.key = signer.key
    <3>1. NoOffer.new.key = 0
      BY DEF NoOffer
    <3>2. pin.key # 0
      BY SMT, <1>1, <1>3 DEF RotKeysTyped
    <3> QED
      BY <1>1, <1>2, <3>1, <3>2 DEF PinIsLive
  <2>3. op.cert # o
    BY <1>6, <1>8 DEF KnownKeys
  <2> QED
    BY <1>2, <2>1, <2>2, <2>3 DEF PinIsLive, Unforced
<1> QED
  BY <1>11, <1>12, <1>13, <1>14, <1>15, RotationWhole

(* The successor takes over, with the Agent's answer or without it.         *)
LEMMA ActivatePinStep ==
  ASSUME RotationInv, Activate
  PROVE  RotationInv'
<1>1. /\ RotKeysTyped /\ RotNodeTyped /\ KeysKnown /\ OfferFits /\ SavedIsPinned /\ Unforced
      /\ ConfirmedIsPinned /\ PinIsLive
  BY RotationParts
<1>2. /\ UNCHANGED <<minted, first, reenrolled, confirmed, pin, op, running, linked, handler>>
      /\ offer # NoOffer /\ signer' = offer.new /\ offer' = NoOffer /\ acked' = FALSE
      /\ forced' \in BOOLEAN /\ (~forced' => acked /\ ~forced)
  BY <1>1 DEF Activate, RotNodeTyped
<1>3. NoOffer \in Certificates /\ NoOffer.old = NoKey /\ NoOffer.new = NoKey
  BY SMT DEF NoOffer, NoKey, Certificates, Pins
<1>4. /\ offer.new \in Pins /\ offer.new.key \in Nat /\ offer.new.gen \in Nat /\ signer.gen \in Nat
      /\ offer.new.key # 0 /\ offer.new.gen = signer.gen + 1
  BY <1>1, <1>2, KeysTyped DEF OfferFits, KnownKeys
<1>5. offer.new.key > 0 /\ offer.new.gen > 0
  BY SMT, <1>4
<1>6. RotKeysTyped'
  BY <1>1, <1>2, <1>3, <1>4, <1>5 DEF RotKeysTyped
<1>7. RotNodeTyped'
  BY <1>1, <1>2 DEF RotNodeTyped
<1>8. \A x \in KnownKeys' : x \in KnownKeys \/ x = NoKey
  BY <1>2, <1>3 DEF KnownKeys
<1>9. KeysKnown'
  BY <1>1, <1>2, <1>8, KeysKept
<1>10. OfferFits' /\ ConfirmedIsPinned' /\ SavedIsPinned'
  BY <1>1, <1>2 DEF OfferFits, ConfirmedIsPinned, SavedIsPinned
<1>11. PinIsLive' /\ Unforced'
  <2> SUFFICES ASSUME ~forced' PROVE PinIsLive' /\ Unforced'
    BY DEF PinIsLive, Unforced
  <2>1. acked /\ ~forced
    BY <1>2
  <2>2. op.cert = offer /\ op.phase = "applied" /\ handler = "idle" /\ pin = offer.new
    BY <1>1, <1>2, <2>1 DEF Unforced
  <2> QED
    BY <1>2, <2>2 DEF PinIsLive, Unforced
<1> QED
  BY <1>6, <1>7, <1>9, <1>10, <1>11, RotationWhole

(* Enrolling again pins the key in use, unless that would go back.          *)
LEMMA EnrollStep ==
  ASSUME RotationInv, EnrollAgain
  PROVE  RotationInv'
<1> DEFINE e == EnrolledPin(signer.key)
<1>1. /\ RotKeysTyped /\ RotNodeTyped /\ KeysKnown /\ OfferFits /\ SavedIsPinned /\ Unforced
      /\ ConfirmedIsPinned /\ PinIsLive
  BY RotationParts
<1>2. /\ UNCHANGED <<signer, offer, minted, first, acked, forced, confirmed, op, linked, handler>>
      /\ ~running
  BY DEF EnrollAgain
<1>3. handler = "idle" /\ ~linked
  BY <1>1, <1>2 DEF RotNodeTyped
<1>4. CASE ~Saves(e)
  <2>1. UNCHANGED <<pin, running, reenrolled>>
    BY <1>4 DEF EnrollAgain
  <2>2. KnownKeys' = KnownKeys
    BY <1>2 DEF KnownKeys
  <2>3. KeysKnown'
    BY <1>1, <1>2, <2>1, <2>2, KeysKept
  <2>4. RotKeysTyped' /\ RotNodeTyped'
    BY <1>1, <1>2, <2>1 DEF RotKeysTyped, RotNodeTyped
  <2>5. OfferFits' /\ SavedIsPinned' /\ Unforced' /\ ConfirmedIsPinned' /\ PinIsLive'
    BY <1>1, <1>2, <2>1 DEF OfferFits, SavedIsPinned, Unforced, ConfirmedIsPinned, PinIsLive
  <2> QED
    BY <2>3, <2>4, <2>5, RotationWhole
<1>5. CASE Saves(e)
  <2>1. pin' = e /\ running' = TRUE /\ reenrolled' = TRUE
    BY <1>5 DEF EnrollAgain
  <2>2. signer.key \in Nat /\ signer.key > 0 /\ signer.gen \in Nat /\ signer.gen > 0 /\ pin.gen \in Nat
        /\ signer \in KnownKeys /\ op.cert.new.gen \in Nat /\ confirmed \in Nat /\ offer.new.gen \in Nat
    BY <1>1, KeysTyped DEF RotKeysTyped, KnownKeys
  <2>3. e.key = signer.key /\ e.gen = 1 /\ e \in Pins
    BY SMT, <2>2 DEF EnrolledPin, Pins
  <2> HIDE DEF e
  <2>4. pin.gen <= 1
    BY SMT, <1>5, <2>2, <2>3 DEF Saves
  <2>5. RotKeysTyped'
    <3>1. 1 > 0
      BY SMT
    <3> QED
      BY <1>1, <1>2, <2>1, <2>3, <3>1 DEF RotKeysTyped
  <2>6. RotNodeTyped'
    BY <1>1, <1>2, <1>3, <2>1 DEF RotNodeTyped
  <2>7. KnownKeys' = KnownKeys
    BY <1>2 DEF KnownKeys
  <2>8. KeysKnown'
    BY <1>1, <1>2, <2>1, <2>2, <2>3, <2>7 DEF KeysKnown
  <2>9. ConfirmedIsPinned'
    BY SMT, <1>1, <1>2, <2>1, <2>2, <2>3, <2>4 DEF ConfirmedIsPinned
  <2>10. SavedIsPinned'
    <3>1. op.phase = "applied" => op.cert.new.gen <= pin.gen
      BY <1>1 DEF SavedIsPinned
    <3>2. op.cert.new.gen <= pin.gen => op.cert.new.gen <= 1
      BY SMT, <2>2, <2>4
    <3> QED
      BY <1>2, <1>3, <2>1, <2>3, <3>1, <3>2 DEF SavedIsPinned
  <2>11. OfferFits' /\ PinIsLive'
    BY <1>1, <1>2, <2>1, <2>3 DEF OfferFits, PinIsLive
  <2>12. offer # NoOffer => pin # offer.new
    <3>1. offer # NoOffer => offer.new.gen = signer.gen + 1
      BY <1>1 DEF OfferFits
    <3> QED
      BY SMT, <2>2, <2>4, <3>1
  <2>13. Unforced'
    BY <1>1, <1>2, <1>3, <2>1, <2>3, <2>12 DEF Unforced
  <2> QED
    BY <2>5, <2>6, <2>8, <2>9, <2>10, <2>11, <2>13, RotationWhole
<1> QED
  BY <1>4, <1>5

(* A node that has just enrolled trusts the key in use, at generation 1.    *)
LEMMA RotationInitial == RotInit => RotationInv
<1> SUFFICES ASSUME RotInit PROVE RotationInv
  OBVIOUS
<1>1. first \in Nat \ {0} /\ first \in FirstGens
  BY RotAssumption DEF RotInit
<1>2. first \in Nat /\ first > 0 /\ 1 \in Nat /\ 1 > 0 /\ 0 \in Nat /\ 0 <= 1 /\ 1 <= 1 /\ first + 1 = 1 + first
  BY SMT, <1>1
<1>3. /\ NoOffer \in Certificates /\ NoOffer.old = NoKey /\ NoOffer.new = NoKey /\ NoKey.key = 0
      /\ NoKey.gen = 0
  BY SMT DEF NoOffer, NoKey, Certificates, Pins
<1>4. signer \in Pins /\ signer.key = 1 /\ signer.gen = first
  BY <1>2 DEF RotInit, Pins
<1>5. pin \in Pins /\ pin.key = 1 /\ pin.gen = 1
  BY <1>2 DEF RotInit, EnrolledPin, Pins
<1>6. op \in RotOps /\ op.cert = NoOffer /\ op.phase = "none" /\ offer = NoOffer
  BY <1>3 DEF RotInit, NoRotation, RotOps
<1>7. \A x \in KnownKeys : x = signer \/ x = NoKey
  BY <1>3, <1>6 DEF KnownKeys
<1>8. RotTypeOK
  <2>1. /\ confirmed \in Nat /\ minted \in Nat /\ handler = "idle" /\ running = TRUE /\ linked = FALSE
        /\ acked = FALSE /\ forced = FALSE /\ reenrolled = FALSE
    BY <1>2 DEF RotInit
  <2>2. RotKeysTyped
    BY <1>1, <1>2, <1>3, <1>4, <1>5, <1>6, <2>1 DEF RotKeysTyped
  <2>3. RotNodeTyped
    BY <1>6, <2>1 DEF RotNodeTyped
  <2> QED
    BY SMT, <2>2, <2>3 DEF RotTypeOK, RotKeysTyped, RotNodeTyped, RotOps, Certificates
<1>9. KeysAgree
  <2>1. minted = 1 /\ 0 # 1
    BY SMT DEF RotInit
  <2>2. \A x \in KnownKeys : x.key = 1 \/ x.key = 0
    BY <1>3, <1>4, <1>7
  <2>3. \A x \in KnownKeys : x.key <= minted /\ (x.key = pin.key => x.gen + 1 = pin.gen + first)
    BY <1>2, <1>3, <1>4, <1>5, <1>7, <2>1
  <2>4. \A x, y \in KnownKeys : x.key = y.key /\ x.key # 0 => x.gen = y.gen
    BY <1>3, <1>7
  <2> QED
    BY <1>2, <1>5, <1>6, <2>1, <2>3, <2>4 DEF KeysAgree
<1>10. ConfirmedIsPinned /\ PinIsLive /\ GenerationsAgree
  <2>1. confirmed = 0
    BY DEF RotInit
  <2> QED
    BY <1>2, <1>4, <1>5, <2>1 DEF ConfirmedIsPinned, PinIsLive, GenerationsAgree
<1>11. AnswersAreTrue
  BY <1>6 DEF RotInit, AnswersAreTrue
<1> QED
  BY <1>8, <1>9, <1>10, <1>11 DEF RotationInv

(* Every step of the Agent, the Controller and the operator keeps it.       *)
LEMMA RotationSteps == RotationInv /\ [RotNext]_rotVars => RotationInv'
BY LinkStep, PrepareStep, AcceptPinStep, SendStep, OfferStep, ActivatePinStep, EnrollStep DEF RotNext

(* For every number of keys, first generation and mishaps, the Agent never  *)
(* confirms what it has not pinned, never trusts a key the Controller does  *)
(* not have or offer unless one was forced, and keeps its count.            *)
THEOREM RotationSafe == RotSpec => []RotationInv
BY RotationInitial, RotationSteps, PTL DEF RotSpec
=============================================================================
