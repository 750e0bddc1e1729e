---------------------------- MODULE Decommission ----------------------------
(***************************************************************************)
(* The end of an Agent: the node_decommission command, the terminal marker  *)
(* file, the latch that shares its boundary with the data plane, the        *)
(* recovery quarantine of a restored Agent, and what crashes, failed writes *)
(* and the data plane's own goroutines do between the steps                 *)
(* (internal/agent/reconcile/decommission.go, localstate/decommission.go,   *)
(* marker.go, latch.go, recovery.go and the handlers of app.go).            *)
(*                                                                          *)
(* Commands run one at a time on the session's frame loop; a command is     *)
(* split at every durable write, because a crash or a failed write may fall *)
(* between two of them and because recovery passes, cleanup retries and the *)
(* reconnect loop run beside it.                                            *)
(***************************************************************************)
EXTENDS Integers, FiniteSets

CONSTANTS
  Forwards,      \* Forwards the node serves
  Requests,      \* decommission requests: [op, deadline], deadline 0 is none
  Restores,      \* identities of restore operations
  MaxCrashes, MaxFails, MaxGeneration  \* bounds on crashes, failed steps, quarantines

ASSUME BoundsAssumption ==
  /\ MaxCrashes \in Nat /\ MaxFails \in Nat /\ MaxGeneration \in Nat
  /\ \A r \in Requests : r.deadline \in {0, 1} /\ r.op # "none"
  /\ "none" \notin Restores

Markers == {"ACTIVE", "DECOMMISSIONING", "DECOMMISSIONED"}
Ops == {r.op : r \in Requests}
NoRow == [op |-> "none", deadline |-> 0]
NoQuarantine == [op |-> "none", generation |-> 0]

VARIABLES
  \* the state directory
  marker,      \* terminal.marker
  intent,      \* decommission-intent row, or NoRow
  tombstone,   \* cleanup-tombstone row, or NoRow
  applied,     \* Forwards with an applied (last known good) row
  mirror,      \* Forwards with an activation mirror row
  acks,        \* semantic result recorded per operation, "none" before
  receipted,   \* operations whose result the Controller has receipted
  quarantine,  \* recovery.quarantine
  \* the process
  phase,       \* "down", "starting" or "up"
  latch,       \* Latch.engaged
  memMarker,   \* App.marker
  live,        \* dataPlane.forwards
  pending,     \* dataPlane.cleanupPending
  notify,      \* pending Forwards whose deletion was asked for
  activations, \* App.activations
  reopening,   \* per Forward: "no", "building", or "installed" before OnApplied
  loop,        \* reconnectControl is running
  cmd,         \* the running command: [pc, req, stopErr, drop]
  \* the environment
  now,         \* 0 before the deadline of the requests that have one, 1 after
  grants,      \* authorisations the Controller issued: [op, generation, entry]
  entered,     \* how often the quarantine was entered
  crashes, fails

disk == <<marker, intent, tombstone, applied, mirror, acks, receipted, quarantine>>
plane == <<live, pending, notify, activations, reopening>>
process == <<phase, latch, memMarker, loop>>
bounds == <<crashes, fails>>
vars == <<marker, intent, tombstone, applied, mirror, acks, receipted, quarantine,
          phase, latch, memMarker, live, pending, notify, activations, reopening, loop,
          cmd,
          now, grants, entered, crashes, fails>>

Idle == [pc |-> "idle", req |-> NoRow, stopErr |-> FALSE, drop |-> FALSE]

Init ==
  /\ marker = "ACTIVE" /\ intent = NoRow /\ tombstone = NoRow
  /\ applied \in SUBSET Forwards /\ mirror = applied
  /\ acks = [o \in Ops |-> "none"] /\ receipted = {}
  /\ quarantine = NoQuarantine
  /\ phase = "down" /\ latch = FALSE /\ memMarker = "ACTIVE" /\ loop = FALSE
  /\ live = {} /\ pending = {} /\ notify = {} /\ activations = {}
  /\ reopening = [f \in Forwards |-> "no"]
  /\ cmd = Idle
  /\ now = 0 /\ grants = {} /\ entered = 0 /\ crashes = 0 /\ fails = 0

-----------------------------------------------------------------------------
(* Process start and crash.                                                 *)

\* App.New: the marker is read first and engages the latch unless ACTIVE.
Boot ==
  /\ phase = "down"
  /\ phase' = "starting"
  /\ memMarker' = marker
  /\ latch' = (marker # "ACTIVE")
  /\ UNCHANGED <<disk, plane, loop, cmd, now, grants, entered, bounds>>

\* reconcile.RecoveryDeferred
RecoveryDeferred == memMarker # "ACTIVE" \/ quarantine # NoQuarantine

\* App.Start: unless recovery is deferred, every applied row is reopened
\* before the session opens; the reconnect loop runs only while ACTIVE.
StartUp ==
  /\ phase = "starting"
  /\ phase' = "up"
  /\ loop' = (memMarker = "ACTIVE")
  /\ IF RecoveryDeferred \/ latch
     THEN UNCHANGED <<live, activations, mirror>>
     ELSE /\ live' = applied
          /\ activations' = applied
          /\ mirror' = mirror \cup applied
  /\ UNCHANGED <<marker, intent, tombstone, applied, acks, receipted, quarantine, latch,
                 memMarker, pending, notify, reopening, cmd, now, grants, entered, bounds>>

\* The process dies, by itself or restarted by an operator: memory is lost.
Lose ==
  /\ phase' = "down" /\ latch' = FALSE /\ memMarker' = "ACTIVE" /\ loop' = FALSE
  /\ live' = {} /\ pending' = {} /\ notify' = {} /\ activations' = {}
  /\ reopening' = [f \in Forwards |-> "no"]
  /\ cmd' = Idle

Crash ==
  /\ phase # "down"
  /\ crashes < MaxCrashes
  /\ crashes' = crashes + 1
  /\ Lose
  /\ UNCHANGED <<disk, now, grants, entered, fails>>

\* The latch is engaged and the marker still ACTIVE: TryEngage refuses every
\* retry, and only a new process gets past it.
Wedged == phase = "up" /\ cmd.pc = "idle" /\ latch /\ marker = "ACTIVE"

OperatorRestart ==
  /\ Wedged
  /\ Lose
  /\ UNCHANGED <<disk, now, grants, entered, bounds>>

-----------------------------------------------------------------------------
(* node_decommission: handleDecommission and the Decommissioner.            *)

Go(pc) == cmd' = [cmd EXCEPT !.pc = pc]
Nack == cmd' = Idle

\* A step of the command fails with an I/O error and the command is nacked.
FailAt(pc) ==
  /\ cmd.pc = pc
  /\ fails < MaxFails
  /\ fails' = fails + 1
  /\ Nack

\* Begin as it would be if a persisted DECOMMISSIONING marker were refused.
BeginRefusingResume(req) ==
  /\ phase = "up" /\ cmd.pc = "idle"
  /\ marker # "DECOMMISSIONING" /\ ~Wedged
  /\ cmd' = [Idle EXCEPT !.req = req,
                         !.pc = IF marker = "DECOMMISSIONED" THEN "ack" ELSE "intent"]
  /\ latch' = (latch \/ marker = "ACTIVE")
  /\ UNCHANGED <<disk, plane, phase, memMarker, loop, now, grants, entered, bounds>>

\* Entry of handleDecommission and Begin up to the latch.  A DECOMMISSIONED
\* marker goes straight to QueueAck, DECOMMISSIONING resumes, and ACTIVE
\* engages the latch or is refused because somebody already has.
Begin(req) ==
  /\ phase = "up" /\ cmd.pc = "idle"
  /\ ~Wedged
  /\ cmd' = [Idle EXCEPT !.req = req,
                         !.pc = IF marker = "DECOMMISSIONED" THEN "ack" ELSE "intent"]
  /\ latch' = (latch \/ marker = "ACTIVE")
  /\ UNCHANGED <<disk, plane, phase, memMarker, loop, now, grants, entered, bounds>>

\* PutDecommissionIntent: the first operation wins; a second row of the same
\* operation changes nothing, whatever else its request says.
PutIntent ==
  /\ cmd.pc = "intent"
  /\ IF intent # NoRow /\ intent.op # cmd.req.op
     THEN Nack /\ UNCHANGED intent
     ELSE Go("mark") /\ intent' = IF intent = NoRow THEN cmd.req ELSE intent
  /\ UNCHANGED <<marker, tombstone, applied, mirror, acks, receipted, quarantine,
                 process, plane, now, grants, entered, bounds>>

\* writeMarkerUnlocked: only DECOMMISSIONED refuses to go back.
CanWriteMarker(state) == marker # "DECOMMISSIONED" \/ state = "DECOMMISSIONED"

WriteDecommissioning ==
  /\ cmd.pc = "mark"
  /\ CanWriteMarker("DECOMMISSIONING")
  /\ marker' = "DECOMMISSIONING"
  /\ memMarker' = "DECOMMISSIONING"
  /\ Go("stop")
  /\ UNCHANGED <<intent, tombstone, applied, mirror, acks, receipted, quarantine,
                 phase, latch, loop, plane, now, grants, entered, bounds>>

\* stopAll: every live and pending actor is stopped and leaves the map; those
\* whose cleanup fails stay pending and report a cleanup error, which saves
\* their mirror, and the others drop their activation.
StopAll ==
  /\ cmd.pc = "stop"
  /\ \E bad \in SUBSET (live \cup pending) :
       /\ fails + Cardinality(bad) <= MaxFails
       /\ fails' = fails + Cardinality(bad)
       /\ live' = {}
       /\ pending' = bad /\ notify' = bad
       /\ activations' = activations \ ((live \cup pending) \ bad)
       /\ mirror' = mirror \cup (bad \cap activations)
       /\ cmd' = [cmd EXCEPT !.pc = "decide", !.stopErr = bad # {}]
  /\ UNCHANGED <<marker, intent, tombstone, applied, acks, receipted, quarantine,
                 process, reopening, now, grants, entered, crashes>>

\* requireIntent: the persisted intent equals the request in every field.
IntentMatches == intent = cmd.req

\* ReconcileDeadline up to its first write, and the test of stopErr: past the
\* deadline the operation is dropped, before it a failed stop is reported.
Decide ==
  /\ cmd.pc = "decide"
  /\ IF ~IntentMatches THEN Nack
     ELSE IF cmd.req.deadline # 0 /\ now >= cmd.req.deadline
          THEN cmd' = [cmd EXCEPT !.pc = "clear", !.drop = TRUE]
     ELSE IF cmd.stopErr THEN Nack
     ELSE Go("clear")
  /\ UNCHANGED <<disk, process, plane, now, grants, entered, bounds>>

\* ClearForwardStateForDecommission, from ReconcileDeadline or from Complete.
ClearForwardState ==
  /\ cmd.pc = "clear"
  /\ applied' = {} /\ mirror' = {}
  /\ Go("tombstone")
  /\ UNCHANGED <<marker, intent, tombstone, acks, receipted, quarantine,
                 process, plane, now, grants, entered, bounds>>

\* WriteAgentCleanupTombstone
WriteTombstone ==
  /\ cmd.pc = "tombstone"
  /\ IF tombstone # NoRow /\ tombstone.op # cmd.req.op
     THEN Nack /\ UNCHANGED tombstone
     ELSE Go("final") /\ tombstone' = IF tombstone = NoRow THEN cmd.req ELSE tombstone
  /\ UNCHANGED <<marker, intent, applied, mirror, acks, receipted, quarantine,
                 process, plane, now, grants, entered, bounds>>

WriteDecommissioned ==
  /\ cmd.pc = "final"
  /\ marker' = "DECOMMISSIONED"
  /\ IF cmd.drop THEN Go("drop") /\ UNCHANGED memMarker
                 ELSE Go("ack") /\ memMarker' = "DECOMMISSIONED"
  /\ UNCHANGED <<intent, tombstone, applied, mirror, acks, receipted, quarantine,
                 phase, latch, loop, plane, now, grants, entered, bounds>>

\* recordResultAndQueue as it would be if a later result replaced the row.
RecordLatest(o, status) == acks' = [acks EXCEPT ![o] = status]

\* recordResultAndQueue: a queued result is never changed, a receipted
\* operation takes no further result.
Record(o, status) == acks' = [acks EXCEPT ![o] = IF @ = "none" THEN status ELSE @]

\* The DROPPED acknowledgement at the end of ReconcileDeadline.
QueueDropped ==
  /\ cmd.pc = "drop"
  /\ cmd.req.op \notin receipted
  /\ Record(cmd.req.op, "DROPPED")
  /\ memMarker' = "DECOMMISSIONED"
  /\ Go("ack")
  /\ UNCHANGED <<marker, intent, tombstone, applied, mirror, receipted, quarantine,
                 phase, latch, loop, plane, now, grants, entered, bounds>>

\* QueueAck: only for the operation of intent and tombstone, and only once
\* the marker is final.
QueueAck ==
  /\ cmd.pc = "ack"
  /\ IF /\ IntentMatches /\ marker = "DECOMMISSIONED" /\ tombstone.op = cmd.req.op
        /\ cmd.req.op \notin receipted
     THEN /\ Record(cmd.req.op, "DECOMMISSIONED")
          /\ memMarker' = "DECOMMISSIONED"
     ELSE UNCHANGED <<acks, memMarker>>
  /\ Nack
  /\ UNCHANGED <<marker, intent, tombstone, applied, mirror, receipted, quarantine,
                 phase, latch, loop, plane, now, grants, entered, bounds>>

\* A durable step fails.  The marker writes may fail after their rename, in
\* the fsync of the directory: then the new marker is there and the error too.
StepFails ==
  /\ \/ \E pc \in {"intent", "clear", "tombstone", "drop", "ack"} :
          FailAt(pc) /\ UNCHANGED marker
     \/ FailAt("mark") /\ marker' \in {marker, "DECOMMISSIONING"}
     \/ FailAt("final") /\ marker' \in {marker, "DECOMMISSIONED"}
  /\ UNCHANGED <<intent, tombstone, applied, mirror, acks, receipted, quarantine,
                 process, plane, now, grants, entered, crashes>>

\* The Controller receipts a queued result; receipts share the frame loop.
Receipt(o) ==
  /\ phase = "up" /\ cmd.pc = "idle"
  /\ acks[o] # "none" /\ o \notin receipted
  /\ receipted' = receipted \cup {o}
  /\ UNCHANGED <<marker, intent, tombstone, applied, mirror, acks, quarantine,
                 process, plane, cmd, now, grants, entered, bounds>>

-----------------------------------------------------------------------------
(* Other commands: a desired snapshot, and the two restore commands.        *)

\* The command gate of handleCommand: DECOMMISSIONED accepts nothing else.
Accepts == phase = "up" /\ cmd.pc = "idle" /\ memMarker # "DECOMMISSIONED"

\* A desired PRESENT Forward; Latch.RegisterActor refuses it once engaged.
ApplyForward(f) ==
  /\ Accepts /\ ~latch
  /\ f \notin live /\ f \notin pending /\ reopening[f] = "no"
  /\ live' = live \cup {f}
  /\ activations' = activations \cup {f}
  /\ applied' = applied \cup {f}
  /\ mirror' = mirror \cup {f}
  /\ UNCHANGED <<marker, intent, tombstone, acks, receipted, quarantine, process,
                 pending, notify, reopening, cmd, now, grants, entered, bounds>>

\* WriteNextRecoveryQuarantineForOperation: the next generation while a
\* quarantine stands, 1 otherwise.
NextGeneration == IF quarantine = NoQuarantine THEN 1 ELSE quarantine.generation + 1

\* handleRestoreReconcile.  A restore identity returns only to raise the
\* generation of its own standing quarantine: the Controller numbers restores.
RestoreReconcile(r) ==
  /\ Accepts /\ memMarker = "ACTIVE"
  /\ marker # "DECOMMISSIONED"
  /\ entered < MaxGeneration
  /\ quarantine.op = r \/ \A g \in grants : g.op # r
  /\ quarantine' = [op |-> r, generation |-> NextGeneration]
  /\ entered' = entered + 1
  /\ UNCHANGED <<marker, intent, tombstone, applied, mirror, acks, receipted,
                 process, plane, cmd, now, grants, bounds>>

\* The Controller answers the reported binding with an authorisation.
Authorize ==
  /\ quarantine # NoQuarantine
  /\ LET g == [op |-> quarantine.op, generation |-> quarantine.generation, entry |-> entered]
     IN g \notin grants /\ grants' = grants \cup {g}
  /\ UNCHANGED <<disk, process, plane, cmd, now, entered, bounds>>

\* The match as it would be if it looked at the operation only.
ReleasesAnyGeneration(g) == quarantine.op = g.op

\* The binding a restore result must name exactly.
Releases(g) == quarantine.op = g.op /\ quarantine.generation = g.generation

\* handleRestoreResult and ClearRecoveryQuarantineForOperation: an issued
\* authorisation may arrive late, again, or never.
RestoreResult(g) ==
  /\ Accepts
  /\ Releases(g)
  /\ marker # "DECOMMISSIONED"
  /\ quarantine' = NoQuarantine
  /\ UNCHANGED <<marker, intent, tombstone, applied, mirror, acks, receipted,
                 process, plane, cmd, now, grants, entered, bounds>>

-----------------------------------------------------------------------------
(* What runs beside the commands.                                           *)

\* dataPlane.recover, from the liveness monitor, the detection job or a
\* cleanup retry: nothing starts once the latch is engaged.
RecoverBegin(f) ==
  /\ phase = "up" /\ ~latch
  /\ f \in applied /\ f \notin live /\ reopening[f] = "no"
  /\ reopening' = [reopening EXCEPT ![f] = "building"]
  /\ UNCHANGED <<disk, process, live, pending, notify, activations, cmd, now,
                 grants, entered, bounds>>

\* finishReopen as it would be if it trusted the latch read at the start.
RecoverInstallUnlatched(f) ==
  /\ reopening[f] = "building"
  /\ live' = live \cup {f}
  /\ reopening' = [reopening EXCEPT ![f] = "installed"]
  /\ UNCHANGED <<disk, process, pending, notify, activations, cmd, now, grants,
                 entered, bounds>>

\* finishReopen under the data plane lock: the latch is read again, and the
\* actor is published or abandoned; an abandoned actor may stay pending.
RecoverInstall(f) ==
  /\ reopening[f] = "building"
  /\ IF ~latch /\ f \notin live /\ f \notin pending
     THEN /\ live' = live \cup {f}
          /\ reopening' = [reopening EXCEPT ![f] = "installed"]
          /\ UNCHANGED <<pending, fails>>
     ELSE /\ reopening' = [reopening EXCEPT ![f] = "no"]
          /\ UNCHANGED live
          /\ \/ UNCHANGED <<pending, fails>>
             \/ fails < MaxFails /\ fails' = fails + 1 /\ pending' = pending \cup {f}
  /\ UNCHANGED <<disk, process, notify, activations, cmd, now, grants, entered,
                 crashes>>

\* OnApplied, after the lock is released: activation and mirror are written.
RecoverApplied(f) ==
  /\ reopening[f] = "installed"
  /\ reopening' = [reopening EXCEPT ![f] = "no"]
  /\ activations' = activations \cup {f}
  /\ mirror' = mirror \cup {f}
  /\ UNCHANGED <<marker, intent, tombstone, applied, acks, receipted, quarantine,
                 process, live, pending, notify, cmd, now, grants, entered, bounds>>

\* monitorLiveness loses the route: every actor is cleaned up or stays
\* pending, and EvidenceLost saves every mirror.
CapabilityLost ==
  /\ phase = "up" /\ memMarker = "ACTIVE" /\ live # {}
  /\ \E bad \in SUBSET live :
       /\ fails + Cardinality(bad) <= MaxFails
       /\ fails' = fails + Cardinality(bad)
       /\ live' = {}
       /\ pending' = pending \cup bad
  /\ mirror' = mirror \cup activations
  /\ UNCHANGED <<marker, intent, tombstone, applied, acks, receipted, quarantine,
                 process, notify, activations, reopening, cmd, now, grants, entered, crashes>>

\* The cleanup drain retries a pending actor: done, which drops the activation
\* if the stop asked for it, or a cleanup error again.
Drain(f) ==
  /\ f \in pending
  /\ \/ /\ pending' = pending \ {f}
        /\ notify' = notify \ {f}
        /\ activations' = activations \ (notify \cap {f})
        /\ UNCHANGED <<mirror, fails>>
     \/ /\ fails < MaxFails
        /\ fails' = fails + 1
        /\ mirror' = mirror \cup ({f} \cap activations)
        /\ UNCHANGED <<pending, notify, activations>>
  /\ UNCHANGED <<marker, intent, tombstone, applied, acks, receipted, quarantine,
                 process, live, reopening, cmd, now, grants, entered, crashes>>

\* reconnectControl: the session ended and its workers are joined; the mirrors
\* of all activations are rewritten, and the loop ends at its head unless the
\* marker is ACTIVE.
SessionDrops ==
  /\ phase = "up" /\ loop /\ cmd.pc = "idle"
  /\ mirror' = mirror \cup activations
  /\ loop' = (memMarker = "ACTIVE")
  /\ UNCHANGED <<marker, intent, tombstone, applied, acks, receipted, quarantine,
                 phase, latch, memMarker, plane, cmd, now, grants, entered, bounds>>

DeadlinePasses ==
  /\ now = 0
  /\ now' = 1
  /\ UNCHANGED <<disk, process, plane, cmd, grants, entered, bounds>>

-----------------------------------------------------------------------------
Handler ==
  \/ PutIntent \/ WriteDecommissioning \/ StopAll \/ Decide \/ ClearForwardState
  \/ WriteTombstone \/ WriteDecommissioned \/ QueueDropped \/ QueueAck

Beside ==
  \/ CapabilityLost \/ SessionDrops \/ DeadlinePasses
  \/ \E f \in Forwards :
       RecoverBegin(f) \/ RecoverInstall(f) \/ RecoverApplied(f) \/ Drain(f)

Next ==
  \/ Boot \/ StartUp \/ Crash \/ OperatorRestart
  \/ \E req \in Requests : Begin(req)
  \/ Handler \/ StepFails
  \/ \E o \in Ops : Receipt(o)
  \/ \E f \in Forwards : ApplyForward(f)
  \/ \E r \in Restores : RestoreReconcile(r)
  \/ Authorize
  \/ \E g \in grants : RestoreResult(g)
  \/ Beside

Spec == Init /\ [][Next]_vars

\* The process manager starts a dead process and an operator restarts one whose
\* latch is stuck; a command that runs is driven on; the Controller repeats
\* the request whose intent is persisted until it gets a result; and a failed
\* cleanup is retried by the drain.
Repeat == \E req \in Requests : req = intent /\ acks[req.op] = "none" /\ Begin(req)

Fairness ==
  /\ WF_vars(Boot) /\ WF_vars(StartUp) /\ WF_vars(OperatorRestart)
  /\ WF_vars(Handler) /\ SF_vars(Repeat)

FairSpec == Spec /\ Fairness

-----------------------------------------------------------------------------
PCs == {"idle", "intent", "mark", "stop", "decide", "clear", "tombstone", "final", "drop", "ack"}

\* Files, rows, latch, command and goroutines stay in their sets, and only a
\* Forward whose cleanup is pending is waited for.
TypeOK ==
  /\ marker \in Markers /\ memMarker \in Markers
  /\ intent \in Requests \cup {NoRow} /\ tombstone \in Requests \cup {NoRow}
  /\ applied \subseteq Forwards /\ mirror \subseteq Forwards
  /\ acks \in [Ops -> {"none", "DECOMMISSIONED", "DROPPED"}] /\ receipted \subseteq Ops
  /\ quarantine \in {NoQuarantine} \cup [op : Restores, generation : 1..MaxGeneration]
  /\ phase \in {"down", "starting", "up"} /\ latch \in BOOLEAN /\ loop \in BOOLEAN
  /\ live \subseteq Forwards /\ notify \subseteq pending /\ activations \subseteq Forwards
  /\ pending \subseteq Forwards /\ reopening \in [Forwards -> {"no", "building", "installed"}]
  /\ cmd \in [pc : PCs, req : Requests \cup {NoRow}, stopErr : BOOLEAN, drop : BOOLEAN]
  /\ now \in {0, 1} /\ entered \in 0..MaxGeneration
  /\ grants \subseteq [op : Restores, generation : 1..MaxGeneration, entry : 1..MaxGeneration]

\* An Agent whose marker is final serves nothing, whatever recovery pass was
\* under way when the latch engaged and however often the process restarts
\* (the latch reads of recover, finishReopen and RegisterActor, and New).
EndedIsSilent == marker = "DECOMMISSIONED" => live = {}

\* The final marker, the cleanup tombstone and the intent speak of one
\* operation, and no acknowledgement exists before all three are durable
\* (the order of Complete, and the refusals of PutDecommissionIntent,
\* WriteAgentCleanupTombstone and queueAckWithStatus).
OneOperation ==
  /\ tombstone # NoRow => tombstone = intent /\ marker # "ACTIVE"
  /\ marker = "DECOMMISSIONED" => tombstone # NoRow
  /\ marker # "ACTIVE" => intent # NoRow
  /\ \A o \in Ops : acks[o] # "none" => marker = "DECOMMISSIONED" /\ tombstone.op = o

\* What a running command may rely on at each step: the latch that Begin engaged
\* holds, the marker has come as far as the step says and no further, stopAll
\* emptied the data plane for good, and from ReconcileDeadline on the command is
\* the operation of the persisted intent.  The latch follows the marker in every
\* process that gets past New.
CommandInStep ==
  /\ phase # "up" => cmd.pc = "idle"
  /\ phase = "down" => live = {} /\ \A f \in Forwards : reopening[f] = "no"
  /\ phase # "down" /\ marker # "ACTIVE" => latch
  /\ cmd.pc # "idle" => latch /\ cmd.req \in Requests
  /\ cmd.pc \in {"intent", "mark"} => marker # "DECOMMISSIONED"
  /\ cmd.pc = "mark" => intent # NoRow
  /\ cmd.pc \in {"stop", "decide", "clear", "tombstone", "final"} => marker = "DECOMMISSIONING"
  /\ cmd.pc \in {"drop", "ack"} => marker = "DECOMMISSIONED"
  /\ cmd.pc \in {"decide", "clear", "tombstone", "final"} => live = {}
  /\ cmd.pc \in {"clear", "tombstone", "final", "drop"} => intent = cmd.req
  /\ cmd.pc \in {"final", "drop"} => tombstone # NoRow

\* The generation tells the entries of one restore into quarantine apart: an
\* authorisation that names the standing quarantine was issued for this entry
\* (WriteNextRecoveryQuarantineForOperation).
QuarantineDated ==
  quarantine # NoQuarantine =>
    /\ quarantine.generation <= entered
    /\ \A g \in grants : g.op = quarantine.op =>
         /\ g.generation <= quarantine.generation
         /\ g.generation = quarantine.generation => g.entry = entered

\* What a decommission leaves behind is consistent at every step, over crashes
\* and failed writes: marker, tombstone, intent and results speak of one
\* operation, and an Agent that ended serves nothing (Begin, Complete, New).
DecommissionInv ==
  TypeOK /\ OneOperation /\ EndedIsSilent /\ CommandInStep /\ QuarantineDated

\* A result once recorded for an operation is never replaced: the
\* DECOMMISSIONED acknowledgement that follows a drop, or a retry of either,
\* leaves it alone (recordResultAndQueue).
AckSettled == [][\A o \in Ops : acks[o] # "none" => acks'[o] = acks[o]]_vars

\* A quarantine is lifted only once the Controller authorised that very
\* entry into quarantine, never by an authorisation of an earlier one that
\* arrives late (the generation of WriteNext and the match of handleRestoreResult).
ReleasedByOwnGrant ==
  [][quarantine # NoQuarantine /\ quarantine' = NoQuarantine =>
       \E g \in grants : g.entry = entered]_vars

\* A decommission whose intent is durable gets its acknowledgement, through
\* failed writes, failed stops and crashes at any step, if the Controller
\* repeats the request and a stuck process is restarted.
DecommissionAnswered ==
  \A r \in Requests : intent = r ~> acks[r.op] # "none"

\* docs/recovery.md: an Agent in RECOVERY_QUARANTINE does not restore its last
\* known good listeners until it is authorised; here, no recovery pass takes
\* one up while the quarantine file exists.
NoRecoveryInQuarantine ==
  [][\A f \in Forwards :
       reopening[f] = "no" /\ reopening'[f] = "building" => quarantine = NoQuarantine]_vars

\* docs/state-model.md: after the final marker only the identity, the result
\* and its outbox row are kept, never a Forward's last known good state.
NothingSurvives == marker = "DECOMMISSIONED" => applied = {} /\ mirror = {}
=============================================================================
