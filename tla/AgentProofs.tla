---------------------------- MODULE AgentProofs ----------------------------
(***************************************************************************)
(* Theorems about what the Agent tells its Controller: that it ended       *)
(* (Decommission), and what it publishes of its Forwards (Activation).     *)
(* Each for every set of Forwards, requests and restores, and all bounds.  *)
(***************************************************************************)
EXTENDS Decommission, Activation, TLAPS

USE Zenon

-----------------------------------------------------------------------------
(* Decommission.                                                           *)

(* No operation of a request is the "none" of a missing row.               *)
LEMMA NoRowIsNoRequest == NoRow \notin Requests
BY BoundsAssumption DEF NoRow

(* An Agent that was never told to decommission satisfies the invariant.    *)
LEMMA InitDecommission == Init => DecommissionInv
<1> SUFFICES ASSUME Init PROVE DecommissionInv
  OBVIOUS
<1>1. TypeOK
  <2>1. 0 \in 0..MaxGeneration
    BY SMT, BoundsAssumption
  <2> QED
    BY <2>1 DEF Init, TypeOK, Markers, Idle, PCs
<1>2. OneOperation /\ EndedIsSilent /\ CommandInStep /\ QuarantineDated
  BY DEF Init, OneOperation, EndedIsSilent, CommandInStep, QuarantineDated, Idle
<1> QED
  BY <1>1, <1>2 DEF DecommissionInv

(* The steps of the decommission command, from PutDecommissionIntent to the *)
(* recorded result.                                                        *)
LEMMA HandlerStep ==
  ASSUME DecommissionInv, Handler
  PROVE  DecommissionInv'
<1> USE DEF DecommissionInv, TypeOK, OneOperation, EndedIsSilent, CommandInStep, QuarantineDated, disk, process, plane, bounds,
            Go, Nack, Idle, Markers, PCs
<1>1. CASE PutIntent
  <2>1. CASE intent # NoRow /\ intent.op # cmd.req.op
    <3>1. cmd' = Idle /\ UNCHANGED <<disk, process, plane, now, grants, entered, bounds>>
      BY <1>1, <2>1 DEF PutIntent
    <3> QED
      BY SMT, <3>1
  <2>2. CASE ~(intent # NoRow /\ intent.op # cmd.req.op)
    BY SMT, <1>1, <2>2, NoRowIsNoRequest DEF PutIntent
  <2> QED
    BY <2>1, <2>2
<1>2. CASE WriteDecommissioning
  BY <1>2 DEF WriteDecommissioning
<1>3. CASE StopAll
  <2>1. PICK bad \in SUBSET (live \cup pending) :
          /\ live' = {} /\ pending' = bad /\ notify' = bad
          /\ activations' = activations \ ((live \cup pending) \ bad)
          /\ mirror' = mirror \cup (bad \cap activations)
          /\ cmd' = [cmd EXCEPT !.pc = "decide", !.stopErr = bad # {}]
    BY <1>3 DEF StopAll
  <2>2. cmd' \in [pc : PCs, req : Requests \cup {NoRow}, stopErr : BOOLEAN, drop : BOOLEAN]
        /\ cmd'.pc = "decide" /\ cmd'.req = cmd.req
    BY <2>1
  <2> QED
    BY SMT, <1>3, <2>1, <2>2 DEF StopAll
<1>4. CASE Decide
  <2>1. CASE cmd' = Idle
    BY <1>4, <2>1 DEF Decide
  <2>2. CASE cmd' # Idle
    <3>1. \/ cmd' = [cmd EXCEPT !.pc = "clear", !.drop = TRUE]
          \/ cmd' = [cmd EXCEPT !.pc = "clear"]
      BY <1>4, <2>2 DEF Decide
    <3>2. /\ cmd' \in [pc : PCs, req : Requests \cup {NoRow}, stopErr : BOOLEAN, drop : BOOLEAN]
          /\ cmd'.pc = "clear" /\ cmd'.req = cmd.req
      <4>1. cmd \in [pc : PCs, req : Requests \cup {NoRow}, stopErr : BOOLEAN, drop : BOOLEAN]
        OBVIOUS
      <4> HIDE DEF DecommissionInv
      <4> QED
        BY <3>1, <4>1
    <3>3. cmd.pc = "decide" /\ intent = cmd.req
          /\ UNCHANGED <<disk, process, plane, now, grants, entered, bounds>>
      BY <1>4, <2>2 DEF Decide, IntentMatches
    <3> QED
      BY SMT, <3>2, <3>3
  <2> QED
    BY <2>1, <2>2
<1>5. CASE ClearForwardState
  BY SMT, <1>5 DEF ClearForwardState
<1>6. CASE WriteTombstone
  BY SMT, <1>6, NoRowIsNoRequest DEF WriteTombstone
<1>7. CASE WriteDecommissioned
  BY SMT, <1>7 DEF WriteDecommissioned
<1>8. CASE QueueDropped
  BY SMT, <1>8 DEF QueueDropped, Record, Ops
<1>9. CASE QueueAck
  BY SMT, <1>9 DEF QueueAck, Record, Ops, IntentMatches
<1> QED
  BY <1>1, <1>2, <1>3, <1>4, <1>5, <1>6, <1>7, <1>8, <1>9 DEF Handler

(* The process comes up, dies or is restarted, a write of the command       *)
(* fails, and Begin takes a request.                                        *)
LEMMA ProcessStep ==
  ASSUME DecommissionInv, Boot \/ StartUp \/ Crash \/ OperatorRestart \/ StepFails
         \/ \E req \in Requests : Begin(req)
  PROVE  DecommissionInv'
<1> USE DEF DecommissionInv, TypeOK, OneOperation, EndedIsSilent, CommandInStep, QuarantineDated, disk, process, plane, bounds,
            Go, Nack, Idle, Markers, PCs
<1>1. CASE Boot
  <2>1. latch' \in BOOLEAN /\ (latch' <=> marker # "ACTIVE")
    BY <1>1 DEF Boot
  <2> QED
    BY SMT, <1>1, <2>1 DEF Boot
<1>2. CASE StartUp
  BY SMT, <1>2 DEF StartUp
<1>3. CASE Crash \/ OperatorRestart
  <2>1. Lose /\ UNCHANGED <<disk, now, grants, entered>>
    BY <1>3 DEF Crash, OperatorRestart
  <2> QED
    BY <2>1 DEF Lose
<1>4. CASE StepFails
  <2>1. /\ cmd.pc \in {"intent", "mark", "clear", "tombstone", "final", "drop", "ack"}
        /\ cmd' = Idle
        /\ \/ marker' = marker
           \/ cmd.pc = "mark" /\ marker' = "DECOMMISSIONING"
           \/ cmd.pc = "final" /\ marker' = "DECOMMISSIONED"
        /\ UNCHANGED <<intent, tombstone, applied, mirror, acks, receipted, quarantine,
                       process, plane, now, grants, entered, crashes>>
    BY <1>4 DEF StepFails, FailAt
  <2> QED
    BY SMT, <2>1
<1>5. ASSUME NEW req \in Requests, Begin(req) PROVE DecommissionInv'
  <2>1. latch' = TRUE
    BY <1>5 DEF Begin
  <2>2. phase = "up" /\ UNCHANGED <<disk, plane, phase, memMarker, loop, now, grants, entered, bounds>>
    BY <1>5 DEF Begin
  <2>3. CASE marker = "DECOMMISSIONED"
    <3>1. cmd' = [pc |-> "ack", req |-> req, stopErr |-> FALSE, drop |-> FALSE]
      BY <1>5, <2>3 DEF Begin
    <3>2. /\ cmd' \in [pc : PCs, req : Requests \cup {NoRow}, stopErr : BOOLEAN, drop : BOOLEAN]
          /\ cmd'.pc = "ack" /\ cmd'.req = req
      BY <3>1
    <3> QED
      BY SMT, <2>1, <2>2, <2>3, <3>2
  <2>4. CASE marker # "DECOMMISSIONED"
    <3>1. cmd' = [pc |-> "intent", req |-> req, stopErr |-> FALSE, drop |-> FALSE]
      BY <1>5, <2>4 DEF Begin
    <3>2. /\ cmd' \in [pc : PCs, req : Requests \cup {NoRow}, stopErr : BOOLEAN, drop : BOOLEAN]
          /\ cmd'.pc = "intent" /\ cmd'.req = req
      BY <3>1
    <3> QED
      BY SMT, <2>1, <2>2, <2>4, <3>2
  <2> QED
    BY <2>3, <2>4
<1> QED
  BY <1>1, <1>2, <1>3, <1>4, <1>5

(* What a restore changes is typed.                                         *)
TypedGrants ==
  /\ quarantine \in {NoQuarantine} \cup [op : Restores, generation : 1..MaxGeneration]
  /\ entered \in 0..MaxGeneration
  /\ grants \subseteq [op : Restores, generation : 1..MaxGeneration, entry : 1..MaxGeneration]

(* The other commands of the Controller, the restore among them.            *)
LEMMA OperationStep ==
  ASSUME DecommissionInv,
         \/ \E o \in Ops : Receipt(o)
         \/ \E f \in Forwards : ApplyForward(f)
         \/ \E r \in Restores : RestoreReconcile(r)
         \/ Authorize
         \/ \E g \in grants : RestoreResult(g)
  PROVE  DecommissionInv'
<1> USE DEF DecommissionInv, TypeOK, OneOperation, EndedIsSilent, CommandInStep, QuarantineDated, disk, process, plane, bounds,
            Markers, PCs, Accepts, NoQuarantine, TypedGrants
<1>1. ASSUME NEW o \in Ops, Receipt(o) PROVE DecommissionInv'
  BY SMT, <1>1 DEF Receipt
<1>2. ASSUME NEW f \in Forwards, ApplyForward(f) PROVE DecommissionInv'
  BY SMT, <1>2 DEF ApplyForward
<1>3. ASSUME NEW r \in Restores, RestoreReconcile(r) PROVE DecommissionInv'
  <2>1. /\ quarantine' = [op |-> r, generation |-> NextGeneration] /\ entered' = entered + 1
        /\ entered < MaxGeneration /\ (quarantine.op = r \/ \A g \in grants : g.op # r)
        /\ UNCHANGED <<marker, intent, tombstone, applied, mirror, acks, receipted, process, plane, cmd, now, grants>>
    BY <1>3 DEF RestoreReconcile
  <2>2. TypedGrants /\ QuarantineDated
    OBVIOUS
  <2>3. TypedGrants' /\ QuarantineDated'
    BY SMT, <2>1, <2>2, BoundsAssumption DEF NextGeneration
  <2> QED
    BY SMT, <2>1, <2>3
<1>4. CASE Authorize
  <2>1. /\ quarantine # NoQuarantine
        /\ grants' = grants \cup {[op |-> quarantine.op, generation |-> quarantine.generation, entry |-> entered]}
        /\ UNCHANGED <<disk, process, plane, cmd, now, entered>>
    BY <1>4 DEF Authorize
  <2>2. TypedGrants /\ QuarantineDated
    OBVIOUS
  <2>3. TypedGrants' /\ QuarantineDated'
    BY SMT, <2>1, <2>2, BoundsAssumption
  <2> QED
    BY SMT, <2>1, <2>3
<1>5. ASSUME NEW g \in grants, RestoreResult(g) PROVE DecommissionInv'
  BY SMT, <1>5 DEF RestoreResult
<1> QED
  BY <1>1, <1>2, <1>3, <1>4, <1>5

(* What runs beside the command: recovery passes, the cleanup drain, the    *)
(* end of a session and of the reconcile deadline.                          *)
LEMMA BesideStep ==
  ASSUME DecommissionInv, Beside
  PROVE  DecommissionInv'
<1> USE DEF DecommissionInv, TypeOK, OneOperation, EndedIsSilent, CommandInStep, QuarantineDated, disk, process, plane, bounds,
            Markers, PCs
<1>1. CASE CapabilityLost
  BY SMT, <1>1 DEF CapabilityLost
<1>2. CASE SessionDrops
  <2>1. loop' \in BOOLEAN
    BY <1>2 DEF SessionDrops
  <2> QED
    BY SMT, <1>2, <2>1 DEF SessionDrops
<1>6. CASE DeadlinePasses
  BY SMT, <1>6 DEF DeadlinePasses
<1>3. ASSUME NEW f \in Forwards, RecoverBegin(f) \/ RecoverApplied(f) PROVE DecommissionInv'
  BY SMT, <1>3 DEF RecoverBegin, RecoverApplied
<1>4. ASSUME NEW f \in Forwards, RecoverInstall(f) PROVE DecommissionInv'
  <2>1. CASE ~latch /\ f \notin live /\ f \notin pending
    BY SMT, <1>4, <2>1 DEF RecoverInstall
  <2>2. CASE ~(~latch /\ f \notin live /\ f \notin pending)
    BY SMT, <1>4, <2>2 DEF RecoverInstall
  <2> QED
    BY <2>1, <2>2
<1>5. ASSUME NEW f \in Forwards, Drain(f) PROVE DecommissionInv'
  BY SMT, <1>5 DEF Drain
<1> QED
  BY <1>1, <1>2, <1>3, <1>4, <1>5, <1>6 DEF Beside

(* Every step keeps the invariant.                                          *)
LEMMA NextDecommission == DecommissionInv /\ [Next]_vars => DecommissionInv'
<1> SUFFICES ASSUME DecommissionInv, [Next]_vars PROVE DecommissionInv'
  OBVIOUS
<1>1. CASE UNCHANGED vars
  BY SMT, <1>1 DEF vars, DecommissionInv, TypeOK, OneOperation, EndedIsSilent, CommandInStep, QuarantineDated
<1> QED
  BY <1>1, HandlerStep, ProcessStep, OperationStep, BesideStep DEF Next

(* Marker, tombstone, intent and results speak of one operation, and an     *)
(* Agent that ended serves nothing, over crashes and failed writes, for     *)
(* every set of Forwards, requests and restores (Begin, Complete, New).     *)
THEOREM DecommissionSafe == Spec => []DecommissionInv
BY InitDecommission, NextDecommission, PTL DEF Spec

(* A result once recorded for an operation is never replaced                *)
(* (recordResultAndQueue).                                                  *)
THEOREM AcknowledgementSettled == Spec => AckSettled
<1>1. TypeOK /\ [Next]_vars => [\A o \in Ops : acks[o] # "none" => acks'[o] = acks[o]]_vars
  <2> SUFFICES ASSUME TypeOK, Next PROVE \A o \in Ops : acks[o] # "none" => acks'[o] = acks[o]
    OBVIOUS
  <2>1. UNCHANGED acks \/ QueueDropped \/ QueueAck
    BY DEF Next, Handler, Beside, disk, Boot, StartUp, Crash, OperatorRestart, Begin, PutIntent,
       WriteDecommissioning, StopAll, Decide, ClearForwardState, WriteTombstone, WriteDecommissioned,
       StepFails, Receipt, ApplyForward, RestoreReconcile, Authorize, RestoreResult, RecoverBegin,
       RecoverInstall, RecoverApplied, CapabilityLost, Drain, SessionDrops, DeadlinePasses
  <2>2. \/ UNCHANGED acks
        \/ Record(cmd.req.op, "DROPPED")
        \/ Record(cmd.req.op, "DECOMMISSIONED")
    BY <2>1 DEF QueueDropped, QueueAck
  <2> QED
    BY <2>2 DEF Record, TypeOK
<1>2. DecommissionInv => TypeOK
  BY DEF DecommissionInv
<1> QED
  BY <1>1, <1>2, DecommissionSafe, PTL DEF Spec, AckSettled

(* Only an authorisation of the standing entry into quarantine lifts it: by *)
(* QuarantineDated, one that names the same restore and generation was      *)
(* issued for this entry (handleRestoreResult).                             *)
THEOREM QuarantineReleasedByGrant == Spec => ReleasedByOwnGrant
<1>1. DecommissionInv /\ [Next]_vars =>
        [quarantine # NoQuarantine /\ quarantine' = NoQuarantine => \E g \in grants : g.entry = entered]_vars
  <2> SUFFICES ASSUME DecommissionInv, Next, quarantine # NoQuarantine, quarantine' = NoQuarantine
               PROVE  \E g \in grants : g.entry = entered
    OBVIOUS
  <2>1. \/ UNCHANGED quarantine
        \/ \E r \in Restores : RestoreReconcile(r)
        \/ \E g \in grants : RestoreResult(g)
    BY DEF Next, Handler, Beside, disk, Boot, StartUp, Crash, OperatorRestart, Begin, PutIntent,
       WriteDecommissioning, StopAll, Decide, ClearForwardState, WriteTombstone, WriteDecommissioned,
       QueueDropped, QueueAck,
       StepFails, Receipt, ApplyForward, Authorize, RecoverBegin,
       RecoverInstall, RecoverApplied, CapabilityLost, Drain, SessionDrops, DeadlinePasses
  <2>2. ASSUME NEW r \in Restores, RestoreReconcile(r) PROVE FALSE
    BY SMT, <2>2, BoundsAssumption DEF RestoreReconcile, NoQuarantine
  <2>3. ASSUME NEW g \in grants, RestoreResult(g) PROVE g.entry = entered
    BY <2>3 DEF RestoreResult, Releases, DecommissionInv, QuarantineDated
  <2> QED
    BY <2>1, <2>2, <2>3
<1> QED
  BY <1>1, DecommissionSafe, PTL DEF Spec, ReleasedByOwnGrant

-----------------------------------------------------------------------------
(* Activation.                                                             *)

(* What a snapshot rests on: a verified one on an open outcome of its       *)
(* revision, earned by this process, and later than the last loss it saw.   *)
Backed(a) ==
    Verified(a) =>
        a.gen \in opened /\ a.gen \in earned /\ (~lost /\ ~fence => a.gen \in fresh)

Legal(a) == a = NoAct \/ (a \in Snapshots /\ Valid(a.axes))

Evidence ==
    /\ Legal(act) /\ Legal(mirrored) /\ Backed(act)
    /\ Verified(mirrored) => mirrored.gen \in opened
    /\ up => Backed(mirrored) \/ Orphaned

Plant ==
    /\ appliedGen \in 0..MaxGen /\ reopened \in 0..MaxGen /\ job \in Jobs /\ actor \in Actors
    /\ armed \subseteq 1..MaxGen /\ earned \subseteq opened
    /\ up \in BOOLEAN /\ fence \in BOOLEAN /\ lost \in BOOLEAN
    /\ CommandsAreBacked

(* The invariant from its parts, before and after a step.                   *)
LEMMA ActivationWhole == (Evidence /\ Plant => ActivationInv)'
<1>1. Evidence /\ Plant => ActivationInv
  <2> SUFFICES ASSUME Evidence, Plant PROVE ActivationInv
    OBVIOUS
  <2>1. ActTypeOK
    BY DEF Evidence, Plant, Legal, ActTypeOK
  <2>2. VerifiedIsProved
    BY DEF Evidence, Backed, VerifiedIsProved
  <2>3. ReplayedIsEarned
    BY DEF Evidence, Backed, ReplayedIsEarned
  <2>4. LossRevokes
    BY DEF Evidence, Backed, LossRevokes, Orphaned
  <2> QED
    BY <2>1, <2>2, <2>3, <2>4 DEF Plant, ActivationInv
<1> QED
  BY <1>1, PTL

(* And its parts from the invariant.                                        *)
LEMMA ActivationParts == ActivationInv => Evidence /\ Plant
<1> SUFFICES ASSUME ActivationInv PROVE Evidence /\ Plant
  OBVIOUS
<1>1. ActTypeOK /\ CommandsAreBacked /\ VerifiedIsProved /\ ReplayedIsEarned /\ LossRevokes
  BY DEF ActivationInv
<1>2. Plant
  BY <1>1 DEF ActTypeOK, Plant
<1>3. Legal(act) /\ Legal(mirrored)
  BY <1>1 DEF ActTypeOK, Legal
<1>4. Backed(act) /\ (Verified(mirrored) => mirrored.gen \in opened)
  BY <1>1 DEF VerifiedIsProved, ReplayedIsEarned, LossRevokes, Backed
<1>5. up => Backed(mirrored) \/ Orphaned
  BY <1>1 DEF VerifiedIsProved, ReplayedIsEarned, LossRevokes, Backed
<1> QED
  BY <1>2, <1>3, <1>4, <1>5 DEF Evidence

(* Revisions count from 1.                                                  *)
LEMMA Revisions ==
  /\ 0 \notin 1..MaxGen /\ 0 \in 0..MaxGen /\ 1..MaxGen \subseteq 0..MaxGen
  /\ \A n \in 0..MaxGen : n # 0 => n \in 1..MaxGen
  /\ \A n \in 0..MaxGen : n < MaxGen => n + 1 \in 1..MaxGen
BY SMT, ActAssumption

(* A snapshot is no missing one.                                            *)
LEMMA SnapshotIsSome == ASSUME NEW a \in Snapshots PROVE a # NoAct /\ a.gen \in 1..MaxGen /\ a.axes \in Axes
<1>1. a.gen \in 1..MaxGen /\ a.axes \in Axes
  BY DEF Snapshots
<1>2. NoAct.gen = 0
  BY DEF NoAct
<1> QED
  BY <1>1, <1>2, Revisions

-----------------------------------------------------------------------------
(* The axes: every transition yields a legal snapshot, and only the outcome *)
(* of a probe one that is verified where it was not.                        *)

(* A refused change leaves a legal snapshot as it was.                      *)
LEMMA ChangeLegal ==
  ASSUME NEW x \in Axes, NEW y \in Axes, Valid(x)
  PROVE  Change(x, y) \in Axes /\ Valid(Change(x, y)) /\ Change(x, y) \in {x, y}
BY DEF Change

(* The mapping axis changes nothing else.                                   *)
LEMMA UpdateMapping ==
  ASSUME NEW x \in Axes, Valid(x), NEW k \in MappingKinds
  PROVE  /\ Update(x, "mapping", k) \in Axes /\ Valid(Update(x, "mapping", k))
         /\ Update(x, "mapping", k).pub = x.pub
<1> DEFINE y == [x EXCEPT !["mapping"] = k]
<1>1. y \in Axes /\ y.pub = x.pub
  BY DEF Axes
<1> HIDE DEF y
<1>2. Change(x, y) \in Axes /\ Valid(Change(x, y)) /\ Change(x, y) \in {x, y}
  BY <1>1, ChangeLegal
<1> QED
  BY <1>1, <1>2 DEF Update, y

(* A loss of evidence leaves nothing verified.                              *)
LEMMA StaleAxes ==
  ASSUME NEW x \in Axes, Valid(x)
  PROVE  Stale(x) \in Axes /\ Valid(Stale(x)) /\ Stale(x).pub # "PUBLISHED_VERIFIED"
<1> DEFINE y == [x EXCEPT !.pub = "STALE", !.wan = "NOT_TESTED", !.path = "NOT_TESTED"]
<1>1. y \in Axes /\ y.pub = "STALE" /\ y.wan = "NOT_TESTED" /\ y.path = "NOT_TESTED"
  BY DEF Axes
<1> HIDE DEF y
<1>2. Valid(y)
  BY <1>1 DEF Valid
<1>3. Stale(x) = y
  BY <1>2 DEF Stale, Change, y
<1> QED
  BY <1>1, <1>2, <1>3

(* Nor does a restart or the loss of the session.                           *)
LEMMA UnverifiedAxes ==
  ASSUME NEW x \in Axes, Valid(x)
  PROVE  Unverified(x) \in Axes /\ Valid(Unverified(x)) /\ Unverified(x).pub # "PUBLISHED_VERIFIED"
<1> DEFINE p == IF x.pub = "PUBLISHED_VERIFIED" THEN "PUBLISHED_UNVERIFIED" ELSE x.pub
<1> DEFINE y == [x EXCEPT !.wan = "NOT_TESTED", !.path = "NOT_TESTED", !.pub = p]
<1>1. p \in {"NONE", "PUBLISHED_UNVERIFIED", "STALE", "UNPUBLISHED"}
  BY DEF Axes
<1>2. y = [x EXCEPT !.wan = "NOT_TESTED", !.path = "NOT_TESTED",
                    !.pub = IF @ = "PUBLISHED_VERIFIED" THEN "PUBLISHED_UNVERIFIED" ELSE @]
  BY DEF Axes
<1> HIDE DEF p
<1>3. y \in Axes /\ y.pub = p /\ y.wan = "NOT_TESTED" /\ y.path = "NOT_TESTED"
  BY <1>1 DEF Axes
<1> HIDE DEF y
<1>4. Valid(y) /\ y.pub # "PUBLISHED_VERIFIED"
  BY <1>1, <1>3 DEF Valid
<1>5. Unverified(x) = y
  BY <1>2, <1>4 DEF Unverified, Change
<1> QED
  BY <1>3, <1>4, <1>5

(* A probe that is admitted takes the publication back.                     *)
LEMMA ProbingAxes ==
  ASSUME NEW x \in Axes
  PROVE  Probing(x) \in Axes /\ Valid(Probing(x)) /\ Probing(x).pub # "PUBLISHED_VERIFIED"
<1>1. /\ Probing(x) \in Axes /\ Probing(x).pub = "UNPUBLISHED" /\ Probing(x).wan = "PROBING"
      /\ Probing(x).path = "NOT_TESTED"
  BY DEF Probing, Axes
<1> QED
  BY <1>1 DEF Valid

(* An outcome is recorded as a legal snapshot or refused.                   *)
LEMMA RecordAxes ==
  ASSUME NEW x \in Axes, Valid(x), NEW o \in {"OPEN_FROM_VANTAGE", "REJECTED"}
  PROVE  RecordOutcome(x, o) \in Axes /\ Valid(RecordOutcome(x, o))
<1> DEFINE y == [x EXCEPT !.wan = o, !.path = "VERIFIED", !.pub = "PUBLISHED_VERIFIED"]
<1> DEFINE z == [x EXCEPT !.wan = o, !.path = "FAILED", !.pub = "UNPUBLISHED"]
<1>1. y \in Axes /\ z \in Axes
  BY DEF Axes
<1>2. RecordOutcome(x, o) = Change(x, y) \/ RecordOutcome(x, o) = Change(x, z)
  BY DEF RecordOutcome
<1> HIDE DEF y, z
<1> QED
  BY <1>1, <1>2, ChangeLegal

-----------------------------------------------------------------------------
(* Saving.                                                                  *)

(* What is saved rests on evidence, and so does the mirror if saving fails. *)
LEMMA KeepStep ==
  ASSUME Evidence, up, up', ~Orphaned, NEW CONSTANT a \in Snapshots, Valid(a.axes), Keep(a), Backed(a)',
         opened \subseteq opened', earned \subseteq earned'
  PROVE  Evidence'
<1>1. act' = a
  BY DEF Keep
<1>2. Legal(act)' /\ Backed(act)'
  BY <1>1 DEF Legal, Backed, Verified
<1>3. Backed(mirrored) /\ (Verified(mirrored) => mirrored.gen \in opened) /\ Legal(mirrored)
  BY DEF Evidence
<1>4. CASE mirrored' = a
  <2>1. Legal(mirrored)' /\ Backed(mirrored)'
    BY <1>4 DEF Legal, Backed, Verified
  <2>2. (Verified(mirrored) => mirrored.gen \in opened)'
    BY <2>1 DEF Backed
  <2> QED
    BY <1>2, <2>1, <2>2 DEF Evidence
<1>5. CASE mirrored' = mirrored /\ lost'
  <2>1. (Verified(mirrored) => mirrored.gen \in opened)' /\ Legal(mirrored)'
    BY <1>3, <1>5 DEF Verified, Legal
  <2>2. Backed(mirrored)'
    BY <1>3, <1>5 DEF Backed, Verified
  <2> QED
    BY <1>2, <2>1, <2>2 DEF Evidence
<1> QED
  BY <1>4, <1>5 DEF Keep

(* A handler that changes the axes of the activation there is.              *)
LEMMA HandleStep ==
  ASSUME Evidence, Plant, UNCHANGED <<opened, earned, fence, up>>,
         NEW x, Handle(x),
         act # NoAct => x \in Axes /\ Valid(x),
         act # NoAct /\ x.pub = "PUBLISHED_VERIFIED" =>
            act.axes.pub = "PUBLISHED_VERIFIED" /\ UNCHANGED fresh,
         act = NoAct => UNCHANGED <<fresh, reopened>>
  PROVE  Evidence'
<1>1. CASE act = NoAct
  <2>1. UNCHANGED <<act, mirrored, lost>>
    BY <1>1 DEF Handle, axes
  <2>2. Legal(act)' /\ Legal(mirrored)' /\ Backed(act)'
    BY <1>1, <2>1 DEF Evidence, Legal, Backed, Verified
  <2>3. (Verified(mirrored) => mirrored.gen \in opened)'
    BY <2>1 DEF Evidence, Verified
  <2>4. up => (Backed(mirrored) \/ Orphaned)'
    BY <1>1, <2>1 DEF Evidence, Verified, Backed, Orphaned
  <2> QED
    BY <2>2, <2>3, <2>4 DEF Evidence
<1>2. CASE act # NoAct
  <2>1. act \in Snapshots /\ Valid(act.axes) /\ x \in Axes /\ Valid(x)
    BY <1>2 DEF Evidence, Legal
  <2>2. PICK a \in Snapshots : a = [act EXCEPT !.axes = x]
    BY <2>1 DEF Snapshots
  <2>3. a.gen = act.gen /\ a.axes = x /\ Keep(a)
    BY <1>2, <2>1, <2>2 DEF Snapshots, Handle
  <2>4. ~Orphaned
    BY <1>2 DEF Orphaned
  <2>5. lost => lost'
    BY <2>3 DEF Keep
  <2>6. Backed(a)'
    <3>1. SUFFICES ASSUME Verified(a)
                   PROVE  a.gen \in opened' /\ a.gen \in earned' /\ (~lost' /\ ~fence' => a.gen \in fresh')
      BY DEF Backed, Verified
    <3>2. x.pub = "PUBLISHED_VERIFIED"
      BY <2>3, <3>1 DEF Verified
    <3>3. Verified(act) /\ UNCHANGED fresh
      BY <1>2, <3>2 DEF Verified
    <3> QED
      BY <2>3, <2>5, <3>3 DEF Evidence, Backed
  <2> QED
    <3>1. up /\ up'
      BY <1>2 DEF Plant, CommandsAreBacked
    <3> QED
      BY <2>1, <2>3, <2>4, <2>6, <3>1, KeepStep
<1> QED
  BY <1>1, <1>2

(* A step that touches neither the snapshots nor what they rest on.         *)
LEMMA FrameStep ==
  ASSUME Evidence, UNCHANGED <<act, mirrored, lost, opened, earned, fresh>>,
         fence => fence', up' => up, Orphaned => Orphaned'
  PROVE  Evidence'
<1>1. Legal(act)' /\ Legal(mirrored)' /\ (Verified(mirrored) => mirrored.gen \in opened)'
  BY DEF Evidence, Legal, Verified
<1>2. Backed(act)'
  BY DEF Evidence, Backed, Verified
<1>3. Backed(mirrored) => Backed(mirrored)'
  BY DEF Backed, Verified
<1> QED
  BY <1>1, <1>2, <1>3 DEF Evidence

(* onForwardApplied: the activation of the revision, with the mapping of    *)
(* the live actor, under the saved snapshot of the same revision.           *)
LEMMA NotifyStep ==
  ASSUME Evidence, Plant, up, up', NEW CONSTANT rev \in 1..MaxGen, Notify(rev), ~Orphaned,
         UNCHANGED <<opened, earned, fence, fresh>>
  PROVE  Evidence'
<1> DEFINE own == IF act.gen = rev THEN act.axes ELSE NewAxes
<1> DEFINE seen == IF Live THEN Update(own, "mapping", actor.kind) ELSE own
<1> DEFINE kept == IF mirrored # NoAct /\ mirrored.gen = rev THEN mirrored.axes ELSE seen
<1>0. NewAxes \in Axes /\ Valid(NewAxes) /\ NewAxes.pub = "NONE"
  BY DEF NewAxes, Axes, Valid, MappingKinds
<1>1. act.gen = rev => act # NoAct
  <2>1. NoAct.gen = 0
    BY DEF NoAct
  <2> QED
    BY <2>1, Revisions
<1>2. own \in Axes /\ Valid(own) /\ (own.pub = "PUBLISHED_VERIFIED" => Verified(act) /\ act.gen = rev)
  BY <1>0, <1>1 DEF Evidence, Legal, Snapshots, Verified
<1> HIDE DEF own
<1>3. Live => actor.kind \in MappingKinds
  BY DEF Plant, CommandsAreBacked
<1>4. seen \in Axes /\ Valid(seen) /\ seen.pub = own.pub
  BY <1>2, <1>3, UpdateMapping
<1> HIDE DEF seen
<1>5. /\ kept \in Axes /\ Valid(kept)
      /\ kept.pub = "PUBLISHED_VERIFIED" =>
            (Verified(act) /\ act.gen = rev) \/ (Verified(mirrored) /\ mirrored.gen = rev)
  BY <1>2, <1>4 DEF Evidence, Legal, Snapshots, Verified
<1>6. Keep([gen |-> rev, axes |-> kept])
  BY DEF Notify, kept, seen, own
<1> HIDE DEF kept
<1>7. PICK a \in Snapshots : a = [gen |-> rev, axes |-> kept]
  BY <1>5 DEF Snapshots
<1>8. a.gen = rev /\ a.axes = kept /\ Keep(a)
  BY <1>6, <1>7
<1>9. lost => lost'
  BY <1>8 DEF Keep
<1>10. Backed(act) /\ Backed(mirrored)
  BY DEF Evidence
<1>11. Backed(a)'
  <2>1. SUFFICES ASSUME Verified(a)
                 PROVE  a.gen \in opened' /\ a.gen \in earned' /\ (~lost' /\ ~fence' => a.gen \in fresh')
    BY DEF Backed, Verified
  <2>2. (Verified(act) /\ act.gen = rev) \/ (Verified(mirrored) /\ mirrored.gen = rev)
    BY <1>5, <1>8, <2>1 DEF Verified
  <2> QED
    BY <1>8, <1>9, <1>10, <2>2 DEF Backed
<1> QED
  BY <1>5, <1>8, <1>11, KeepStep

-----------------------------------------------------------------------------
(* The commands and the data plane.                                         *)

(* A step that leaves commands and actor alone.                             *)
LEMMA PlantFrame ==
  ASSUME Plant, UNCHANGED <<appliedGen, fence, actor, job, reopened, up>>,
         armed' \subseteq 1..MaxGen, earned' \subseteq opened', lost' \in BOOLEAN,
         ~up => act' = NoAct
  PROVE  Plant'
<1>1. CommandsAreBacked'
  BY DEF Plant, CommandsAreBacked, Live
<1> QED
  BY <1>1 DEF Plant

(* A step of a process that is up, on commands, actor and revisions.        *)
LEMMA PlantStep ==
  ASSUME Plant, up, UNCHANGED <<up, armed, earned, opened, lost>>,
         appliedGen' \in 0..MaxGen, reopened' \in 0..MaxGen, job' \in Jobs, actor' \in Actors,
         fence' \in BOOLEAN,
         job'.pc \in {"notify", "commit"} => job'.rev # 0,
         job'.pc \in {"notify", "commit", "undo"} => ~fence' /\ (job'.hot => appliedGen' # 0),
         job'.pc = "undo" => job'.hot,
         actor'.state = "live" =>
            actor'.kind \in MappingKinds /\ (job'.pc = "idle" => fence' \/ appliedGen' # 0)
  PROVE  Plant'
<1>1. CommandsAreBacked'
  BY DEF Plant, CommandsAreBacked, Live
<1> QED
  BY <1>1 DEF Plant

(* Handlers that end in a save leave the flag of a failed one Boolean.      *)
LEMMA HandleLost == ASSUME lost \in BOOLEAN, NEW x, Handle(x) PROVE lost' \in BOOLEAN
BY DEF Handle, Keep, axes

(* No command is being handled, and no actor is there.                      *)
LEMMA Constants ==
  /\ IdleJob \in Jobs /\ IdleJob.pc = "idle" /\ IdleJob.rev = 0 /\ IdleJob.hot = FALSE
  /\ NoActor \in Actors /\ NoActor.state = "none"
<1>1. IdleJob \in Jobs /\ IdleJob.pc = "idle" /\ IdleJob.rev = 0 /\ IdleJob.hot = FALSE
  BY Revisions DEF IdleJob, Jobs
<1>2. NoActor \in Actors /\ NoActor.state = "none"
  BY DEF NoActor, Actors
<1> QED
  BY <1>1, <1>2

(* What the invariant says of the commands, fact by fact.                   *)
LEMMA PlantFacts ==
  ASSUME Plant
  PROVE  /\ appliedGen \in 0..MaxGen /\ reopened \in 0..MaxGen /\ job \in Jobs /\ actor \in Actors
         /\ fence \in BOOLEAN /\ lost \in BOOLEAN
         /\ job.pc \in {"notify", "commit"} => job.rev # 0 /\ job.rev \in 1..MaxGen
         /\ job.pc \in {"notify", "commit", "undo"} => ~fence /\ (job.hot => appliedGen # 0)
         /\ job.pc = "undo" => job.hot
         /\ actor.state = "live" => actor.kind \in MappingKinds
         /\ actor.state = "live" /\ job.pc = "idle" => fence \/ appliedGen # 0
         /\ job.pc # "idle" \/ reopened # 0 \/ actor.state = "live" \/ actor # NoActor => up
<1>1. appliedGen \in 0..MaxGen /\ reopened \in 0..MaxGen /\ job \in Jobs /\ actor \in Actors
  BY DEF Plant
<1>2. fence \in BOOLEAN /\ lost \in BOOLEAN
  BY DEF Plant
<1>3. job.rev \in 0..MaxGen
  BY <1>1 DEF Jobs
<1>4. job.pc \in {"notify", "commit"} => job.rev # 0 /\ job.rev \in 1..MaxGen
  BY <1>3, Revisions DEF Plant, CommandsAreBacked
<1>5. /\ job.pc \in {"notify", "commit", "undo"} => ~fence /\ (job.hot => appliedGen # 0)
      /\ job.pc = "undo" => job.hot
  BY DEF Plant, CommandsAreBacked
<1>6. /\ actor.state = "live" => actor.kind \in MappingKinds
      /\ actor.state = "live" /\ job.pc = "idle" => fence \/ appliedGen # 0
  BY DEF Plant, CommandsAreBacked, Live
<1>7. job.pc # "idle" \/ reopened # 0 \/ actor.state = "live" \/ actor # NoActor => up
  BY Constants DEF Plant, CommandsAreBacked
<1> QED
  BY <1>1, <1>2, <1>4, <1>5, <1>6, <1>7

(* A new actor.                                                             *)
LEMMA InstalledActor ==
  ASSUME NEW k \in Kinds, Installed(k)
  PROVE  actor' \in Actors /\ actor'.kind \in MappingKinds
<1>1. k \in MappingKinds
  BY DEF Kinds, MappingKinds
<1> QED
  BY <1>1 DEF Installed, Actors

(* A demoted actor, and the command that may have been updating it.         *)
LEMMA DemoteStep ==
  ASSUME Plant, Demote, UNCHANGED <<appliedGen, fence, reopened, up, act, armed, opened, earned, lost>>
  PROVE  Plant'
<1>1. actor' \in Actors /\ actor'.state # "live" /\ (~Live => actor' = actor)
  <2>1. CASE Live
    <3>1. actor' = [actor EXCEPT !.state = "pending"]
      BY <2>1 DEF Demote
    <3> QED
      BY <2>1, <3>1, PlantFacts DEF Actors
  <2>2. CASE ~Live
    BY <2>2, PlantFacts DEF Demote, Live
  <2> QED
    BY <2>1, <2>2
<1>2. job' \in Jobs /\ job'.pc = job.pc /\ job'.rev = job.rev /\ job'.hot = job.hot
  BY PlantFacts DEF Demote, Jobs
<1>3. ~up => job' = IdleJob /\ actor' = NoActor
  <2> SUFFICES ASSUME ~up PROVE job' = IdleJob /\ actor' = NoActor
    OBVIOUS
  <2>1. job = IdleJob /\ actor = NoActor
    BY DEF Plant, CommandsAreBacked
  <2>2. ~Live
    BY <2>1, Constants DEF Live
  <2>3. job' = [IdleJob EXCEPT !.mine = FALSE]
    BY <2>1 DEF Demote
  <2> QED
    BY <1>1, <2>1, <2>2, <2>3 DEF IdleJob
<1>4. CommandsAreBacked'
  BY <1>1, <1>2, <1>3 DEF Plant, CommandsAreBacked, Live
<1> QED
  BY <1>1, <1>2, <1>4 DEF Plant

-----------------------------------------------------------------------------
(* One lemma per handler, or per group of handlers that act alike.          *)

(* apply begins, with an actor in place or a new one.                       *)
LEMMA ApplyInstallStep == ASSUME ActivationInv, ApplyInstall PROVE ActivationInv'
<1>1. Evidence /\ Plant
  BY ActivationParts
<1>2. /\ UNCHANGED <<act, mirrored, lost, saveFails, appliedGen, fence, reopened, up, armed, opened, earned, fresh>>
      /\ up /\ job = IdleJob /\ ~fence /\ appliedGen < MaxGen
  BY DEF ApplyInstall, axes, durable, processVars, proofs
<1>3. Evidence'
  BY <1>1, <1>2, FrameStep DEF Orphaned
<1>4. appliedGen + 1 \in 1..MaxGen /\ appliedGen + 1 # 0 /\ appliedGen + 1 \in 0..MaxGen
  BY <1>1, <1>2, PlantFacts, Revisions
<1>5. job' \in Jobs /\ job'.pc = "notify" /\ job'.rev = appliedGen + 1 /\ (job'.hot => Live)
  <2>1. job' = [pc |-> "notify", rev |-> appliedGen + 1, hot |-> Live, mine |-> Live] /\ Live \in BOOLEAN
    BY DEF ApplyInstall, Live
  <2> QED
    BY <1>4, <2>1 DEF Jobs
<1>6. actor' \in Actors /\ (actor'.state = "live" => actor'.kind \in MappingKinds)
  BY <1>1, PlantFacts, InstalledActor DEF ApplyInstall
<1>7. Live => appliedGen # 0
  BY <1>1, <1>2, PlantFacts, Constants DEF Live
<1>8. Plant'
  BY <1>1, <1>2, <1>4, <1>5, <1>6, <1>7, PlantFacts, PlantStep
<1> QED
  BY <1>3, <1>8, ActivationWhole

(* onForwardApplied for a new revision, a revision rolled back to, and a    *)
(* revision that was reopened.                                              *)
LEMMA NotifiesStep ==
  ASSUME ActivationInv, ApplyNotify \/ ApplyUndo \/ ReopenNotify PROVE ActivationInv'
<1>1. Evidence /\ Plant
  BY ActivationParts
<1>2. UNCHANGED <<appliedGen, fence, actor, up, armed, opened, earned, fresh>>
  BY DEF ApplyNotify, ApplyUndo, ReopenNotify, durable, planeVars, processVars, proofs
<1>3. CASE ApplyNotify
  <2>1. job.pc = "notify" /\ Notify(job.rev) /\ job' = [job EXCEPT !.pc = "commit"] /\ UNCHANGED reopened
    BY <1>3 DEF ApplyNotify, processVars
  <2>2. job.rev \in 1..MaxGen /\ ~fence /\ up
    BY <1>1, <2>1, PlantFacts
  <2>3. PICK rev \in 1..MaxGen : rev = job.rev
    BY <2>2
  <2>4. Notify(rev)
    BY <2>1, <2>3
  <2>5. Evidence'
    BY <1>1, <1>2, <2>2, <2>4, NotifyStep DEF Orphaned
  <2>6. lost' \in BOOLEAN
    BY <1>1, <2>4, PlantFacts DEF Notify, Keep
  <2>7. job' \in Jobs /\ job'.pc = "commit" /\ job'.rev = job.rev /\ job'.hot = job.hot
    BY <1>1, <2>1, PlantFacts DEF Jobs
  <2>8. CommandsAreBacked'
    BY <1>1, <1>2, <2>1, <2>2, <2>7 DEF Plant, CommandsAreBacked, Live
  <2>9. Plant'
    BY <1>1, <1>2, <2>1, <2>6, <2>7, <2>8 DEF Plant
  <2> QED
    BY <2>5, <2>9, ActivationWhole
<1>4. CASE ApplyUndo
  <2>1. job.pc = "undo" /\ job' = IdleJob /\ UNCHANGED reopened
    BY <1>4 DEF ApplyUndo, processVars
  <2>2. appliedGen \in 1..MaxGen /\ appliedGen # 0 /\ ~fence /\ up
    BY <1>1, <2>1, PlantFacts, Revisions
  <2>3. PICK rev \in 1..MaxGen : rev = appliedGen
    BY <2>2
  <2>4. Notify(rev) \/ UNCHANGED <<act, mirrored, lost, saveFails>>
    BY <1>4, <2>3 DEF ApplyUndo, axes
  <2>5. Evidence'
    <3>1. CASE Notify(rev)
      BY <1>1, <1>2, <2>2, <3>1, NotifyStep DEF Orphaned
    <3>2. CASE UNCHANGED <<act, mirrored, lost, saveFails>>
      BY <1>1, <1>2, <2>1, <2>2, <3>2, FrameStep DEF Orphaned
    <3> QED
      BY <2>4, <3>1, <3>2
  <2>6. lost' \in BOOLEAN
    BY <1>1, <2>4, PlantFacts DEF Notify, Keep
  <2>7. CommandsAreBacked'
    BY <1>1, <1>2, <2>1, <2>2, PlantFacts, Constants DEF CommandsAreBacked, Live
  <2>8. Plant'
    BY <1>1, <1>2, <2>1, <2>6, <2>7, Constants DEF Plant
  <2> QED
    BY <2>5, <2>8, ActivationWhole
<1>5. CASE ReopenNotify
  <2>1. reopened # 0 /\ Notify(reopened) /\ reopened' = 0 /\ UNCHANGED job
    BY <1>5 DEF ReopenNotify
  <2>2. reopened \in 1..MaxGen /\ up
    BY <1>1, <2>1, PlantFacts, Revisions
  <2>3. PICK rev \in 1..MaxGen : rev = reopened
    BY <2>2
  <2>4. Notify(rev)
    BY <2>1, <2>3
  <2>5. Evidence'
    BY <1>1, <1>2, <2>1, <2>2, <2>4, NotifyStep DEF Orphaned
  <2>6. lost' \in BOOLEAN
    BY <1>1, <2>4, PlantFacts DEF Notify, Keep
  <2>7. CommandsAreBacked'
    BY <1>1, <1>2, <2>1, <2>2 DEF Plant, CommandsAreBacked, Live
  <2>8. Plant'
    BY <1>1, <1>2, <2>1, <2>6, <2>7, Revisions DEF Plant
  <2> QED
    BY <2>5, <2>8, ActivationWhole
<1> QED
  BY <1>3, <1>4, <1>5

(* The steps of a command that leave the snapshots alone: a commit or its   *)
(* failure, a deletion's intent and its resumption.                         *)
LEMMA CommandStep ==
  ASSUME ActivationInv, ApplyCommit \/ ApplyCommitFails \/ DeleteIntent \/ DeleteResume
  PROVE  ActivationInv'
<1>1. Evidence /\ Plant
  BY ActivationParts
<1>2. UNCHANGED <<act, mirrored, lost, actor, reopened, up, armed, opened, earned, fresh>>
  BY DEF ApplyCommit, ApplyCommitFails, DeleteIntent, DeleteResume, axes, planeVars, processVars, proofs
<1>3. fence => fence'
  BY DEF ApplyCommit, ApplyCommitFails, DeleteIntent, DeleteResume, durable
<1>4. Evidence'
  BY <1>1, <1>2, <1>3, FrameStep DEF Orphaned
<1>5. Plant'
  <2>1. CASE ApplyCommit
    <3>1. job.pc = "commit" /\ appliedGen' = job.rev /\ job' = IdleJob /\ UNCHANGED fence
      BY <2>1 DEF ApplyCommit
    <3>2. appliedGen' \in 0..MaxGen /\ appliedGen' # 0 /\ up
      BY <1>1, <3>1, PlantFacts, Revisions
    <3> QED
      BY <1>1, <1>2, <3>1, <3>2, PlantFacts, PlantStep, Constants
  <2>2. CASE ApplyCommitFails
    <3>1. /\ job.pc = "commit" /\ job' = [job EXCEPT !.pc = IF job.hot THEN "undo" ELSE "stop"]
          /\ UNCHANGED <<appliedGen, fence>>
      BY <2>2 DEF ApplyCommitFails, durable
    <3>2. /\ job' \in Jobs /\ job'.pc \in {"undo", "stop"} /\ job'.hot = job.hot
          /\ job'.pc = "undo" => job.hot
      BY <1>1, <3>1, PlantFacts DEF Jobs
    <3>3. up /\ ~fence /\ (job.hot => appliedGen # 0)
      BY <1>1, <3>1, PlantFacts
    <3> QED
      BY <1>1, <1>2, <3>1, <3>2, <3>3, PlantFacts, PlantStep
  <2>3. CASE DeleteIntent
    <3>1. up /\ fence' = TRUE /\ UNCHANGED appliedGen /\ job' = [IdleJob EXCEPT !.pc = "bury"]
      BY <2>3 DEF DeleteIntent
    <3>2. job' \in Jobs /\ job'.pc = "bury"
      BY <3>1, Constants DEF Jobs
    <3> QED
      BY <1>1, <1>2, <3>1, <3>2, PlantFacts, PlantStep
  <2>4. CASE DeleteResume
    <3>1. up /\ fence /\ UNCHANGED <<appliedGen, fence>> /\ job' = [IdleJob EXCEPT !.pc = IF appliedGen # 0 THEN "bury" ELSE "stop"]
      BY <2>4 DEF DeleteResume, durable
    <3>2. job' \in Jobs /\ job'.pc \in {"bury", "stop"}
      BY <3>1, Constants DEF Jobs
    <3> QED
      BY <1>1, <1>2, <3>1, <3>2, PlantFacts, PlantStep
  <2> QED
    BY <2>1, <2>2, <2>3, <2>4
<1> QED
  BY <1>4, <1>5, ActivationWhole

(* A deletion's transaction, the actor's end, and its cleanup: the mirror   *)
(* or the activation goes, and nothing takes its place.                     *)
LEMMA RemovalStep ==
  ASSUME ActivationInv, DeleteCommit \/ Stop \/ Cleaned PROVE ActivationInv'
<1>1. Evidence /\ Plant
  BY ActivationParts
<1>2. UNCHANGED <<lost, fence, reopened, up, armed, opened, earned, fresh>>
  BY DEF DeleteCommit, Stop, Cleaned, durable, processVars, proofs
<1>3. (act' = act \/ act' = NoAct) /\ (mirrored' = mirrored \/ mirrored' = NoAct)
  BY DEF DeleteCommit, Stop, Cleaned
<1>4. up
  BY <1>1, PlantFacts, Constants DEF DeleteCommit, Stop, Cleaned
<1>5. Evidence'
  <2>1. Legal(act)' /\ Legal(mirrored)'
    BY <1>1, <1>3 DEF Evidence, Legal
  <2>2. Backed(act)' /\ (Verified(mirrored) => mirrored.gen \in opened)'
    BY <1>1, <1>2, <1>3 DEF Evidence, Backed, Verified
  <2>3. (Backed(mirrored) \/ Orphaned)'
    BY <1>1, <1>2, <1>3, <1>4 DEF Evidence, Backed, Verified, Orphaned
  <2> QED
    BY <2>1, <2>2, <2>3 DEF Evidence
<1>6. Plant'
  <2>1. CASE DeleteCommit
    <3>1. appliedGen' = 0 /\ UNCHANGED actor /\ job' = [IdleJob EXCEPT !.pc = "stop"]
      BY <2>1 DEF DeleteCommit, planeVars
    <3>2. job' \in Jobs /\ job'.pc = "stop"
      BY <3>1, Constants DEF Jobs
    <3> QED
      BY <1>1, <1>2, <1>4, <3>1, <3>2, PlantFacts, PlantStep, Revisions
  <2>2. CASE Stop
    <3>1. UNCHANGED appliedGen /\ job' = IdleJob
      BY <2>2 DEF Stop, durable
    <3>2. actor' \in Actors /\ actor'.state # "live"
      <4>1. CASE actor = NoActor
        BY <2>2, <4>1, Constants DEF Stop
      <4>2. CASE actor # NoActor
        <5>1. actor' = [actor EXCEPT !.state = "pending", !.deleting = TRUE]
          BY <2>2, <4>2 DEF Stop
        <5> QED
          BY <1>1, <5>1, PlantFacts DEF Actors
      <4> QED
        BY <4>1, <4>2
    <3> QED
      BY <1>1, <1>2, <1>4, <3>1, <3>2, PlantFacts, PlantStep, Constants
  <2>3. CASE Cleaned
    <3>1. UNCHANGED <<appliedGen, job>> /\ actor' = NoActor
      BY <2>3 DEF Cleaned, durable
    <3> QED
      BY <1>1, <1>2, <1>4, <3>1, PlantFacts, PlantStep, Constants
  <2> QED
    BY <2>1, <2>2, <2>3
<1> QED
  BY <1>5, <1>6, ActivationWhole

(* A listener is reopened for the applied revision.                         *)
LEMMA ReopenStep == ASSUME ActivationInv, Reopen PROVE ActivationInv'
<1>1. Evidence /\ Plant
  BY ActivationParts
<1>2. /\ UNCHANGED <<act, mirrored, lost, appliedGen, fence, job, up, armed, opened, earned, fresh>>
      /\ up /\ appliedGen # 0 /\ ~fence /\ reopened' = appliedGen
  BY DEF Reopen, axes, durable, proofs
<1>3. Evidence'
  BY <1>1, <1>2, FrameStep DEF Orphaned
<1>4. actor' \in Actors /\ actor'.kind \in MappingKinds
  BY InstalledActor DEF Reopen
<1>5. Plant'
  BY <1>1, <1>2, <1>4, PlantFacts, PlantStep
<1> QED
  BY <1>3, <1>5, ActivationWhole

(* A listener error, a lost capability and a failed restoration demote the  *)
(* actor; a restored capability, and the two ends of a session that say     *)
(* nothing of an activation, change less still.                             *)
LEMMA PlaneStep ==
  ASSUME ActivationInv,
         RunError \/ RouteLost \/ RestoreEnds \/ CapabilityRestored \/ ControlDrops \/ Connect
  PROVE  ActivationInv'
<1>1. Evidence /\ Plant
  BY ActivationParts
<1>2. UNCHANGED <<act, mirrored, lost, appliedGen, fence, reopened, up, armed, opened, earned, fresh>>
  BY DEF RunError, RouteLost, RestoreEnds, CapabilityRestored, ControlDrops, Connect, Session,
         axes, durable, processVars, proofs, planeVars
<1>3. Evidence'
  BY <1>1, <1>2, FrameStep DEF Orphaned
<1>4. Demote \/ UNCHANGED <<actor, job>>
  BY DEF RunError, RouteLost, RestoreEnds, CapabilityRestored, ControlDrops, Connect, planeVars
<1>5. CASE Demote
  BY <1>1, <1>2, <1>3, <1>5, DemoteStep, ActivationWhole
<1>6. CASE UNCHANGED <<actor, job>>
  <2>1. armed' \subseteq 1..MaxGen /\ earned' \subseteq opened' /\ lost' \in BOOLEAN /\ (~up => act' = NoAct)
    BY <1>1, <1>2 DEF Plant, CommandsAreBacked
  <2> QED
    BY <1>1, <1>2, <1>3, <1>6, <2>1, PlantFrame, ActivationWhole
<1> QED
  BY <1>4, <1>5, <1>6

(* The actor's mapping may change its health; nothing else of it does.      *)
LEMMA LeaseStep ==
  ASSUME Plant, up, UNCHANGED <<appliedGen, fence, job, reopened, up, armed, earned, opened>>, lost' \in BOOLEAN,
         NEW l \in {"healthy", "degraded", "lost"}, actor' = [actor EXCEPT !.lease = l]
  PROVE  Plant'
<1>1. actor' \in Actors /\ actor'.state = actor.state /\ actor'.kind = actor.kind
  BY PlantFacts DEF Actors
<1>2. CommandsAreBacked'
  BY <1>1 DEF Plant, CommandsAreBacked, Live
<1> QED
  BY <1>1, <1>2 DEF Plant

(* Handlers that save the activation as they find it.                       *)
LEMMA SameAxesStep ==
  ASSUME ActivationInv, RunErrorCallback \/ CleanupError \/ Offline \/ Online PROVE ActivationInv'
<1>1. Evidence /\ Plant
  BY ActivationParts
<1>2. UNCHANGED <<appliedGen, fence, actor, job, reopened, up, armed, opened, earned, fresh>>
  BY DEF RunErrorCallback, CleanupError, Offline, Online, Session, durable, processVars, proofs, planeVars
<1>3. Handle(act.axes) \/ UNCHANGED axes
  BY DEF RunErrorCallback, CleanupError, Offline, Online
<1>4. act # NoAct => act.axes \in Axes /\ Valid(act.axes) /\ up
  BY <1>1 DEF Evidence, Legal, Snapshots, Plant, CommandsAreBacked
<1>5. Evidence' /\ lost' \in BOOLEAN
  <2>1. CASE Handle(act.axes)
    BY <1>1, <1>2, <1>4, <2>1, HandleStep, HandleLost, PlantFacts
  <2>2. CASE UNCHANGED axes
    <3>1. UNCHANGED <<act, mirrored, lost>>
      BY <2>2 DEF axes
    <3> QED
      BY <1>1, <1>2, <3>1, FrameStep, PlantFacts DEF Orphaned
  <2> QED
    BY <1>3, <2>1, <2>2
<1>6. ~up => act' = NoAct
  <2>1. SUFFICES ASSUME ~up PROVE act' = NoAct
    OBVIOUS
  <2>2. act = NoAct
    BY <1>4, <2>1
  <2> QED
    BY <1>3, <2>2 DEF Handle, axes
<1>7. armed' \subseteq 1..MaxGen /\ earned' \subseteq opened'
  BY <1>1, <1>2 DEF Plant
<1> QED
  BY <1>1, <1>2, <1>5, <1>6, <1>7, PlantFrame, ActivationWhole

(* markEvidenceLost and markActivationsUnverified take the publication      *)
(* back.                                                                    *)
LEMMA RevokingStep ==
  ASSUME ActivationInv, EvidenceLost \/ MarkUnverified PROVE ActivationInv'
<1>1. Evidence /\ Plant
  BY ActivationParts
<1>2. UNCHANGED <<appliedGen, fence, actor, job, reopened, up, armed, opened, earned>> /\ Revoked
  BY DEF EvidenceLost, MarkUnverified, Session, durable, processVars, proofs, planeVars
<1>3. act # NoAct => act.axes \in Axes /\ Valid(act.axes) /\ up
  BY <1>1 DEF Evidence, Legal, Snapshots, Plant, CommandsAreBacked
<1>4. PICK x : Handle(x) /\ (act # NoAct => x \in Axes /\ Valid(x) /\ x.pub # "PUBLISHED_VERIFIED")
  <2>1. CASE EvidenceLost
    <3>1. Handle(Stale(act.axes))
      BY <2>1 DEF EvidenceLost
    <3> QED
      BY <1>3, <3>1, StaleAxes
  <2>2. CASE MarkUnverified
    <3>1. Handle(Unverified(act.axes))
      BY <2>2 DEF MarkUnverified
    <3> QED
      BY <1>3, <3>1, UnverifiedAxes
  <2> QED
    BY <2>1, <2>2
<1>5. act = NoAct => UNCHANGED <<fresh, reopened>>
  BY <1>2 DEF Revoked
<1>6. Evidence' /\ lost' \in BOOLEAN
  BY <1>1, <1>2, <1>4, <1>5, HandleStep, HandleLost, PlantFacts
<1>7. ~up => act' = NoAct
  BY <1>3, <1>4 DEF Handle, axes
<1>8. armed' \subseteq 1..MaxGen /\ earned' \subseteq opened'
  BY <1>1, <1>2 DEF Plant
<1> QED
  BY <1>1, <1>2, <1>6, <1>7, <1>8, PlantFrame, ActivationWhole

(* onMappingLifecycle: a lost mapping makes the activation stale, the other *)
(* events leave its publication as it is.                                   *)
LEMMA MappingStep ==
  ASSUME ActivationInv, MappingDegraded \/ MappingLost \/ MappingRecovered PROVE ActivationInv'
<1>1. Evidence /\ Plant
  BY ActivationParts
<1>2. UNCHANGED <<appliedGen, fence, job, reopened, up, armed, opened, earned>> /\ up /\ Live
  BY DEF MappingDegraded, MappingLost, MappingRecovered, MappingEvent, Mapped, durable, processVars
<1>3. act # NoAct => act.axes \in Axes /\ Valid(act.axes)
  BY <1>1 DEF Evidence, Legal, Snapshots
<1>4. PICK l \in {"healthy", "degraded", "lost"} : actor' = [actor EXCEPT !.lease = l]
  BY DEF MappingDegraded, MappingLost, MappingRecovered, MappingEvent
<1>5. Evidence' /\ lost' \in BOOLEAN
  <2>1. CASE UNCHANGED axes /\ UNCHANGED fresh
    <3>1. UNCHANGED <<act, mirrored, lost>>
      BY <2>1 DEF axes
    <3> QED
      BY <1>1, <1>2, <2>1, <3>1, FrameStep, PlantFacts DEF Orphaned
  <2>2. CASE MappingDegraded /\ ~fence
    <3>1. Handle(act.axes) /\ UNCHANGED fresh
      BY <2>2 DEF MappingDegraded, MappingEvent
    <3> QED
      BY <1>1, <1>2, <1>3, <3>1, HandleStep, HandleLost, PlantFacts
  <2>3. CASE MappingLost /\ ~fence
    <3>1. Handle(Stale(Update(act.axes, "mapping", "LOST"))) /\ Revoked
      BY <2>3 DEF MappingLost, MappingEvent
    <3>2. PICK x : x = Stale(Update(act.axes, "mapping", "LOST"))
      OBVIOUS
    <3>3. "LOST" \in MappingKinds
      BY DEF MappingKinds
    <3>4. act # NoAct => x \in Axes /\ Valid(x) /\ x.pub # "PUBLISHED_VERIFIED"
      BY <1>3, <3>2, <3>3, UpdateMapping, StaleAxes
    <3>5. Handle(x)
      BY <3>1, <3>2
    <3>6. act = NoAct => UNCHANGED <<fresh, reopened>>
      BY <1>2, <3>1 DEF Revoked
    <3> QED
      BY <1>1, <1>2, <3>4, <3>5, <3>6, HandleStep, HandleLost, PlantFacts
  <2>4. CASE MappingRecovered /\ ~fence
    <3>1. CASE act # NoAct /\ ~Valid([act.axes EXCEPT !.mapping = actor.kind])
      <4>1. UNCHANGED axes /\ UNCHANGED fresh
        BY <2>4, <3>1 DEF MappingRecovered
      <4> QED
        BY <2>1, <4>1
    <3>2. CASE act = NoAct \/ Valid([act.axes EXCEPT !.mapping = actor.kind])
      <4>1. Handle([act.axes EXCEPT !.mapping = actor.kind]) /\ UNCHANGED fresh
        BY <2>4, <3>2 DEF MappingRecovered, MappingEvent
      <4>2. PICK x : x = [act.axes EXCEPT !.mapping = actor.kind]
        OBVIOUS
      <4>3. actor.kind \in MappingKinds
        BY <1>1, <1>2, PlantFacts DEF Live
      <4>4. act # NoAct => x \in Axes /\ Valid(x) /\ x.pub = act.axes.pub
        BY <1>3, <3>2, <4>2, <4>3 DEF Axes
      <4>5. Handle(x)
        BY <4>1, <4>2
      <4> QED
        BY <1>1, <1>2, <4>1, <4>4, <4>5, HandleStep, HandleLost, PlantFacts
    <3> QED
      BY <3>1, <3>2
  <2>5. CASE fence
    <3>1. UNCHANGED axes /\ UNCHANGED fresh
      BY <2>5 DEF MappingDegraded, MappingLost, MappingRecovered, MappingEvent
    <3> QED
      BY <2>1, <3>1
  <2> QED
    BY <2>2, <2>3, <2>4, <2>5
<1> QED
  BY <1>1, <1>2, <1>4, <1>5, LeaseStep, ActivationWhole

(* A probe is admitted: the activation is in memory and in the mirror, and  *)
(* neither claims a verification.                                           *)
LEMMA ArmProbeStep == ASSUME ActivationInv, ArmProbe PROVE ActivationInv'
<1>1. Evidence /\ Plant
  BY ActivationParts
<1>2. /\ UNCHANGED <<lost, appliedGen, fence, actor, job, reopened, up, opened, earned, fresh>>
      /\ up /\ act # NoAct /\ act' = [act EXCEPT !.axes = Probing(@)] /\ mirrored' = act'
      /\ armed' = armed \cup {act.gen}
  BY DEF ArmProbe, durable, processVars, planeVars
<1>3. act \in Snapshots /\ act.gen \in 1..MaxGen /\ act.axes \in Axes
  BY <1>1, <1>2, SnapshotIsSome DEF Evidence, Legal
<1>4. Probing(act.axes) \in Axes /\ Valid(Probing(act.axes)) /\ Probing(act.axes).pub # "PUBLISHED_VERIFIED"
  BY <1>3, ProbingAxes
<1>5. act' \in Snapshots /\ act'.axes = Probing(act.axes)
  BY <1>2, <1>3, <1>4 DEF Snapshots
<1>6. Legal(act)' /\ Legal(mirrored)' /\ ~Verified(act)' /\ ~Verified(mirrored)'
  BY <1>2, <1>4, <1>5 DEF Legal, Verified
<1>7. Evidence'
  BY <1>6 DEF Evidence, Backed
<1>8. armed' \subseteq 1..MaxGen /\ earned' \subseteq opened' /\ lost' \in BOOLEAN
  BY <1>1, <1>2, <1>3 DEF Plant
<1> QED
  BY <1>1, <1>2, <1>7, <1>8, PlantFrame, ActivationWhole

(* The outcome of a probe is recorded for the revision it probed.           *)
LEMMA OutcomeStep ==
  ASSUME ActivationInv, NEW g \in armed, NEW o \in {"OPEN_FROM_VANTAGE", "REJECTED"}, Outcome(g, o)
  PROVE  ActivationInv'
<1>1. Evidence /\ Plant
  BY ActivationParts
<1>2. UNCHANGED <<appliedGen, fence, actor, job, reopened, up>> /\ up /\ armed' = armed \ {g}
  BY DEF Outcome, durable, processVars, planeVars
<1>3. g \in 1..MaxGen /\ armed' \subseteq 1..MaxGen /\ earned \subseteq opened /\ lost \in BOOLEAN
  BY <1>1, <1>2 DEF Plant
<1>4. CASE UNCHANGED <<axes, opened, earned, fresh>>
  <2>1. UNCHANGED <<act, mirrored, lost, opened, earned, fresh>>
    BY <1>4 DEF axes
  <2>2. Evidence'
    BY <1>1, <1>2, <2>1, FrameStep DEF Orphaned
  <2>3. earned' \subseteq opened' /\ lost' \in BOOLEAN
    BY <1>3, <2>1
  <2> QED
    BY <1>1, <1>2, <1>3, <2>2, <2>3, PlantFrame, ActivationWhole
<1>5. CASE /\ act.gen = g /\ ~fence
           /\ Keep([act EXCEPT !.axes = RecordOutcome(@, o)]) /\ Proved(g, act')
  <2>1. act # NoAct
    <3>1. NoAct.gen = 0
      BY DEF NoAct
    <3> QED
      BY <1>3, <1>5, <3>1, Revisions
  <2>2. act \in Snapshots /\ act.axes \in Axes /\ Valid(act.axes)
    BY <1>1, <2>1, SnapshotIsSome DEF Evidence, Legal
  <2>3. RecordOutcome(act.axes, o) \in Axes /\ Valid(RecordOutcome(act.axes, o))
    BY <2>2, RecordAxes
  <2>4. PICK a \in Snapshots : a = [act EXCEPT !.axes = RecordOutcome(@, o)]
    BY <2>2, <2>3 DEF Snapshots
  <2>5. a.gen = g /\ Valid(a.axes) /\ Keep(a)
    BY <1>5, <2>2, <2>3, <2>4 DEF Snapshots
  <2>6. act' = a
    BY <2>5 DEF Keep
  <2> DEFINE new == IF Verified(a) THEN {g} ELSE {}
  <2>7. opened' = opened \cup new /\ earned' = earned \cup new /\ fresh' = fresh \cup new
    BY <1>5, <2>6 DEF Proved
  <2>8. Backed(a)'
    BY <2>5, <2>7 DEF Backed, Verified
  <2>9. opened \subseteq opened' /\ earned \subseteq earned' /\ earned' \subseteq opened'
    BY <1>3, <2>7
  <2>10. Evidence'
    BY <1>1, <1>2, <2>1, <2>5, <2>8, <2>9, KeepStep DEF Orphaned
  <2>11. lost' \in BOOLEAN
    BY <1>3, <2>5 DEF Keep
  <2> QED
    BY <1>1, <1>2, <1>3, <2>9, <2>10, <2>11, PlantFrame, ActivationWhole
<1> QED
  BY <1>4, <1>5 DEF Outcome

(* A crash leaves what is durable; a verification in the mirror still rests *)
(* on an outcome, though not on one of the next process.                    *)
LEMMA CrashStep == ASSUME ActivationInv, ProcessEnds PROVE ActivationInv'
<1>1. Evidence /\ Plant
  BY ActivationParts
<1>2. /\ UNCHANGED <<mirrored, appliedGen, fence, armed, opened>>
      /\ up' = FALSE /\ reopened' = 0 /\ job' = IdleJob /\ act' = NoAct /\ actor' = NoActor
      /\ earned' = {} /\ lost' = FALSE
  BY DEF ProcessEnds, durable
<1>3. Legal(act)' /\ Backed(act)'
  BY <1>2 DEF Legal, Backed, Verified
<1>4. Legal(mirrored)' /\ (Verified(mirrored) => mirrored.gen \in opened)'
  BY <1>1, <1>2 DEF Evidence, Legal, Verified
<1>5. Evidence'
  BY <1>2, <1>3, <1>4 DEF Evidence
<1>6. CommandsAreBacked'
  BY <1>2, Constants DEF CommandsAreBacked, Live
<1>7. Plant'
  BY <1>1, <1>2, <1>6, Constants, Revisions DEF Plant
<1> QED
  BY <1>5, <1>7, ActivationWhole

(* prepareActivationRecovery: nothing is verified after a start.            *)
LEMMA RestartStep == ASSUME ActivationInv, Restart PROVE ActivationInv'
<1>1. Evidence /\ Plant
  BY ActivationParts
<1>2. /\ UNCHANGED <<act, lost, appliedGen, fence, actor, job, reopened, armed, opened, earned, fresh>>
      /\ ~up /\ up' \in BOOLEAN
  <2>1. up \in BOOLEAN
    BY <1>1 DEF Plant
  <2> QED
    BY <2>1 DEF Restart, axes, durable, proofs, planeVars
<1>3. act = NoAct /\ act' = NoAct /\ reopened = 0 /\ actor = NoActor /\ job = IdleJob
  BY <1>1, <1>2 DEF Plant, CommandsAreBacked
<1>4. Legal(act)' /\ Backed(act)'
  BY <1>3 DEF Legal, Backed, Verified
<1>5. Evidence'
  <2>1. CASE mirrored = NoAct \/ fence
    <3>1. UNCHANGED mirrored
      BY <2>1 DEF Restart, axes
    <3>2. Legal(mirrored)' /\ (Verified(mirrored) => mirrored.gen \in opened)'
      BY <1>1, <1>2, <3>1 DEF Evidence, Legal, Verified
    <3>3. (Backed(mirrored) \/ Orphaned)'
      BY <1>2, <1>3, <2>1, <3>1 DEF Backed, Verified, Orphaned
    <3> QED
      BY <1>4, <3>2, <3>3 DEF Evidence
  <2>2. CASE mirrored # NoAct /\ ~fence
    <3>1. mirrored \in Snapshots /\ mirrored.axes \in Axes /\ Valid(mirrored.axes)
      BY <1>1, <2>2, SnapshotIsSome DEF Evidence, Legal
    <3>2. /\ Unverified(mirrored.axes) \in Axes /\ Valid(Unverified(mirrored.axes))
          /\ Unverified(mirrored.axes).pub # "PUBLISHED_VERIFIED"
      BY <3>1, UnverifiedAxes
    <3>3. CASE mirrored' = [mirrored EXCEPT !.axes = Unverified(@)]
      <4>1. mirrored' \in Snapshots /\ mirrored'.axes = Unverified(mirrored.axes)
        BY <3>1, <3>2, <3>3 DEF Snapshots
      <4>2. Legal(mirrored)' /\ ~Verified(mirrored)'
        BY <3>2, <4>1 DEF Legal, Verified
      <4> QED
        BY <1>4, <4>2 DEF Evidence, Backed
    <3>4. CASE UNCHANGED <<mirrored, up>>
      <4>1. Legal(mirrored)' /\ (Verified(mirrored) => mirrored.gen \in opened)' /\ ~up'
        BY <1>1, <1>2, <3>4 DEF Evidence, Legal, Verified
      <4> QED
        BY <1>4, <4>1 DEF Evidence
    <3> QED
      BY <2>2, <3>3, <3>4 DEF Restart
  <2> QED
    BY <2>1, <2>2
<1>6. CommandsAreBacked'
  BY <1>2, <1>3, Constants DEF CommandsAreBacked, Live
<1>7. Plant'
  BY <1>1, <1>2, <1>6 DEF Plant
<1> QED
  BY <1>5, <1>7, ActivationWhole

-----------------------------------------------------------------------------
(* Every step of the Agent.                                                 *)
LEMMA ActivationSteps == ASSUME ActivationInv, [ActNext]_actVars PROVE ActivationInv'
<1>1. CASE Commands
  <2>1. CASE ApplyInstall
    BY <2>1, ApplyInstallStep
  <2>2. CASE ApplyNotify \/ ApplyUndo
    BY <2>2, NotifiesStep
  <2>3. CASE ApplyCommit \/ ApplyCommitFails \/ DeleteIntent \/ DeleteResume
    BY <2>3, CommandStep
  <2>4. CASE DeleteCommit \/ Stop
    BY <2>4, RemovalStep
  <2>5. CASE ArmProbe
    BY <2>5, ArmProbeStep
  <2>6. CASE \E g \in armed, o \in {"OPEN_FROM_VANTAGE", "REJECTED"} : Outcome(g, o)
    BY <2>6, OutcomeStep
  <2> QED
    BY <1>1, <2>1, <2>2, <2>3, <2>4, <2>5, <2>6 DEF Commands
<1>2. CASE DataPlane
  <2>1. CASE Reopen
    BY <2>1, ReopenStep
  <2>2. CASE ReopenNotify
    BY <2>2, NotifiesStep
  <2>3. CASE RunError \/ RouteLost \/ RestoreEnds \/ CapabilityRestored
    BY <2>3, PlaneStep
  <2>4. CASE RunErrorCallback \/ CleanupError
    BY <2>4, SameAxesStep
  <2>5. CASE Cleaned
    BY <2>5, RemovalStep
  <2>6. CASE MappingDegraded \/ MappingLost \/ MappingRecovered
    BY <2>6, MappingStep
  <2>7. CASE EvidenceLost
    BY <2>7, RevokingStep
  <2> QED
    BY <1>2, <2>1, <2>2, <2>3, <2>4, <2>5, <2>6, <2>7 DEF DataPlane
<1>3. CASE ControlDrops \/ Connect
  BY <1>3, PlaneStep
<1>4. CASE MarkUnverified
  BY <1>4, RevokingStep
<1>5. CASE Offline \/ Online
  BY <1>5, SameAxesStep
<1>6. CASE ProcessEnds
  BY <1>6, CrashStep
<1>7. CASE Restart
  BY <1>7, RestartStep
<1>8. CASE UNCHANGED actVars
  <2>1. UNCHANGED <<act, mirrored, lost, appliedGen, fence, actor, job, reopened, up, armed, opened, earned, fresh>>
    BY <1>8 DEF actVars
  <2>2. Evidence /\ Plant
    BY ActivationParts
  <2>3. Evidence'
    BY <2>1, <2>2, FrameStep DEF Orphaned
  <2>4. armed' \subseteq 1..MaxGen /\ earned' \subseteq opened' /\ lost' \in BOOLEAN /\ (~up => act' = NoAct)
    BY <2>1, <2>2 DEF Plant, CommandsAreBacked
  <2> QED
    BY <2>1, <2>2, <2>3, <2>4, PlantFrame, ActivationWhole
<1> QED
  BY <1>1, <1>2, <1>3, <1>4, <1>5, <1>6, <1>7, <1>8 DEF ActNext

(* The Agent starts with no activation and no mirror.                       *)
LEMMA ActivationStarts == ActInit => ActivationInv
<1> SUFFICES ASSUME ActInit PROVE ActivationInv
  OBVIOUS
<1>1. /\ act = NoAct /\ mirrored = NoAct /\ appliedGen = 0 /\ fence = FALSE /\ actor = NoActor /\ job = IdleJob
      /\ reopened = 0 /\ up = TRUE /\ armed = {} /\ opened = {} /\ earned = {} /\ lost = FALSE
  BY DEF ActInit
<1>2. ~Verified(act) /\ ~Verified(mirrored)
  BY <1>1 DEF Verified
<1>3. ActTypeOK
  BY <1>1, Constants, Revisions DEF ActTypeOK
<1>4. CommandsAreBacked
  BY <1>1, Constants DEF CommandsAreBacked, Live
<1>5. VerifiedIsProved /\ ReplayedIsEarned /\ LossRevokes
  BY <1>1, <1>2 DEF VerifiedIsProved, ReplayedIsEarned, LossRevokes
<1> QED
  BY <1>3, <1>4, <1>5 DEF ActivationInv

(* Whatever the interleaving of commands, listener errors, mapping events,  *)
(* losses of route and session, probes, failed saves, crashes and restarts, *)
(* a verified publication rests on an open outcome of its own revision,     *)
(* earned by the running process and later than the last loss it saw        *)
(* (app.go, reconcile/activation.go, reconcile/state_machine.go).           *)
THEOREM ActivationSafe == ActSpec => []ActivationInv
<1>1. ActivationInv /\ [ActNext]_actVars => ActivationInv'
  BY ActivationSteps
<1> QED
  BY <1>1, ActivationStarts, PTL DEF ActSpec
=============================================================================
