----------------------------- MODULE Activation -----------------------------
(***************************************************************************)
(* The activation of one Forward: its evidence axes in memory, their durable *)
(* mirror, and every handler that changes them: apply and rollback, reopen,  *)
(* listener and cleanup errors, mapping events, loss of the route, loss and  *)
(* return of the control session, probe admission and outcome, deletion and  *)
(* restart (internal/agent/app.go, traversal_lifecycle.go,                   *)
(* reconcile/activation.go, reconcile/state_machine.go).                     *)
(*                                                                           *)
(* probeAdmissionMu makes each handler one step; the save at its end may     *)
(* fail.  The axes that no relation between axes involves (control,          *)
(* listener, data plane, keepalive, target health) are left out; handlers    *)
(* that change only those still save what they find in memory.  Outcomes     *)
(* other than OPEN_FROM_VANTAGE act alike and are REJECTED here.  Status      *)
(* messages repeat the mirror and are left out.                              *)
(***************************************************************************)
EXTENDS Integers

CONSTANTS MaxGen, MaxProbes, MaxSaveFails, MaxRestarts,
  MaxIncidents   \* listener errors, and losses of mapping, route and session

ASSUME ActAssumption ==
  /\ MaxGen \in Nat /\ MaxProbes \in Nat /\ MaxSaveFails \in Nat /\ MaxRestarts \in Nat
  /\ MaxIncidents \in Nat

VARIABLES
  gateway,   \* the strategy of the Forward maps at a gateway; fixed
  act,       \* App.activations: [gen, axes], or NoAct
  mirrored,  \* the durable snapshot: [gen, axes], or NoAct
  appliedGen, \* durable applied revision, 0 for none
  fence,     \* a delete intent or tombstone is durable
  actor,     \* [state, kind, lease, deleting] of the data plane
  notified,  \* deletedNotified: notifyDeleted has run for the Forward
  callback,  \* a listener failed and onForwardRunError is to come
  route,     \* capability: "ready", "losing", "lost", "restoring"
  job,       \* the command being handled: [pc, rev, hot, mine]; hot: it updates an
             \* actor in place; mine: that actor is still the live one
  reopened,  \* revision finishReopen has installed and is to report, or 0
  conn,      \* the session: stages of reconnectControl
  up,
  armed,     \* generations whose probe has no outcome yet
  opened, earned, \* generations proved open: ever, and in this process
  fresh,     \* generations proved open after the last loss of evidence
  lost,      \* a save failed in this process
  probes, saveFails, restarts, incidents

actVars == <<gateway, act, mirrored, appliedGen, fence, actor, notified, callback, route, job,
             reopened, conn, up, armed, opened, earned, fresh, lost, probes, saveFails,
             restarts, incidents>>

NoAct == [gen |-> 0, axes |-> "none"]
NoActor == [state |-> "none", kind |-> "none", lease |-> "none", deleting |-> FALSE]
IdleJob == [pc |-> "idle", rev |-> 0, hot |-> FALSE, mine |-> FALSE]

\* NewActivation, and resetForGenerationLocked: a revision starts without evidence.
NewAxes == [mapping |-> "NOT_REQUIRED", wan |-> "NOT_TESTED", path |-> "NOT_TESTED", pub |-> "NONE"]

ActInit ==
  /\ gateway \in BOOLEAN
  /\ act = NoAct /\ mirrored = NoAct /\ appliedGen = 0 /\ fence = FALSE
  /\ actor = NoActor /\ notified = FALSE /\ callback = FALSE /\ route = "ready"
  /\ job = IdleJob /\ reopened = 0 /\ conn = "on" /\ up = TRUE
  /\ armed = {} /\ opened = {} /\ earned = {} /\ fresh = {} /\ lost = FALSE
  /\ probes = 0 /\ saveFails = 0 /\ restarts = 0 /\ incidents = 0

planeVars == <<gateway, actor, notified, callback, route>>
processVars == <<reopened, conn, up, restarts>>
proofs == <<armed, opened, earned, probes, incidents>>
durable == <<appliedGen, fence>>
axes == <<act, mirrored, lost, saveFails>>

Connected == conn \in {"on", "handshaken"}
Live == actor.state = "live"
Capable == route \in {"ready", "restoring"}
Kinds == IF gateway THEN {"FIRST_HOP_MAPPED", "PUBLIC_CANDIDATE"} ELSE {"NOT_REQUIRED"}

-----------------------------------------------------------------------------
(* The axes.                                                                *)

\* ValidatePublication and ValidateAxisRelations.
Valid(x) ==
  /\ x.pub = "PUBLISHED_VERIFIED" => x.wan = "OPEN_FROM_VANTAGE" /\ x.path = "VERIFIED"
  /\ x.pub = "PUBLISHED_UNVERIFIED" => x.wan # "OPEN_FROM_VANTAGE"
  /\ x.mapping = "FIRST_HOP_MAPPED" => x.path # "VERIFIED" /\ x.pub # "PUBLISHED_VERIFIED"

Verified(a) == a # NoAct /\ a.axes.pub = "PUBLISHED_VERIFIED"

\* A transition that would make the snapshot illegal leaves it as it was.
Change(x, y) == IF Valid(y) THEN y ELSE x
Update(x, axis, v) == Change(x, [x EXCEPT ![axis] = v])

\* EvidenceLost.
Stale(x) == Change(x, [x EXCEPT !.pub = "STALE", !.wan = "NOT_TESTED", !.path = "NOT_TESTED"])

\* RecoverAfterRestart.
Unverified(x) ==
  Change(x, [x EXCEPT !.wan = "NOT_TESTED", !.path = "NOT_TESTED",
               !.pub = IF @ = "PUBLISHED_VERIFIED" THEN "PUBLISHED_UNVERIFIED" ELSE @])

\* StartProbeAdmission.
Probing(x) == [x EXCEPT !.wan = "PROBING", !.pub = "UNPUBLISHED", !.path = "NOT_TESTED"]

\* RecordProbeOutcome.
RecordOutcome(x, outcome) ==
  Change(x, IF outcome = "OPEN_FROM_VANTAGE"
            THEN [x EXCEPT !.wan = outcome, !.path = "VERIFIED", !.pub = "PUBLISHED_VERIFIED"]
            ELSE [x EXCEPT !.wan = outcome, !.path = "FAILED", !.pub = "UNPUBLISHED"])

-----------------------------------------------------------------------------
(* Saving the mirror.                                                       *)

Incident == incidents < MaxIncidents /\ incidents' = incidents + 1

Fail == saveFails < MaxSaveFails /\ saveFails' = saveFails + 1

\* SaveActivationSnapshot at the end of a handler that leaves a in memory.
Keep(a) ==
  /\ act' = a
  /\ \/ mirrored' = a /\ UNCHANGED <<lost, saveFails>>
     \/ Fail /\ lost' = TRUE /\ UNCHANGED mirrored

\* A handler that changes the axes of the activation, if there is one.
Handle(x) == IF act = NoAct THEN UNCHANGED axes ELSE Keep([act EXCEPT !.axes = x])

\* The activation in memory, if any, has lost its evidence.
Revoked == fresh' = IF act = NoAct THEN fresh ELSE {}

\* onForwardApplied: the mapping of the live actor first, then a saved
\* snapshot of the same revision over all axes.
Notify(rev) ==
  LET own  == IF act.gen = rev THEN act.axes ELSE NewAxes
      seen == IF Live THEN Update(own, "mapping", actor.kind) ELSE own
      kept == IF mirrored # NoAct /\ mirrored.gen = rev THEN mirrored.axes ELSE seen
  IN Keep([gen |-> rev, axes |-> kept])

-----------------------------------------------------------------------------
(* Desired-state commands.                                                  *)

Installed(kind) == actor' = [state |-> "live", kind |-> kind, lease |-> "healthy", deleting |-> FALSE]

\* apply: a live actor is updated in place, otherwise a new one installed.
ApplyInstall ==
  /\ up /\ Connected /\ job = IdleJob /\ reopened = 0
  /\ ~fence /\ Capable /\ appliedGen < MaxGen
  /\ \/ Live /\ UNCHANGED actor
     \/ actor = NoActor /\ \E k \in Kinds : Installed(k)
  /\ job' = [pc |-> "notify", rev |-> appliedGen + 1, hot |-> Live, mine |-> Live]
  /\ UNCHANGED <<axes, durable, gateway, notified, callback, route, processVars,
                 proofs, fresh>>

ApplyNotify ==
  /\ job.pc = "notify"
  /\ Notify(job.rev)
  /\ job' = [job EXCEPT !.pc = "commit"]
  /\ UNCHANGED <<durable, planeVars, processVars, proofs, fresh>>

ApplyCommit ==
  /\ job.pc = "commit"
  /\ appliedGen' = job.rev
  /\ job' = IdleJob
  /\ UNCHANGED <<axes, fence, planeVars, processVars, proofs, fresh>>

\* The transaction failed: an update in place is rolled back, a new actor stopped.
ApplyCommitFails ==
  /\ job.pc = "commit" /\ Fail
  /\ job' = [job EXCEPT !.pc = IF job.hot THEN "undo" ELSE "stop"]
  /\ UNCHANGED <<act, mirrored, lost, durable, planeVars, processVars, proofs, fresh>>

\* rollback: only while the updated actor is the live one.
ApplyUndo ==
  /\ job.pc = "undo"
  /\ IF job.mine THEN Notify(appliedGen) ELSE UNCHANGED axes
  /\ job' = IdleJob
  /\ UNCHANGED <<durable, planeVars, processVars, proofs, fresh>>

\* A deletion makes its intent durable.
DeleteIntent ==
  /\ up /\ Connected /\ job = IdleJob /\ appliedGen # 0
  /\ fence' = TRUE
  /\ job' = [IdleJob EXCEPT !.pc = "bury"]
  /\ UNCHANGED <<axes, appliedGen, planeVars, processVars, proofs, fresh>>

\* Its transaction removes the applied row and the mirror.
DeleteCommit ==
  /\ job.pc = "bury"
  /\ appliedGen' = 0 /\ mirrored' = NoAct
  /\ job' = [IdleJob EXCEPT !.pc = "stop"]
  /\ UNCHANGED <<act, lost, saveFails, fence, planeVars, processVars, proofs, fresh>>

\* stop: the actor is to report the deletion when it is cleaned up; without
\* one notifyDeleted does, the first time only.
Stop ==
  /\ job.pc = "stop"
  /\ IF actor = NoActor
     THEN /\ act' = IF notified THEN act ELSE NoAct
          /\ notified' = TRUE
          /\ UNCHANGED actor
     ELSE /\ actor' = [actor EXCEPT !.state = "pending", !.deleting = TRUE]
          /\ UNCHANGED <<act, notified>>
  /\ job' = IdleJob
  /\ UNCHANGED <<mirrored, lost, saveFails, durable, gateway, callback, route, processVars,
                 proofs, fresh>>

-----------------------------------------------------------------------------
(* The data plane.                                                          *)

\* finishReopen installs, then reports the applied revision.
Reopen ==
  /\ up /\ Capable /\ reopened = 0 /\ job.pc # "notify"
  /\ appliedGen # 0 /\ ~fence /\ actor = NoActor
  /\ \E k \in Kinds : Installed(k)
  /\ reopened' = appliedGen
  /\ UNCHANGED <<axes, durable, gateway, notified, callback, route, job, conn, up,
                 restarts, proofs, fresh>>

ReopenNotify ==
  /\ reopened # 0
  /\ Notify(reopened)
  /\ reopened' = 0
  /\ UNCHANGED <<durable, planeVars, job, conn, up, restarts, proofs, fresh>>

Demote == /\ actor' = IF Live THEN [actor EXCEPT !.state = "pending"] ELSE actor
          /\ job' = [job EXCEPT !.mine = FALSE]

\* handleForwardRunError demotes the actor, then calls back.
RunError ==
  /\ up /\ Live
  /\ Demote /\ callback' = TRUE
  /\ Incident
  /\ UNCHANGED <<axes, durable, gateway, notified, route, processVars, armed, opened,
                 earned, probes, fresh>>

\* onForwardRunError: only for an actor still waiting for its cleanup.
RunErrorCallback ==
  /\ callback /\ callback' = FALSE
  /\ IF actor.state = "pending"
     THEN Handle(act.axes)
     ELSE UNCHANGED axes
  /\ UNCHANGED <<durable, gateway, actor, notified, route, job, processVars, proofs,
                 fresh>>

\* onForwardCleanupError.
CleanupError ==
  /\ actor.state = "pending" /\ Handle(act.axes)
  /\ UNCHANGED <<durable, planeVars, job, processVars, proofs, fresh>>

\* cleanupActor succeeds; a deletion is reported with onForwardDeleted.
Cleaned ==
  /\ actor.state = "pending"
  /\ actor' = NoActor
  /\ act' = IF actor.deleting THEN NoAct ELSE act
  /\ UNCHANGED <<mirrored, lost, saveFails, durable, gateway, notified, callback, route, job,
                 processVars, proofs, fresh>>

\* onMappingLifecycle: live, mapped and not fenced; the lease itself goes on.
Mapped == Live /\ gateway

MappingEvent(from, to, x) ==
  /\ up /\ Mapped /\ actor.lease \in from
  /\ actor' = [actor EXCEPT !.lease = to]
  /\ IF fence THEN UNCHANGED axes ELSE Handle(x)
  /\ UNCHANGED <<durable, gateway, notified, callback, route, job, processVars, armed,
                 opened, earned, probes>>

MappingDegraded ==
  /\ MappingEvent({"healthy"}, "degraded", act.axes)
  /\ Incident
  /\ UNCHANGED fresh

MappingLost ==
  /\ MappingEvent({"healthy", "degraded"}, "lost",
       Stale(Update(act.axes, "mapping", "LOST")))
  /\ Incident
  /\ IF fence THEN UNCHANGED fresh ELSE Revoked

\* onMappingRecovered; a refused mapping state leaves the mirror unsaved.
MappingRecovered ==
  /\ IF act # NoAct /\ ~fence /\ ~Valid([act.axes EXCEPT !.mapping = actor.kind])
     THEN /\ up /\ Mapped /\ actor.lease = "degraded"
          /\ actor' = [actor EXCEPT !.lease = "healthy"]
          /\ UNCHANGED <<axes, durable, gateway, notified, callback, route, job, processVars, armed, opened,
                         earned, probes>>
     ELSE MappingEvent({"degraded"}, "healthy", [act.axes EXCEPT !.mapping = actor.kind])
  /\ UNCHANGED <<fresh, incidents>>

\* markCapabilityLost: every actor goes, then markEvidenceLost.
RouteLost ==
  /\ up /\ route = "ready"
  /\ Demote /\ route' = "losing"
  /\ Incident
  /\ UNCHANGED <<axes, durable, gateway, notified, callback, processVars, armed,
                 opened, earned, probes, fresh>>

EvidenceLost ==
  /\ route = "losing" /\ route' = "lost"
  /\ Handle(Stale(act.axes)) /\ Revoked
  /\ UNCHANGED <<durable, gateway, actor, notified, callback, job, processVars, proofs>>

CapabilityRestored ==
  /\ up /\ route = "lost" /\ route' = "restoring"
  /\ UNCHANGED <<axes, durable, gateway, actor, notified, callback, job, processVars,
                 proofs, fresh>>

\* Adapters rebuilt and Forwards recovered; a failure of either takes every
\* actor down again without another markEvidenceLost.
RestoreEnds ==
  /\ route = "restoring"
  /\ \/ route' = "ready" /\ UNCHANGED <<actor, job>>
     \/ route' = "lost" /\ Demote
  /\ UNCHANGED <<axes, durable, gateway, notified, callback, processVars, proofs,
                 fresh>>

-----------------------------------------------------------------------------
(* The control session and probes.                                          *)

Session(from, to) == up /\ conn = from /\ conn' = to /\ UNCHANGED <<reopened, up,
                                                                    restarts>>

ControlDrops ==
  /\ Session("on", "dropped")
  /\ Incident
  /\ UNCHANGED <<axes, durable, planeVars, job, armed, opened, earned, probes, fresh>>

\* markActivationsUnverified.
MarkUnverified ==
  /\ Session("dropped", "unverified")
  /\ Handle(Unverified(act.axes)) /\ Revoked
  /\ UNCHANGED <<durable, planeVars, job, proofs>>

\* updateActivationControlState, on both ends of Connect.
Offline ==
  /\ Session("unverified", "off")
  /\ Handle(act.axes)
  /\ UNCHANGED <<durable, planeVars, job, proofs, fresh>>

Connect ==
  /\ Session("off", "handshaken")
  /\ UNCHANGED <<axes, durable, planeVars, job, proofs, fresh>>

Online ==
  /\ Session("handshaken", "on")
  /\ Handle(act.axes)
  /\ UNCHANGED <<durable, planeVars, job, proofs, fresh>>

\* armProbe and CommitProbeAdmission: revision applied, mirror as in memory.
ArmProbe ==
  /\ up /\ Connected /\ job = IdleJob /\ probes < MaxProbes
  /\ act # NoAct /\ appliedGen = act.gen /\ mirrored \in {NoAct, act}
  /\ act' = [act EXCEPT !.axes = Probing(@)] /\ mirrored' = act'
  /\ armed' = armed \cup {act.gen} /\ probes' = probes + 1
  /\ UNCHANGED <<lost, saveFails, durable, planeVars, job, processVars, opened, earned,
                 incidents, fresh>>

Proved(g, a) ==
  LET new == IF Verified(a) THEN {g} ELSE {}
  IN opened' = opened \cup new /\ earned' = earned \cup new /\ fresh' = fresh \cup new

\* An outcome applied as it would be without the generation in it.
OutcomeOfAnyRevision(g, outcome) ==
  /\ up /\ Connected /\ job = IdleJob /\ g \in armed
  /\ armed' = armed \ {g}
  /\ act # NoAct /\ ~fence
  /\ Keep([act EXCEPT !.axes = RecordOutcome(@, outcome)])
  /\ Proved(g, act')
  /\ UNCHANGED <<durable, planeVars, job, processVars, probes, incidents>>

\* applyProbeOutcome: for the revision in memory and no other, never when
\* a deletion is durable; the relations of the axes may refuse it.
Outcome(g, outcome) ==
  /\ up /\ Connected /\ job = IdleJob /\ g \in armed
  /\ armed' = armed \ {g}
  /\ IF act.gen = g /\ ~fence /\ RecordOutcome(act.axes, outcome).wan = outcome
     THEN /\ Keep([act EXCEPT !.axes = RecordOutcome(@, outcome)])
          /\ Proved(g, act')
     ELSE UNCHANGED <<axes, opened, earned, fresh>>
  /\ UNCHANGED <<durable, planeVars, job, processVars, probes, incidents>>

-----------------------------------------------------------------------------
(* The process.                                                             *)

ProcessEnds ==
  /\ up /\ restarts < MaxRestarts /\ restarts' = restarts + 1
  /\ up' = FALSE /\ conn' = "off" /\ reopened' = 0 /\ job' = IdleJob
  /\ act' = NoAct /\ actor' = NoActor /\ notified' = FALSE /\ callback' = FALSE
  /\ route' = "ready" /\ earned' = {} /\ fresh' = {} /\ lost' = FALSE
  /\ UNCHANGED <<mirrored, saveFails, durable, gateway, armed, opened, probes, incidents>>

\* prepareActivationRecovery: no proof survives; a failed save ends the start.
Restart ==
  /\ ~up
  /\ IF mirrored = NoAct \/ fence
     THEN up' = TRUE /\ UNCHANGED axes
     ELSE /\ \/ mirrored' = [mirrored EXCEPT !.axes = Unverified(@)] /\ up' = TRUE /\ UNCHANGED saveFails
             \/ Fail /\ UNCHANGED <<mirrored, up>>
          /\ UNCHANGED <<act, lost>>
  /\ UNCHANGED <<durable, planeVars, job, reopened, conn, restarts, proofs, fresh>>

\* The deletion the last process left unfinished.
DeleteResume ==
  /\ up /\ fence /\ job = IdleJob
  /\ job' = [IdleJob EXCEPT !.pc = IF appliedGen # 0 THEN "bury" ELSE "stop"]
  /\ appliedGen # 0 \/ actor # NoActor
  /\ UNCHANGED <<axes, durable, planeVars, processVars, proofs, fresh>>

-----------------------------------------------------------------------------
Commands ==
  \/ ApplyInstall \/ ApplyNotify \/ ApplyCommit \/ ApplyCommitFails \/ ApplyUndo
  \/ DeleteIntent \/ DeleteCommit \/ DeleteResume \/ Stop
  \/ ArmProbe \/ \E g \in armed, o \in {"OPEN_FROM_VANTAGE", "REJECTED"} : Outcome(g, o)

DataPlane ==
  \/ Reopen \/ ReopenNotify \/ RunError \/ RunErrorCallback \/ CleanupError \/ Cleaned
  \/ MappingDegraded \/ MappingLost \/ MappingRecovered
  \/ RouteLost \/ EvidenceLost \/ CapabilityRestored \/ RestoreEnds

ActNext ==
  \/ Commands \/ DataPlane
  \/ ControlDrops \/ MarkUnverified \/ Offline \/ Connect \/ Online
  \/ ProcessEnds \/ Restart

ActSpec == ActInit /\ [][ActNext]_actVars

-----------------------------------------------------------------------------
MappingKinds == {"NOT_REQUIRED", "FIRST_HOP_MAPPED", "PUBLIC_CANDIDATE", "LOST"}
Axes == [mapping : MappingKinds,
         wan : {"NOT_TESTED", "PROBING", "OPEN_FROM_VANTAGE", "REJECTED"},
         path : {"NOT_TESTED", "VERIFIED", "FAILED"},
         pub : {"NONE", "PUBLISHED_VERIFIED", "PUBLISHED_UNVERIFIED", "STALE", "UNPUBLISHED"}]
Snapshots == [gen : 1..MaxGen, axes : Axes]
Jobs == [pc : {"idle", "notify", "commit", "undo", "bury", "stop"}, rev : 0..MaxGen,
         hot : BOOLEAN, mine : BOOLEAN]
Actors == [state : {"none", "live", "pending"}, kind : MappingKinds \cup {"none"},
           lease : {"none", "healthy", "degraded", "lost"}, deleting : BOOLEAN]

\* Memory and mirror hold legal snapshots: each axis in its range, and the
\* relations between axes that Validate demands, in every interleaving.
ActTypeOK ==
  /\ \A a \in {act, mirrored} : a = NoAct \/ (a \in Snapshots /\ Valid(a.axes))
  /\ appliedGen \in 0..MaxGen /\ reopened \in 0..MaxGen /\ job \in Jobs /\ actor \in Actors
  /\ armed \subseteq 1..MaxGen /\ earned \subseteq opened
  /\ up \in BOOLEAN /\ fence \in BOOLEAN /\ lost \in BOOLEAN

\* The revision a command reports, commits or goes back to exists, a live
\* actor belongs to one, and a process that is down holds nothing (apply,
\* rollback, stop).
CommandsAreBacked ==
  /\ job.pc \in {"notify", "commit"} => job.rev # 0
  /\ job.pc \in {"notify", "commit", "undo"} => ~fence /\ (job.hot => appliedGen # 0)
  /\ job.pc = "undo" => job.hot
  /\ Live => actor.kind \in MappingKinds /\ (job.pc = "idle" => fence \/ appliedGen # 0)
  /\ ~up => act = NoAct /\ actor = NoActor /\ job = IdleJob /\ reopened = 0

\* Whatever is published as verified, in memory or in the mirror, rests on an
\* open outcome of a probe of that very revision: a late outcome, a rolled
\* back revision or a failed save never lends its proof to another revision
\* (RecordProbeOutcome, resetForGenerationLocked, onForwardApplied).
VerifiedIsProved ==
  \A a \in {act, mirrored} : Verified(a) => a.gen \in opened

\* A mirror that a durable deletion left as an earlier process saved it: no
\* activation is there, and nothing will report one.
Orphaned == fence /\ act = NoAct /\ reopened = 0

\* Once the Agent is up again, neither memory nor a mirror that a reconnect
\* could replay claims a verification an earlier process earned, even when
\* saves failed before the crash (prepareActivationRecovery).
ReplayedIsEarned ==
  /\ Verified(act) => act.gen \in earned
  /\ up /\ Verified(mirrored) => mirrored.gen \in earned \/ Orphaned

\* As long as every save succeeded and no deletion began, an activation is
\* verified only by an outcome later than the last loss of the route, the
\* mapping or the session that it was there to see, and so is the mirror: a
\* reopened listener does not bring the old publication back (EvidenceLost,
\* RecoverAfterRestart, onForwardApplied).
LossRevokes ==
  ~lost /\ ~fence =>
    /\ Verified(act) => act.gen \in fresh
    /\ up /\ Verified(mirrored) => mirrored.gen \in fresh

\* A publication rests on evidence: on an open outcome of that very revision,
\* earned by this process when it is replayed, and later than the last loss,
\* with legal axes in memory and in the mirror (state_machine.go, app.go).
ActivationInv ==
  ActTypeOK /\ CommandsAreBacked /\ VerifiedIsProved /\ ReplayedIsEarned /\ LossRevokes

\* docs/state-model.md, publication revocation: after a loss of evidence the
\* endpoint is probed again, so a publication becomes verified only out of a
\* running probe (RecordProbeOutcome, EvidenceLost).
RevokedIsReprobed ==
  [][act.gen = act'.gen /\ ~Verified(act) /\ Verified(act') => act.axes.wan = "PROBING"]_actVars
=============================================================================
