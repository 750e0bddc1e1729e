--------------------------- MODULE ForwardProofs ----------------------------
(* ForwardInv holds in every reachable state, for every set of Forwards, targets,
   actors and retries and every bound on revisions; and ForwardLifecycle implements
   ForwardContract. *)
EXTENDS ForwardPlane

\* The provers' default; a leaf that needs arithmetic or records names SMT.
USE Zenon

\* Every step of a recovery keeps who holds what.
LEMMA RecoverHeld ==
  ASSUME TypeOK, RowsAreFiled, Held, NEW r \in Recoverers, Recover(r)
  PROVE  Held'
<1> USE RecFields
<1>1. ASSUME NEW f \in Forwards, RecSkip(r, f) \/ RecPick(r, f) PROVE Held'
  <2>1. rec[r].acq = None /\ UNCHANGED <<forwards, pending, actor, mu, op, frame>>
    BY <1>1 DEF RecSkip, RecPick, Held, RecoveryOwns, Owns, Holding, plane
  <2>2. /\ \A q \in Recoverers \ {r} : rec'[q] = rec[q]
        /\ rec'[r].acq = rec[r].acq /\ rec'[r].pc \in {"pick", "op"}
        /\ rec'[r].pc = "op" => rec'[r].f = f /\ rec'[r].list = rec[r].list
    BY SMT, <1>1 DEF RecSkip, RecPick, TypeOK, RecType
  <2>3. rec[r].list[f] # None /\ f # None /\ frame.pc # "down"
    <3>1. f # None
      BY ConstantsAssumption
    <3> QED BY <1>1, <3>1 DEF RecSkip, RecPick, Held, RecoveryOwns, Owns
  <2> QED BY <2>1, <2>2, <2>3, RecHeld DEF Holding
<1>2. CASE RecBegin(r)
  <2>1. /\ rec[r].acq = None /\ UNCHANGED <<forwards, pending, actor, mu, frame>>
        /\ rec[r].f # None /\ rec[r].list[rec[r].f] # None /\ frame.pc # "down" /\ op[rec[r].f] = None
    BY <1>2 DEF RecBegin, Held, RecoveryOwns, Owns, Holding
  <2>2. /\ \A q \in Recoverers \ {r} : rec'[q] = rec[q]
        /\ rec'[r].acq = rec[r].acq /\ rec'[r].pc = "acquire"
        /\ rec'[r].f = rec[r].f /\ rec'[r].list = rec[r].list /\ rec'[r].gen = gen
    BY SMT, <1>2 DEF RecBegin, TypeOK, RecType
  <2>3. /\ op'[rec[r].f] = r /\ gen # None
        /\ \A f \in Forwards : op[f] # None => op'[f] = op[f]
    BY SMT, <1>2, <2>1, ConstantsAssumption DEF RecBegin, TypeOK
  <2> QED BY <2>1, <2>2, <2>3, RecHeld DEF Holding
<1>3. CASE RecAcquireFails(r)
  <2>1. PICK pc \in {"pick", "failed"} : RecNext(r, pc)
    BY <1>3 DEF RecAcquireFails
  <2>2. /\ rec[r].acq = None /\ UNCHANGED <<forwards, pending, actor, mu, frame>>
        /\ rec[r].f \in Forwards /\ frame.pc # "down" /\ op[rec[r].f] = r
    BY <1>3 DEF RecAcquireFails, Held, RecoveryOwns, Owns, Holding
  <2>3. op' = [op EXCEPT ![rec[r].f] = None]
    BY <2>1 DEF RecNext
  <2>4. \A f \in Forwards : op[f] # None /\ op[f] # r => op'[f] = op[f]
    BY <2>2, <2>3 DEF TypeOK
  <2>5. /\ \A q \in Recoverers \ {r} : rec'[q] = rec[q]
        /\ rec'[r].acq = None /\ rec'[r].pc \in {"pick", "failed"}
    BY <2>1, RecNextFields
  <2> QED BY <2>2, <2>4, <2>5, RecHeld DEF Holding
<1>4. CASE RecReplayFails(r) \/ RecEnd(r)
  <2>1. /\ rec[r].acq = None /\ UNCHANGED <<forwards, pending, actor, mu, op>> /\ frame.pc # "down"
        /\ frame.pc = "boot" => frame.acq = None
    BY <1>4 DEF RecReplayFails, RecEnd, Held, RecoveryOwns, Owns, FrameOwns, Holding, plane
  <2>2. /\ \A q \in Recoverers \ {r} : rec'[q] = rec[q]
        /\ rec'[r].acq = None /\ rec'[r].pc \in {"failed", "idle"}
    BY SMT, <1>4, <2>1 DEF RecReplayFails, RecEnd, TypeOK, RecType, IdleRec
  <2>3. frame' = frame \/ (frame'.acq = None /\ frame'.pc = "idle" /\ frame.pc = "boot")
    BY <1>4, IdleFields DEF RecReplayFails, RecEnd
  <2> QED BY <2>1, <2>2, <2>3, RecHeld DEF Holding
<1>5. CASE RecFence(r) \/ RecLock(r) \/ RecCheck(r)
  <2>1. /\ rec[r].pc \in Holding /\ mu \in Recoverers \cup {None}
        /\ RecCheck(r) => mu = r
        /\ ~RecCheck(r) => mu # r
    BY <1>5, Disjoint DEF RecFence, RecLock, RecCheck, Holding, Held, PlaneAgrees, TypeOK
  <2>2. UNCHANGED <<forwards, actor, frame>>
    BY <1>5 DEF RecFence, RecLock, RecCheck
  <2>4. CASE RecFence(r)
    <3>1. ~RecCheck(r) /\ mu' = mu
      BY <2>4 DEF RecFence, RecCheck
    <3>2. CASE Abandon(rec[r].acq) /\ RecNext(r, "pick")
      BY <2>1, <2>2, <3>1, <3>2, RecLetsGo
    <3>3. CASE rec' = [rec EXCEPT ![r].pc = "lock"] /\ UNCHANGED <<pending, op>>
      BY <2>1, <2>2, <3>1, <3>3, RecMoves DEF Holding
    <3> QED BY <2>4, <3>2, <3>3 DEF RecFence
  <2>5. CASE RecLock(r)
    <3>1. mu = None
      BY <2>5 DEF RecLock
    <3>2. CASE latch \/ rec[r].gen # gen
      BY <2>1, <2>2, <2>5, <3>1, <3>2, Disjoint, RecLetsGo DEF RecLock
    <3>3. CASE ~(latch \/ rec[r].gen # gen)
      BY <2>1, <2>2, <2>5, <3>1, <3>3, Disjoint, RecMoves DEF RecLock, Holding
    <3> QED BY <3>2, <3>3
  <2>6. CASE RecCheck(r)
    <3> DEFINE no == Fenced(rec[r].f) \/ forwards[rec[r].f] # None \/ PendingOf(rec[r].f) # {}
    <3>1. CASE no
      <4>1. Abandon(rec[r].acq) /\ RecNext(r, "pick") /\ mu' = None
        BY <2>6, <3>1 DEF RecCheck
      <4> QED BY <2>1, <2>2, <2>6, <4>1, Disjoint, RecLetsGo
    <3>2. CASE ~no
      <4>1. rec' = [rec EXCEPT ![r].pc = "publish"] /\ UNCHANGED <<pending, op, mu>> /\ forwards[rec[r].f] = None
        BY <2>6, <3>2 DEF RecCheck
      <4> QED BY <2>1, <2>2, <2>6, <4>1, RecMoves DEF Holding
    <3> QED BY <3>1, <3>2
  <2> QED BY <1>5, <2>4, <2>5, <2>6
<1>6. CASE RecPublish(r)
  <2>1. /\ rec[r].pc = "publish" /\ rec[r].pc \in Holding /\ mu = r /\ mu' = None /\ UNCHANGED frame
    BY <1>6 DEF RecPublish, Holding, Held, PlaneAgrees
  <2>2. CASE Install(rec[r].f, rec[r].acq) /\ RecNext(r, "pick") /\ UNCHANGED pending
    BY <2>1, <2>2, Disjoint, RecLetsGo
  <2>3. CASE Abandon(rec[r].acq) /\ RecNext(r, "failed") /\ UNCHANGED <<forwards, actor>>
    BY <2>1, <2>3, Disjoint, RecLetsGo
  <2> QED BY <1>6, <2>2, <2>3 DEF RecPublish
<1> QED BY <1>1, <1>2, <1>3, <1>4, <1>5, <1>6, RecAcquireHeld DEF Recover

\* The process, the network, the monitor and the retries keep who holds what.
LEMMA EnvironmentHeld ==
  ASSUME TypeOK, Held, Environment \/ Watch \/ \E r \in Retries : Retry(r)
  PROVE  Held'
<1>1. Monitor \in Recoverers /\ Retries \subseteq Recoverers
  BY DEF Recoverers
<1>2. CASE NetChange
  BY <1>2, SameHeld DEF NetChange, plane
<1>3. /\ IdleRec.acq = None /\ IdleRec.pc = "idle" /\ Started.acq = None
      /\ Started.pc \in {"idle", "pick"}
  BY DEF IdleRec, Started
<1>4. CASE Boot
  <2>1. \A r \in Recoverers : rec[r].acq = None
    BY <1>4 DEF Boot, Held, RecoveryOwns, Owns, Holding
  <2>2. frame.acq = None /\ frame'.acq = None /\ frame'.pc \in {"idle", "boot"}
    BY <1>4 DEF Boot, Held, FrameOwns, IdleFrame
  <2>3. /\ rec'[Monitor] = Started /\ \A q \in Recoverers \ {Monitor} : rec'[q] = rec[q]
        /\ UNCHANGED <<forwards, pending, actor, mu, op>>
    BY <1>1, <1>4 DEF Boot, TypeOK, plane
  <2> QED BY <1>1, <1>3, <2>1, <2>2, <2>3, RecHeld DEF Holding
<1>5. ASSUME NEW f \in Forwards, RunError(f) PROVE Held'
  BY <1>5, UninstallHeld DEF RunError
<1>6. ASSUME NEW r \in Retries, Retry(r) PROVE Held'
  <2>1. /\ rec[r].acq = None /\ frame.pc # "down"
        /\ rec'[r] = Started /\ \A q \in Recoverers \ {r} : rec'[q] = rec[q]
        /\ UNCHANGED <<forwards, pending, actor, mu, op, frame>>
    <3>1. rec[r].acq = None /\ frame.pc # "down"
      BY <1>1, <1>6 DEF Retry, Held, RecoveryOwns, Owns, Holding
    <3>2. rec'[r] = Started /\ \A q \in Recoverers \ {r} : rec'[q] = rec[q]
      BY <1>1, <1>6 DEF Retry, TypeOK
    <3> QED BY <1>6, <3>1, <3>2 DEF Retry, plane
  <2> QED BY <1>1, <1>3, <2>1, RecHeld DEF Holding
<1>7. CASE Watch
  <2>1. rec[Monitor].acq = None /\ frame.pc # "down" /\ frame' = frame
    BY <1>1, <1>7 DEF Watch, MonitorTick, MonitorRests, MonitorLoses, MonitorRestores,
                      MonitorRebuilds, MonitorFails, Held, RecoveryOwns, Owns, Holding
  <2>2. /\ \A q \in Recoverers \ {Monitor} : rec'[q] = rec[q]
        /\ rec'[Monitor].acq = None
    BY SMT, <1>1, <1>3, <1>7, <2>1, RecFields DEF Watch, MonitorTick, MonitorRests, MonitorLoses, MonitorRestores,
                      MonitorRebuilds, MonitorFails, TypeOK, RecType
  <2>3. CASE MonitorLoses \/ MonitorFails
    <3>1. rec'[Monitor].pc = "idle" /\ mu = None /\ UNCHANGED <<actor, mu, op>>
      BY SMT, <1>1, <1>3, <2>3, RecFields DEF MonitorLoses, MonitorFails, Lose, TypeOK, RecType
    <3>2. CASE ready
      BY <2>1, <2>2, <2>3, <3>1, <3>2, UninstallHeld DEF MonitorLoses, MonitorFails, Lose
    <3>3. CASE ~ready
      BY <1>1, <2>1, <2>2, <2>3, <3>1, <3>3, RecHeld DEF MonitorLoses, MonitorFails, Lose, Holding
    <3> QED BY <3>2, <3>3
  <2>4. CASE MonitorTick \/ MonitorRests \/ MonitorRestores \/ MonitorRebuilds
    <3>1. rec'[Monitor].pc \in {"tick", "idle", "rebuild", "pick"}
      BY SMT, <1>1, <1>3, <2>4, RecFields DEF MonitorTick, MonitorRests, MonitorRestores, MonitorRebuilds, TypeOK, RecType
    <3>2. UNCHANGED <<forwards, pending, actor, mu, op>>
      BY <2>4 DEF MonitorTick, MonitorRests, MonitorRestores, MonitorRebuilds, plane
    <3> QED BY <1>1, <2>1, <2>2, <3>1, <3>2, RecHeld DEF Holding
  <2> QED BY <1>7, <2>3, <2>4 DEF Watch
<1> QED BY <1>2, <1>4, <1>5, <1>6, <1>7, CleanHeld, GoneHeld DEF Environment, Crash, BootFails

\* Every step keeps who holds what: no listener is lost and none is held twice.
LEMMA HeldKept ==
  ASSUME TypeOK, RowsAreFiled, VerdictsHold, Held, [Next]_vars
  PROVE  Held'
<1>1. CASE UNCHANGED vars
  BY <1>1, SameHeld DEF vars, plane
<1>2. CASE Reconcile
  BY <1>2, SnapshotHeld, ApplyHeld, ApplyAcquireHeld, ApplyInstallHeld DEF Reconcile
<1> QED BY <1>1, <1>2, StopHeld, RecoverHeld, EnvironmentHeld DEF Next

\* A listener of f is installed, or one that served waits for its release.
Live(f) == forwards[f] # None \/ \E a \in pending : actor[a].served /\ actor[a].f = f

\* A Forward serves exactly when it has a listener that is installed or not yet
\* released.
LEMMA ServingIsLive ==
  ASSUME TypeOK, PlaneAgrees, NEW f \in Forwards
  PROVE  Serving(f) <=> Live(f)
<1>1. \A a \in pending : a # None
  BY Disjoint DEF TypeOK
<1> QED BY SMT, <1>1 DEF Serving, Live, PlaneAgrees

\* The same after a step.
LEMMA ServingIsLiveNext ==
  ASSUME TypeOK', PlaneAgrees', NEW f \in Forwards
  PROVE  Serving(f)' <=> Live(f)'
<1>1. \A a \in pending' : a # None
  BY Disjoint DEF TypeOK
<1> QED BY SMT, <1>1 DEF Serving, Live, PlaneAgrees

\* The next step of the frame loop or of a recovery may install a listener of f.
Installs(f) ==
  \/ frame.pc = "install" /\ frame.s.f = f /\ ~Fenced(f)
  \/ \E r \in Recoverers : rec[r].pc = "publish" /\ rec[r].f = f

\* What a step may do to the listeners: the drain gets only what it had or what was
\* installed, and a listener enters the table only by an installation.
Effects ==
  /\ \A a \in pending' : actor'[a].served =>
       \/ a \in pending /\ actor[a].served /\ actor[a].f = actor'[a].f
       \/ \E f \in Forwards : forwards[f] = a /\ actor'[a].f = f
  /\ \A f \in Forwards : forwards'[f] # None => forwards'[f] = forwards[f] \/ Installs(f)

\* A step that leaves both tables alone has these effects.
LEMMA SameEffects ==
  ASSUME TypeOK, Held, UNCHANGED <<forwards, pending>>,
         \A a \in pending : actor'[a].served = actor[a].served /\ actor'[a].f = actor[a].f
  PROVE  Effects
BY DEF Effects

\* So has taking listeners out of service.
LEMMA UninstallEffects ==
  ASSUME TypeOK, Held, NEW F \in SUBSET Forwards, Uninstall(F), UNCHANGED actor
  PROVE  Effects
<1>1. /\ \A f \in Forwards : forwards'[f] = IF f \in F THEN None ELSE forwards[f]
      /\ \A a \in pending' : a \in pending \/ \E f \in F : forwards[f] = a /\ a # None
  BY DEF Uninstall
<1> QED BY SMT, <1>1 DEF Effects, Held, PlaneAgrees

\* So has abandoning a listener that never served.
LEMMA AbandonEffects ==
  ASSUME TypeOK, Held, NEW a, Abandon(a), ~actor[a].served, UNCHANGED <<forwards, actor>>
  PROVE  Effects
BY DEF Effects, Abandon

\* So has installing a listener.
LEMMA InstallEffects ==
  ASSUME TypeOK, Held, NEW a \in Actors, a \notin pending, NEW f \in Forwards, Install(f, a),
         Installs(f), UNCHANGED pending
  PROVE  Effects
<1>1. /\ \A g \in Forwards \ {f} : forwards'[g] = forwards[g]
      /\ \A b \in Actors \ {a} : actor'[b] = actor[b]
  BY DEF Install, TypeOK
<1>2. \A b \in pending : b \in Actors \ {a}
  BY DEF TypeOK
<1> QED BY <1>1, <1>2 DEF Effects

\* So has every step of the frame loop.
LEMMA ReconcileEffects ==
  ASSUME TypeOK, VerdictsHold, Held, Reconcile
  PROVE  Effects
<1>1. CASE UNCHANGED <<forwards, pending, actor>>
  BY <1>1, SameEffects
<1>2. ASSUME \/ \E d \in Snapshots : Receive(d) \/ Converge(d)
             \/ PutFences
             \/ \E s \in frame.left : DecideAbsent(s) \/ DecideRefused(s) \/ GuardApply(s)
             \/ ApplyBegin \/ ApplyFails \/ GuardCommit \/ Commit \/ CommitFails \/ UndoNewActors
      PROVE  UNCHANGED <<forwards, pending, actor>>
  BY <1>2 DEF Receive, Converge, PutFences, DecideAbsent, DecideRefused, GuardApply, ApplyBegin,
              ApplyFails, GuardCommit, Commit, CommitFails, UndoNewActors, plane
<1>3. ASSUME NEW a, NEW t, a = None \/ actor[a] # None, actor' = [actor EXCEPT ![a].target = t],
             UNCHANGED <<forwards, pending>>
      PROVE  Effects
  <2>1. \A b \in pending : actor'[b].served = actor[b].served /\ actor'[b].f = actor[b].f
    <3> SUFFICES ASSUME NEW b \in pending
                 PROVE  actor'[b].served = actor[b].served /\ actor'[b].f = actor[b].f
      OBVIOUS
    <3>1. b \in Actors /\ actor[b] \in ActorInfo
      BY SMT DEF TypeOK, Held, PlaneAgrees
    <3>2. actor'[b] = IF b = a THEN [actor[b] EXCEPT !.target = t] ELSE actor[b]
      BY <1>3, <3>1 DEF TypeOK
    <3> QED BY <3>1, <3>2 DEF ActorInfo
  <2> QED BY <1>3, <2>1, SameEffects
<1>4. CASE ApplyDecide
  <2>1. frame.s \in Specs /\ UNCHANGED <<forwards, pending>>
    BY <1>4, FrameFields DEF TypeOK, ApplyDecide, Held, FrameOwns
  <2>2. \/ UNCHANGED actor
        \/ actor' = [actor EXCEPT ![forwards[frame.s.f]].target = frame.s.target]
    BY <1>4 DEF ApplyDecide
  <2>3. forwards[frame.s.f] = None \/ actor[forwards[frame.s.f]] # None
    BY <2>1, SpecFields DEF Held, PlaneAgrees
  <2> QED BY <1>1, <1>3, <2>1, <2>2, <2>3
<1>5. ASSUME NEW f \in Forwards, UndoHotUpdate(f) PROVE Effects
  <2>1. UNCHANGED <<forwards, pending>>
    BY <1>5 DEF UndoHotUpdate
  <2>2. CASE forwards[f] = frame.hot[f]
    <3>1. forwards[f] # None /\ actor' = [actor EXCEPT ![forwards[f]].target = desired[f].target]
      BY <1>5, <2>2 DEF UndoHotUpdate
    <3>2. actor[forwards[f]] # None
      BY <3>1 DEF Held, PlaneAgrees
    <3> QED BY <1>3, <2>1, <3>1, <3>2
  <2>3. CASE forwards[f] # frame.hot[f]
    BY <1>1, <1>5, <2>1, <2>3 DEF UndoHotUpdate
  <2> QED BY <2>2, <2>3
<1>6. ASSUME NEW a \in Actors, ApplyAcquire(a) PROVE Effects
  <2>1. a \notin pending /\ UNCHANGED <<forwards, pending>> /\ Acquire(a, frame.s, frame.gen)
    BY <1>6 DEF ApplyAcquire, Acquire, InUse
  <2>2. \A b \in pending : actor'[b] = actor[b]
    BY <2>1 DEF Acquire, TypeOK
  <2> QED BY <2>1, <2>2, SameEffects
<1>7. CASE ApplyInstall
  <2>1. /\ frame.acq \in Actors /\ frame.acq \notin pending /\ ~actor[frame.acq].served
        /\ frame.s.f \in Forwards /\ frame.pc = "install"
    BY <1>7, FrameFields, SpecFields DEF ApplyInstall, Held, FrameOwns, TypeOK
  <2>2. \/ Abandon(frame.acq) /\ UNCHANGED <<forwards, actor>>
        \/ Install(frame.s.f, frame.acq) /\ UNCHANGED pending /\ ~Fenced(frame.s.f)
    BY <1>7 DEF ApplyInstall
  <2> QED BY <2>1, <2>2, AbandonEffects, InstallEffects DEF Installs
<1> QED BY <1>1, <1>2, <1>4, <1>5, <1>6, <1>7 DEF Reconcile

\* So has every step of a recovery.
LEMMA RecoverEffects ==
  ASSUME TypeOK, Held, NEW r \in Recoverers, Recover(r)
  PROVE  Effects
<1>1. ASSUME NEW f \in Forwards, RecSkip(r, f) \/ RecPick(r, f) PROVE UNCHANGED <<forwards, pending, actor>>
  BY <1>1 DEF RecSkip, RecPick, plane
<1>2. ASSUME RecBegin(r) \/ RecAcquireFails(r) \/ RecReplayFails(r) \/ RecEnd(r)
      PROVE  UNCHANGED <<forwards, pending, actor>>
  BY <1>2 DEF RecBegin, RecAcquireFails, RecReplayFails, RecEnd, plane
<1>3. ASSUME NEW a \in Actors, RecAcquire(r, a) PROVE Effects
  <2>1. a \notin pending /\ UNCHANGED <<forwards, pending>> /\ \E s, g : Acquire(a, s, g)
    BY <1>3 DEF RecAcquire, Acquire, InUse
  <2>2. \A b \in pending : actor'[b] = actor[b]
    BY <2>1 DEF Acquire, TypeOK
  <2> QED BY <2>1, <2>2, SameEffects
<1>4. ASSUME rec[r].pc \in Holding, Abandon(rec[r].acq), UNCHANGED <<forwards, actor>> PROVE Effects
  BY <1>4, RecHolds, AbandonEffects
<1>5. CASE RecFence(r) \/ RecLock(r) \/ RecCheck(r)
  <2>1. rec[r].pc \in Holding /\ UNCHANGED <<forwards, actor>>
    BY <1>5 DEF RecFence, RecLock, RecCheck, Holding
  <2>2. Abandon(rec[r].acq) \/ UNCHANGED pending
    BY <1>5 DEF RecFence, RecLock, RecCheck
  <2> QED BY <1>4, <2>1, <2>2, SameEffects
<1>6. CASE RecPublish(r)
  <2>1. rec[r].pc \in Holding /\ rec[r].pc = "publish"
    BY <1>6 DEF RecPublish, Holding
  <2>2. CASE Install(rec[r].f, rec[r].acq) /\ UNCHANGED pending
    BY <2>1, <2>2, RecHolds, InstallEffects DEF Installs
  <2> QED BY <1>4, <1>6, <2>1, <2>2 DEF RecPublish
<1> QED BY <1>1, <1>2, <1>3, <1>5, <1>6, SameEffects DEF Recover

\* So has every step.
LEMMA StepEffects ==
  ASSUME TypeOK, VerdictsHold, Held, [Next]_vars
  PROVE  Effects
<1>1. ASSUME UNCHANGED <<forwards, pending, actor>> PROVE Effects
  BY <1>1, SameEffects
<1>2. CASE UNCHANGED vars
  BY <1>1, <1>2 DEF vars, plane
<1>3. CASE StopForwards
  <2>1. ASSUME NEW f \in Forwards, Stop(f) PROVE Effects
    BY <2>1, UninstallEffects DEF Stop
  <2> QED BY <1>1, <1>3, <2>1 DEF StopForwards, StopReturns, StopFails, Complete, StopsOver, Report,
             Decommission, StopAll, plane
<1>4. CASE Environment
  <2>1. ASSUME NEW a \in Actors, Clean(a) PROVE Effects
    BY <2>1 DEF Clean, Effects, TypeOK
  <2>2. ASSUME ProcessGone PROVE Effects
    BY <2>2 DEF ProcessGone, Effects
  <2>3. ASSUME NEW f \in Forwards, RunError(f) PROVE Effects
    BY <2>3, UninstallEffects DEF RunError
  <2> QED BY <1>1, <1>4, <2>1, <2>2, <2>3 DEF Environment, NetChange, Crash, Boot, BootFails, plane
<1>5. CASE Watch
  <2>1. ASSUME Lose PROVE Effects
    BY <1>1, <2>1, UninstallEffects DEF Lose
  <2> QED BY <1>1, <1>5, <2>1 DEF Watch, MonitorTick, MonitorRests, MonitorLoses, MonitorRestores,
             MonitorRebuilds, MonitorFails, plane
<1>6. ASSUME NEW r \in Retries, Retry(r) PROVE Effects
  BY <1>1, <1>6 DEF Retry, plane
<1> QED BY <1>2, <1>3, <1>4, <1>5, <1>6, ReconcileEffects, RecoverEffects DEF Next

\* No recovery is about to publish a Forward whose deletion is complete.
Publications == \A r \in Recoverers : rec[r].pc = "publish" => ~Completed(rec[r].f)

\* A Forward that does not serve and that nothing installs does not serve after the
\* step.
LEMMA StaysQuiet ==
  ASSUME TypeOK, TypeOK', Effects, NEW f \in Forwards, ~Live(f), ~Installs(f)
  PROVE  ~Live(f)'
<1>1. forwards'[f] = None
  BY DEF Effects, Live
<1>2. ASSUME NEW a \in pending', actor'[a].served, actor'[a].f = f PROVE FALSE
  <2>1. a # None
    BY SMT, ConstantsAssumption DEF TypeOK
  <2> QED BY <1>2, <2>1 DEF Effects, Live
<1> QED BY <1>1, <1>2 DEF Live

\* No step brings a recovery to publish a completed deletion.
LEMMA PublicationsHold ==
  ASSUME TypeOK, DesiredAgrees, VerdictsHold, StopsHold, Held', [Next]_vars, TypeOK'
  PROVE  Publications'
<1> SUFFICES ASSUME NEW r \in Recoverers, NEW f, f = rec'[r].f, rec'[r].pc = "publish"
             PROVE  ~Completed(f)'
  BY DEF Publications, Completed
<1>1. f \in Forwards
  BY SMT DEF TypeOK, RecType, Held, RecoveryOwns, Owns, Holding
<1>2. ~Completed(f)
  BY RecSteps DEF StopsHold, Publications, Fenced, Completed
<1>3. frame.pc = "complete" /\ frame.f = f /\ frame.why = "delete" => ~(rec' = rec)
  BY DEF StopsHold, Publications
<1> QED BY <1>1, <1>2, <1>3, NewlyCompleted

\* A step that leaves the frame alone keeps what the frame's stops have reached.
LEMMA OthersStop ==
  ASSUME TypeOK, TypeOK', VerdictsHold, Held, Held', StopsHold, Effects, [Next]_vars, frame' = frame,
         Publications'
  PROVE  StopsHold'
<1>1. frame \in FrameType
  BY DEF TypeOK
<1>2. ASSUME frame.pc \in {"wait", "complete"}, frame.why # "undo"
      PROVE  /\ forwards'[frame.f] = None
             /\ \A a \in pending' : actor'[a].served /\ actor'[a].f = frame.f => a \in frame.wait
             /\ \A r \in Recoverers : rec'[r].pc = "publish" => rec'[r].f # frame.f
  <2>1. frame.f \in Forwards /\ frame.f \in frame.todo /\ frame.why \in {"delete", "terminal"}
    BY <1>1, <1>2, FrameFields DEF VerdictsHold, FrameInStep, Stopping
  <2>2. forwards[frame.f] = None /\ ~Installs(frame.f)
    BY <1>2 DEF StopsHold, Publications, Installs
  <2>3. forwards'[frame.f] = None
    BY <2>1, <2>2 DEF Effects
  <2>4. ASSUME NEW a \in pending', actor'[a].served, actor'[a].f = frame.f PROVE a \in frame.wait
    <3>1. a # None
      BY SMT, ConstantsAssumption DEF TypeOK
    <3> QED BY SMT, <1>2, <2>2, <2>4, <3>1 DEF Effects, StopsHold
  <2>5. ASSUME NEW r \in Recoverers, rec'[r].pc = "publish" PROVE rec'[r].f # frame.f
    <3>1. CASE rec'[r] = rec[r]
      BY <1>2, <2>5, <3>1 DEF StopsHold, Publications
    <3>2. CASE rec[r].pc = "check" /\ rec'[r].f = rec[r].f /\ ~Fenced(rec[r].f)
      <4>1. frame.why = "delete" => Fenced(frame.f)
        BY <1>2, <2>1 DEF VerdictsHold, DeletionsHold, Stopping, Fenced
      <4>2. frame.why # "terminal"
        BY <1>2, <3>2 DEF StopsHold, Publications, Stopping
      <4> QED BY <2>1, <3>2, <4>1, <4>2
    <3> QED BY <2>5, <3>1, <3>2, RecSteps
  <2> QED BY <2>3, <2>4, <2>5
<1>3. ASSUME frame.pc = "terminal" \/ (frame.pc \in Stopping /\ frame.why = "terminal")
      PROVE  /\ latch' /\ \A r \in Recoverers : rec'[r].pc \notin {"check", "publish"}
             /\ ~frame.failed => \A f \in Forwards \ frame.todo : ~Serving(f)'
  <2>1. latch /\ \A r \in Recoverers : rec[r].pc \notin {"check", "publish"}
    BY <1>3 DEF StopsHold, Publications
  <2>2. latch' /\ \A r \in Recoverers : rec'[r].pc \notin {"check", "publish"}
    <3>1. Monitor \in Recoverers
      BY DEF Recoverers
    <3> QED BY <2>1, <3>1, RecSteps
  <2>3. ASSUME ~frame.failed, NEW f \in Forwards \ frame.todo PROVE ~Serving(f)'
    <3>1. ~Live(f)
      BY <1>3, <2>3, ServingIsLive DEF StopsHold, Publications, Held
    <3>2. ~Installs(f)
      BY <1>3, <2>1 DEF Installs, Stopping
    <3> QED BY <3>1, <3>2, StaysQuiet, ServingIsLiveNext DEF Held
  <2> QED BY <2>2, <2>3
<1>4. frame.pc = "stopall" => latch'
  <2>1. Monitor \in Recoverers
    BY DEF Recoverers
  <2> QED BY <2>1, RecSteps DEF StopsHold, Publications
<1>5. /\ frame.pc = "complete" => frame.wait = {}
      /\ frame.pc = "terminal" => frame.todo = {} /\ ~frame.failed
  BY DEF StopsHold, Publications
<1> QED BY <1>2, <1>3, <1>4, <1>5 DEF StopsHold, Publications

\* The frame loop's own stop steps keep it.
LEMMA LoopStops ==
  ASSUME TypeOK, TypeOK', VerdictsHold, Held, Held', StopsHold, Effects, StopForwards,
         Publications'
  PROVE  StopsHold'
<1>1. frame \in FrameType /\ rec' = rec
  BY DEF TypeOK, StopForwards, Stop, StopReturns, StopFails, Complete, StopsOver, Report,
     Decommission, StopAll
<1>2. mu = None => \A r \in Recoverers : rec[r].pc \notin {"check", "publish"}
  BY SMT, ConstantsAssumption DEF Held, PlaneAgrees
<1>3. ASSUME frame'.pc \notin Stopping \cup {"stopall", "terminal"} PROVE StopsHold'
  BY <1>3 DEF StopsHold, Publications, Stopping
<1>4. ASSUME NEW f \in Forwards, ~Live(f), frame.pc \in Stopping \cup {"stopall"},
             \A r \in Recoverers : rec[r].pc # "publish"
      PROVE  ~Serving(f)'
  <2>1. ~Installs(f)
    BY <1>4 DEF Installs, Stopping
  <2> QED BY <1>4, <2>1, StaysQuiet, ServingIsLiveNext DEF Held
<1>5. ASSUME frame'.pc = "stop", frame'.why # "terminal" PROVE StopsHold'
  BY <1>5 DEF StopsHold, Publications
<1>6. ASSUME frame.pc \in Stopping, frame.why = "terminal"
      PROVE  /\ latch /\ \A r \in Recoverers : rec[r].pc \notin {"check", "publish"}
             /\ ~frame.failed => \A f \in Forwards \ frame.todo : ~Live(f)
  BY <1>6, ServingIsLive DEF StopsHold, Publications, Held
<1>7. ASSUME NEW f \in Forwards, Stop(f) PROVE StopsHold'
  <2>1. /\ frame'.pc = "wait" /\ frame'.f = f /\ frame'.why = frame.why /\ frame'.todo = frame.todo
        /\ frame'.failed = frame.failed /\ frame'.wait = {a \in pending' : actor[a].f = f}
        /\ UNCHANGED <<actor, latch>> /\ forwards'[f] = None /\ mu = None /\ frame.pc = "stop"
    BY <1>1, <1>7 DEF Stop, FrameType, Uninstall
  <2>2. frame.why = "terminal" /\ ~frame.failed => \A g \in Forwards \ frame.todo : ~Serving(g)'
    BY <1>4, <1>6, <2>1 DEF Stopping
  <2> QED BY <1>1, <1>2, <1>6, <2>1, <2>2 DEF StopsHold, Publications, Stopping
<1>8. CASE StopReturns
  <2>1. frame.pc = "wait" /\ frame.wait \cap pending = {} /\ UNCHANGED <<forwards, pending, actor, latch>>
    BY <1>8 DEF StopReturns, plane
  <2>2. CASE frame.why = "delete"
    <3>1. /\ frame'.pc = "complete" /\ frame'.wait = {} /\ frame'.f = frame.f
          /\ frame'.why = frame.why
      BY <1>1, <1>8, <2>2 DEF StopReturns, FrameType
    <3> QED BY <1>1, <2>1, <2>2, <3>1 DEF StopsHold, Publications, Stopping
  <2>3. CASE frame.why = "terminal"
    <3>1. /\ frame'.pc = "stop" /\ frame'.todo = frame.todo \ {frame.f}
          /\ frame'.why = frame.why /\ frame'.failed = frame.failed
      BY <1>1, <1>8, <2>3, StoppedFields DEF StopReturns
    <3>2. frame.f \in Forwards => ~Live(frame.f)
      BY <2>1, <2>3 DEF StopsHold, Publications, Live
    <3>3. ~frame.failed => \A g \in Forwards \ frame'.todo : ~Serving(g)'
      BY SMT, <1>4, <1>6, <2>1, <2>3, <3>1, <3>2 DEF Stopping
    <3> QED BY SMT, <1>1, <1>6, <2>1, <2>3, <3>1, <3>3 DEF StopsHold, Publications, Stopping
  <2>4. CASE frame.why \notin {"delete", "terminal"}
    BY SMT, <1>1, <1>5, <1>8, <2>4, StoppedFields DEF StopReturns
  <2> QED BY <2>2, <2>3, <2>4
<1>9. CASE StopFails
  <2>1. /\ frame'.pc = "stop" /\ frame'.why = frame.why /\ frame'.failed = TRUE
        /\ UNCHANGED latch /\ frame.pc = "wait"
    BY <1>1, <1>9 DEF StopFails, Stopped, FrameType
  <2> QED BY <1>1, <1>6, <2>1 DEF StopsHold, Publications, Stopping
<1>10. CASE Complete
  <2>1. frame'.pc = "stop" /\ frame'.why = "delete"
    BY <1>1, <1>10 DEF Complete, Stopped, FrameType, VerdictsHold, FrameInStep
  <2> QED BY <1>5, <2>1
<1>11. CASE StopsOver
  <2>1. UNCHANGED <<latch, forwards, pending, actor>> /\ frame.pc = "stop" /\ frame.todo = {}
    BY <1>11 DEF StopsOver, plane
  <2>2. CASE frame.why = "delete"
    <3>1. frame'.pc = "report" /\ frame'.why = "delete"
      BY <1>1, <1>11, <2>2 DEF StopsOver, FrameType
    <3> QED BY <1>1, <3>1 DEF StopsHold, Publications
  <2>3. CASE frame.why = "terminal" /\ ~frame.failed
    <3>1. frame'.pc = "terminal" /\ frame'.todo = {} /\ frame'.failed = FALSE
      BY <1>11, <2>3 DEF StopsOver, IdleFrame
    <3>2. \A g \in Forwards : ~Serving(g)'
      BY <1>4, <1>6, <2>1, <2>3 DEF Stopping
    <3> QED BY SMT, <1>1, <1>6, <2>1, <2>3, <3>1, <3>2 DEF StopsHold, Publications, Stopping
  <2>4. CASE frame.why # "delete" /\ ~(frame.why = "terminal" /\ ~frame.failed)
    BY <1>3, <1>11, <2>4, IdleFields DEF StopsOver, Stopping
  <2> QED BY <2>2, <2>3, <2>4
<1>12. CASE Report
  BY <1>3, <1>12, IdleFields DEF Report, Stopping
<1>13. CASE Decommission
  <2>1. frame'.pc = "stopall" /\ latch' = TRUE
    BY <1>13 DEF Decommission, IdleFrame
  <2> QED BY <1>1, <2>1 DEF StopsHold, Publications, Stopping
<1>14. CASE StopAll
  <2>1. /\ frame'.pc = "stop" /\ frame'.why = "terminal" /\ latch /\ UNCHANGED latch /\ mu = None
        /\ frame'.todo = {f \in Forwards : forwards[f] # None \/ PendingOf(f) # {}}
        /\ frame.pc = "stopall"
    BY <1>1, <1>14 DEF StopAll, FrameType, StopsHold
  <2>2. \A f \in Forwards \ frame'.todo : ~Live(f)
    BY <2>1 DEF Live, PendingOf
  <2>3. \A f \in Forwards \ frame'.todo : ~Serving(f)'
    BY <1>2, <1>4, <2>1, <2>2
  <2> QED BY SMT, <1>1, <1>2, <2>1, <2>3 DEF StopsHold, Publications, Stopping
<1> QED BY SMT, <1>7, <1>8, <1>9, <1>10, <1>11, <1>12, <1>13, <1>14 DEF StopForwards

\* Every step keeps what the stops have reached.
LEMMA StopsKept ==
  ASSUME TypeOK, TypeOK', DesiredAgrees, VerdictsHold, Held, Held', StopsHold, [Next]_vars
  PROVE  StopsHold'
<1>1. Publications'
  BY PublicationsHold
<1>2. Effects
  BY StepEffects
<1>3. ASSUME frame'.pc \notin {"wait", "complete", "stopall", "terminal"},
             frame'.pc \in Stopping => frame'.why # "terminal"
      PROVE  StopsHold'
  BY <1>1, <1>3 DEF StopsHold, Publications
<1>4. FrameOwns
  BY DEF Held
<1>5. CASE frame'.pc \notin Stopping \cup {"stopall", "terminal"}
  BY <1>3, <1>5 DEF Stopping
<1>6. CASE frame'.pc = "stop" /\ frame'.why # "terminal"
  BY <1>3, <1>6
<1> QED BY SMT, <1>1, <1>2, <1>4, <1>5, <1>6, FrameSteps, OthersStop, LoopStops

\* No step makes a completely deleted Forward serve, the completing step included.
LEMMA DeadKept ==
  ASSUME TypeOK, TypeOK', DesiredAgrees, VerdictsHold, Held, Held', StopsHold, [Next]_vars,
         NEW f \in Forwards, Completed(f) => ~Serving(f), Completed(f)'
  PROVE  ~Serving(f)'
<1>1. Effects
  BY StepEffects
<1>2. CASE Completed(f)
  <2>1. ~Live(f)
    BY <1>2, ServingIsLive DEF Held
  <2>2. ~Installs(f)
    BY <1>2 DEF Installs, StopsHold, Completed, Fenced
  <2> QED BY <1>1, <2>1, <2>2, StaysQuiet, ServingIsLiveNext DEF Held
<1>3. CASE ~Completed(f)
  <2>1. /\ frame.pc = "complete" /\ frame.why = "delete" /\ frame.f = f
        /\ UNCHANGED <<forwards, pending, actor>>
    BY <1>3, NewlyCompleted
  <2>2. ~Live(f)
    BY <2>1 DEF StopsHold, Publications, Live
  <2>3. ~Live(f)'
    BY <2>1, <2>2 DEF Live
  <2> QED BY <2>3, ServingIsLiveNext DEF Held
<1> QED BY <1>2, <1>3

\* The conjuncts that are inductive imply the ones that are not.
LEMMA InvImplied ==
  ASSUME TypeOK, DesiredAgrees, VerdictsHold, Held, StopsHold
  PROVE  /\ ReportIsTrue /\ TerminalIsQuiet /\ InstallUncontested
         /\ \A f \in Forwards : Completed(f) => applied[f] = None
<1>1. ReportIsTrue
  BY FrameFields DEF ReportIsTrue, VerdictsHold, FrameInStep, DeletionsHold, Stopping, TypeOK
<1>2. TerminalIsQuiet
  BY DEF TerminalIsQuiet, StopsHold
<1> QED BY <1>1, <1>2 DEF InstallUncontested, Held, FrameOwns, DesiredAgrees, Completed

\* The same after a step.
LEMMA InvImpliedNext ==
  ASSUME TypeOK', DesiredAgrees', VerdictsHold', Held', StopsHold'
  PROVE  /\ ReportIsTrue' /\ TerminalIsQuiet' /\ InstallUncontested'
         /\ \A f \in Forwards : Completed(f)' => applied'[f] = None
<1>1. ReportIsTrue'
  <2> SUFFICES ASSUME frame'.pc = "report", NEW s \in frame'.d, frame'.out[s.f] \in {"deleted", "gone"}
               PROVE  Completed(s.f)' /\ tomb'[s.f] = Identity(s)
    BY DEF ReportIsTrue, Identity
  <2>1. frame'.why = "delete" /\ frame'.todo = {}
    BY DEF VerdictsHold, FrameInStep
  <2> QED BY <2>1 DEF VerdictsHold, DeletionsHold, Stopping, Identity
<1>2. TerminalIsQuiet'
  BY DEF TerminalIsQuiet, StopsHold
<1>3. \A f \in Forwards : Completed(f)' => applied'[f] = None
  BY DEF DesiredAgrees, Completed
<1> QED BY <1>1, <1>2, <1>3 DEF InstallUncontested, Held, FrameOwns

\* The invariant holds when the agent starts with an empty store.
LEMMA InvStarts == Init => ForwardInv
<1> SUFFICES ASSUME Init PROVE ForwardInv
  OBVIOUS
<1>1. TypeOK
  <2>1. frame \in FrameType
    BY SMT, IdleTyped DEF Init, FrameType, FramePCs
  <2>2. rec \in [Recoverers -> RecType]
    BY DEF Init, IdleRec, RecType, RecPCs
  <2>3. gen \in Generations
    BY DEF Init, Generations
  <2>4. /\ desired \in [Forwards -> Specs \cup {None}] /\ applied \in [Forwards -> Presents \cup {None}]
        /\ intent \in [Forwards -> Identities \cup {None}] /\ tomb \in [Forwards -> Identities \cup {None}]
    BY DEF Init
  <2> QED BY <2>1, <2>2, <2>3, <2>4 DEF Init, TypeOK
<1>2. /\ frame.pc = "down" /\ frame.d = {} /\ frame.left = {} /\ frame.acq = None
      /\ \A f \in Forwards : frame.hot[f] = None
      /\ \A r \in Recoverers : rec[r].pc = "idle" /\ rec[r].acq = None /\ \A f \in Forwards : rec[r].list[f] = None
  BY DEF Init, IdleFrame, IdleRec
<1>3. DesiredAgrees /\ RowsAreFiled
  BY <1>2 DEF Init, DesiredAgrees, RowsAreFiled
<1>4. VerdictsHold
  BY <1>2 DEF VerdictsHold, FrameInStep, DecisionsHold, DeletionsHold, Applying, Stopping, Valid
<1>5. Held
  <2>1. PlaneAgrees
    BY <1>2, ConstantsAssumption DEF Init, PlaneAgrees
  <2> QED BY <1>2, <2>1 DEF Init, Held, FrameOwns, RecoveryOwns, Owns, NothingLeaks, Holding
<1>6. StopsHold
  BY <1>2 DEF StopsHold, Stopping
<1>7. \A f \in Forwards : ~Completed(f)
  BY DEF Init, Completed
<1> QED BY <1>1, <1>3, <1>4, <1>5, <1>6, <1>7, InvImplied DEF ForwardInv, TablesAgree, Held, DeletedStaysDead

\* Every step of the frame loop, the monitor, the retries and the process keeps the
\* invariant.
LEMMA InvKept ==
  ASSUME ForwardInv, [Next]_vars
  PROVE  ForwardInv'
<1>1. /\ TypeOK /\ DesiredAgrees /\ RowsAreFiled /\ VerdictsHold /\ Held /\ StopsHold
      /\ \A f \in Forwards : Completed(f) => ~Serving(f)
  BY DEF ForwardInv, TablesAgree, Held, DeletedStaysDead
<1>2. TypeOK'
  BY <1>1, TypesKept DEF Held
<1>3. DesiredAgrees' /\ RowsAreFiled' /\ VerdictsHold'
  BY <1>1, TablesKept DEF Held
<1>4. Held'
  BY <1>1, HeldKept
<1>5. StopsHold'
  BY <1>1, <1>2, <1>4, StopsKept
<1>6. \A f \in Forwards : Completed(f)' => ~Serving(f)'
  BY <1>1, <1>2, <1>4, DeadKept
<1>7. DeletedStaysDead'
  BY <1>2, <1>3, <1>4, <1>5, <1>6, InvImpliedNext DEF DeletedStaysDead
<1> QED BY <1>2, <1>3, <1>4, <1>5, <1>7, InvImpliedNext DEF ForwardInv, TablesAgree, Held

\* Store, reconciler and data plane agree whatever the order of snapshots, recoveries,
\* retries, losses of the network and crashes: a Forward whose deletion is complete
\* never serves again, a terminal Agent serves nothing, no listener is lost or held
\* twice, and apply never finds its place taken (ApplyDesiredWithGuardAndRollback,
\* StopForward, reopenOne, addCleanupPendingLocked).
THEOREM ForwardSafe == Spec => []ForwardInv
BY InvStarts, InvKept, PTL DEF Spec

\* A Forward whose deletion is complete has no applied row and serves nobody, however
\* late a recovery or an acquisition of it comes back.
THEOREM DeletionIsFinal == Spec => []DeletedStaysDead
<1>1. ForwardInv => DeletedStaysDead
  BY DEF ForwardInv
<1> QED BY <1>1, ForwardSafe, PTL

\* After Terminal returned, no Forward of the agent is served.
THEOREM TerminalLeavesNothing == Spec => []TerminalIsQuiet
<1>1. ForwardInv => TerminalIsQuiet
  BY DEF ForwardInv
<1> QED BY <1>1, ForwardSafe, PTL

\* Every listener or mapping that exists has someone who will close it, over failed
\* acquisitions, rollbacks and lost capabilities.
THEOREM EveryActorIsOwned == Spec => []NothingLeaks
<1>1. ForwardInv => NothingLeaks
  BY DEF ForwardInv
<1> QED BY <1>1, ForwardSafe, PTL

\* The slot an acquisition is made for is still empty when it is installed, although
\* the lock is dropped between the two.
THEOREM SlotStaysFree == Spec => []InstallUncontested
<1>1. ForwardInv => InstallUncontested
  BY DEF ForwardInv
<1> QED BY <1>1, ForwardSafe, PTL

\* The revision a Forward serves, as ForwardContract counts it.
Rev(f) == IF applied[f] = None THEN 0 ELSE applied[f].rev

\* What ForwardContract lets a step do to one Forward.
ContractStep(f) ==
  \/ Rev(f)' = Rev(f) /\ Fate(f)' = Fate(f) /\ (Fate(f) = "gone" => ~Serving(f)')
  \/ Fate(f) = "live" /\ Fate(f)' = "live" /\ Rev(f)' \in Revisions /\ Rev(f)' >= Rev(f)
  \/ Fate(f) = "live" /\ Fate(f)' = "deleted" /\ Rev(f)' = 0
  \/ Fate(f) = "deleted" /\ Fate(f)' = "gone" /\ Rev(f)' = 0 /\ ~Serving(f)'

\* The commit is a step of the contract for every Forward.
LEMMA CommitImplements ==
  ASSUME TypeOK, DesiredAgrees, VerdictsHold, Commit, NEW f \in Forwards,
         Completed(f)' => ~Serving(f)', Completed(f) => Completed(f)'
  PROVE  ContractStep(f)
<1>1. intent' = intent
  BY DEF Commit
<1>2. CASE frame.out[f] \notin {"applied", "deleted"}
  <2>1. applied'[f] = applied[f] /\ tomb'[f] = tomb[f]
    BY <1>2 DEF Commit
  <2> QED BY <1>1, <2>1 DEF ContractStep, Rev, Fate, Completed
<1>3. CASE frame.out[f] \in {"applied", "deleted"}
  <2>1. PICK c \in frame.d : c.f = f
    BY <1>3, VerdictSpec DEF Commit
  <2>2. /\ c \in Specs /\ Fits(c, frame.out[f]) /\ ~OutcomeConflicts(c, frame.out[f])
        /\ frame.out[f] = "applied" => applied'[f] = c
        /\ frame.out[f] = "deleted" => applied'[f] = None
        /\ tomb'[f] = IF frame.out[f] = "deleted" THEN Identity(c) ELSE tomb[f]
    BY <2>1, CommitRow
  <2>3. CASE frame.out[f] = "applied"
    <3>1. tomb[f] = None /\ tomb'[f] = None
      BY <2>1, <2>2, <2>3 DEF OutcomeConflicts, Fenced
    <3>2. Rev(f)' = c.rev /\ c.rev \in Revisions /\ c.rev \in Nat
      BY <2>2, <2>3, SpecFields, ConstantsAssumption DEF Rev
    <3>3. Rev(f) \in Nat /\ c.rev >= Rev(f)
      <4>1. applied[f] = None \/ applied[f].rev \in Nat
        BY ConstantsAssumption DEF TypeOK, Presents
      <4>2. applied[f] = None \/ ~(applied[f].rev >= c.rev) \/ applied[f] = c
        BY <2>1, <2>2, <2>3 DEF OutcomeConflicts
      <4> QED BY SMT, <3>2, <4>1, <4>2 DEF Rev
    <3> QED BY <3>1, <3>2, <3>3 DEF ContractStep, Fate
  <2>4. CASE frame.out[f] = "deleted"
    <3>1. ~c.present /\ intent[f] # None
      BY <2>1, <2>2, <2>4 DEF Fits
    <3>2. tomb'[f] # None /\ applied'[f] = None
      BY SMT, <2>2, <2>4, <3>1, SpecFields, ConstantsAssumption
    <3>3. tomb[f] # None => applied[f] = None
      BY DEF DesiredAgrees
    <3> QED BY <1>1, <3>1, <3>2, <3>3 DEF ContractStep, Fate, Rev
  <2> QED BY <1>3, <2>3, <2>4
<1> QED BY <1>2, <1>3

\* So is every step, or it leaves the Forward as it was.
LEMMA StepImplements ==
  ASSUME ForwardInv, ForwardInv', [Next]_vars, NEW f \in Forwards
  PROVE  ContractStep(f)
<1>1. TypeOK /\ DesiredAgrees /\ VerdictsHold
  BY DEF ForwardInv, TablesAgree
<1>2. Completed(f)' => ~Serving(f)'
  BY DEF ForwardInv, DeletedStaysDead
<1>3. (Completed(f) => Completed(f)') /\ (tomb[f] # None => applied[f] = None)
  BY <1>1, NewlyCompleted DEF DesiredAgrees
<1>4. CASE Commit
  BY <1>1, <1>2, <1>3, <1>4, CommitImplements
<1>5. CASE ~Commit
  <2>1. UNCHANGED <<applied, tomb>>
    BY <1>5, StoreKept DEF PutFences, Receive, Converge, Complete, store
  <2> QED BY <1>2, <1>3, <2>1 DEF ContractStep, Fate, Rev, Completed
<1> QED BY <1>4, <1>5

\* A step of the agent is a step of the contract.
LEMMA MappedNext ==
  ASSUME ForwardInv, ForwardInv', [Next]_vars
  PROVE  Contract!Next
<1>1. \A f \in Forwards : Rev(f)' \in Revisions \cup {0} /\ Fate(f)' \in {"live", "deleted", "gone"}
                          /\ Serving(f)' \in BOOLEAN
  BY DEF ForwardInv, TablesAgree, TypeOK, Rev, Presents, Fate, Serving
<1>2. \A f \in Forwards : ContractStep(f)
  BY StepImplements
<1> QED BY SMT, <1>1, <1>2 DEF Contract!Next, Contract!Rest, Contract!Serve, Contract!Delete,
           Contract!Finish, ContractStep, Rev

\* The agent's start is a start of the contract.
LEMMA MappedInit == Init => Contract!Init
<1> SUFFICES ASSUME Init PROVE Contract!Init
  OBVIOUS
<1>1. \A f \in Forwards : applied[f] = None /\ Fate(f) = "live"
  BY DEF Init, Fate
<1>2. ASSUME NEW f \in Forwards PROVE Serving(f) = FALSE
  BY DEF Init, Serving
<1> QED BY <1>1, <1>2 DEF Contract!Init

\* Seen from the Controller, every behaviour of the agent is one of ForwardContract:
\* revisions of a live Forward never go back, a deletion is committed before it is
\* complete, and a complete one is final and silent.
THEOREM ForwardImplements == Spec => ImplementsContract
<1>1. ForwardInv /\ ForwardInv' /\ [Next]_vars =>
        [Contract!Next]_<<[f \in Forwards |-> IF applied[f] = None THEN 0 ELSE applied[f].rev],
                          [f \in Forwards |-> Fate(f)], [f \in Forwards |-> Serving(f)]>>
  BY MappedNext
<1> QED BY <1>1, MappedInit, ForwardSafe, PTL DEF Spec, ImplementsContract, Contract!Spec
=============================================================================
