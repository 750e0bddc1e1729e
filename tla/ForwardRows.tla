---------------------------- MODULE ForwardRows -----------------------------
(* The types of ForwardLifecycle are kept by every step, what its record updates
   leave alone, and what one step may do to the frame and to a recovery.  Then the
   store's side of ForwardInv: the rows of a Forward, the lists the recoveries read
   from them and the outcomes of the frame stay in agreement. *)
EXTENDS ForwardLifecycle, TLAPS

\* The provers' default; a leaf that needs arithmetic or records names SMT.
USE Zenon

\* The fields of the reconciliation frame, each with its set.
LEMMA FrameFields ==
  ASSUME frame \in FrameType
  PROVE  /\ frame.pc \in FramePCs /\ frame.why \in {"none", "delete", "undo", "terminal"}
         /\ frame.d \in SUBSET Specs /\ frame.left \in SUBSET Specs
         /\ frame.s \in Specs \cup {None} /\ frame.out \in [Forwards -> Outcomes]
         /\ frame.gen \in Generations \cup {None} /\ frame.acq \in Actors \cup {None}
         /\ frame.hot \in [Forwards -> Actors \cup {None}] /\ frame.new \in SUBSET Forwards
         /\ frame.todo \in SUBSET Forwards /\ frame.f \in Forwards \cup {None}
         /\ frame.wait \in SUBSET Actors /\ frame.failed \in BOOLEAN
BY DEF FrameType

\* The frame between two snapshots is a frame.
LEMMA IdleTyped == IdleFrame \in FrameType
BY DEF IdleFrame, FrameType, FramePCs, Outcomes

\* The frame of a snapshot that has just come in is a frame.
LEMMA ReceivedTyped ==
  ASSUME NEW d \in SUBSET Specs
  PROVE  [IdleFrame EXCEPT !.pc = "fence", !.d = d] \in FrameType
BY DEF IdleFrame, FrameType, FramePCs, Outcomes

\* Recording one Forward's outcome leaves a frame.
LEMMA DecidedTyped ==
  ASSUME frame \in FrameType, NEW s \in Specs, NEW o \in Outcomes
  PROVE  Decided(s, o) \in FrameType
<1>1. s.f \in Forwards
  BY DEF Specs, Presents, Absents
<1>2. [frame.out EXCEPT ![s.f] = o] \in [Forwards -> Outcomes]
  BY <1>1, FrameFields
<1> QED BY <1>1, <1>2, FrameFields DEF Decided, FrameType, FramePCs

\* Going on to the next Forward to stop leaves a frame.
LEMMA StoppedTyped ==
  ASSUME frame \in FrameType
  PROVE  Stopped \in FrameType
BY FrameFields DEF Stopped, FrameType, FramePCs

\* The fields of a desired Forward; an absent one names an identity to delete.
LEMMA SpecFields ==
  ASSUME NEW s \in Specs
  PROVE  /\ s # None /\ s.f \in Forwards /\ s.present \in BOOLEAN
         /\ s.rev \in Revisions /\ s.target \in Targets /\ s.shape \in Shapes
         /\ s.present => s \in Presents
         /\ ~s.present => s \in Absents /\ Identity(s) \in Identities
BY ConstantsAssumption DEF Specs, Presents, Absents, Identity, Identities

\* Filing deletion intents for absent Forwards keeps the intent table typed.
LEMMA IntentsTyped ==
  ASSUME TypeOK, NEW S \in SUBSET Specs, \A s \in S : ~s.present
  PROVE  WithIntents(S) \in [Forwards -> Identities \cup {None}]
<1>1. ASSUME NEW f \in Forwards, \E s \in S : s.f = f
      PROVE  Identity(CHOOSE s \in S : s.f = f) \in Identities
  BY <1>1, SpecFields
<1> QED BY <1>1 DEF WithIntents, TypeOK

\* Merging a desired Forward with its stored row gives a row of the same Forward.
LEMMA MergedTyped ==
  ASSUME TypeOK, NEW s \in Specs
  PROVE  Merged(s) \in Specs /\ Merged(s).f \in {s.f, desired[s.f].f}
<1>1. /\ s.f \in Forwards
      /\ desired[s.f] \in Specs \cup {None}
      /\ FenceIdentity(s.f) \in Identities \cup {None}
      /\ Fenced(s.f) => FenceIdentity(s.f) \in Identities
  BY SpecFields DEF TypeOK, FenceIdentity, Fenced
<1>2. CASE Fenced(s.f)
  <2>1. FenceIdentity(s.f).op \in Deletions /\ FenceIdentity(s.f).rev \in Revisions
    BY <1>1, <1>2 DEF Identities
  <2> DEFINE m == [s EXCEPT !.present = FALSE, !.op = FenceIdentity(s.f).op,
                            !.rev = FenceIdentity(s.f).rev]
  <2>2. m \in Absents /\ m.f = s.f
    BY <2>1, SpecFields DEF Specs, Presents, Absents
  <2>3. Merged(s) \in {s, desired[s.f], m} /\ (Merged(s) = desired[s.f] => desired[s.f] # None \/ Merged(s) # None)
    <3> HIDE DEF m
    <3>1. s.present \in BOOLEAN
      BY SpecFields
    <3>2. CASE ~s.present
      BY <3>2, <1>2, SpecFields DEF Merged
    <3>3. CASE s.present
      <4>1. CASE desired[s.f] # None /\ ~desired[s.f].present
        BY <3>3, <4>1, <1>2 DEF Merged
      <4>2. CASE ~(desired[s.f] # None /\ ~desired[s.f].present)
        <5>1. Merged(s) = m
          BY <3>3, <4>2, <1>2 DEF Merged, m
        <5> QED BY <5>1, <2>2, ConstantsAssumption DEF Specs
      <4> QED BY <4>1, <4>2
    <3> QED BY <3>1, <3>2, <3>3
  <2> HIDE DEF m
  <2> QED BY SMT, <1>1, <2>2, <2>3, SpecFields, ConstantsAssumption DEF Specs
<1>3. CASE ~Fenced(s.f)
  BY <1>1, <1>3, SpecFields DEF Merged
<1> QED BY <1>2, <1>3

\* A valid snapshot has at most one row per Forward, so the row looked up is the row.
LEMMA ChooseSpec ==
  ASSUME NEW d \in SUBSET Specs, Valid(d), NEW s \in d
  PROVE  (CHOOSE t \in d : t.f = s.f) = s
BY DEF Valid

\* Whether or not the intents of a snapshot are written, the intent table stays typed.
LEMMA FenceTyped ==
  ASSUME TypeOK, NEW d \in SUBSET Specs,
         intent' \in {intent, WithIntents(AbsentIn(d))}
  PROVE  intent' \in [Forwards -> Identities \cup {None}]
<1>1. WithIntents(AbsentIn(d)) \in [Forwards -> Identities \cup {None}]
  BY IntentsTyped DEF AbsentIn
<1> QED BY <1>1 DEF TypeOK

\* Receiving, converging and fencing a snapshot keep the types.
LEMMA ReceiveType ==
  ASSUME TypeOK, \/ \E d \in Snapshots : Receive(d) \/ Converge(d)
                 \/ PutFences
  PROVE  TypeOK'
<1> USE IdleTyped, FrameFields
<1>1. CASE PutFences
  <2>1. frame \in FrameType
    BY DEF TypeOK
  <2>2. frame' \in FrameType
    <3>1. [frame EXCEPT !.pc = "spec", !.left = frame.d] \in FrameType
      BY <2>1 DEF FrameType, FramePCs
    <3> QED BY <1>1, <3>1 DEF PutFences
  <2>3. intent' \in [Forwards -> Identities \cup {None}]
    BY <1>1, <2>1, FenceTyped DEF PutFences
  <2> QED BY <1>1, <2>2, <2>3 DEF PutFences, TypeOK, plane, route
<1>2. ASSUME NEW d \in Snapshots, Receive(d) \/ Converge(d) PROVE TypeOK'
  <2>1. d \in SUBSET Specs /\ AbsentIn(d) \in SUBSET Specs
    BY ConstantsAssumption DEF AbsentIn
  <2>2. frame' \in FrameType
    <3>1. PICK e \in SUBSET Specs : frame' = [IdleFrame EXCEPT !.pc = "fence", !.d = e]
      BY <1>2, <2>1 DEF Receive, Converge
    <3> QED BY <3>1, ReceivedTyped
  <2>3. intent' \in [Forwards -> Identities \cup {None}]
    BY <1>2, <2>1, FenceTyped DEF Receive, Converge
  <2> QED BY <1>2, <2>2, <2>3 DEF Receive, Converge, TypeOK, plane, route
<1> QED BY <1>1, <1>2

\* Deciding a Forward, starting or failing an apply, and the two guards keep the types.
LEMMA DecideType ==
  ASSUME TypeOK, FrameOwns,
         \/ \E s \in frame.left : DecideAbsent(s) \/ DecideRefused(s) \/ GuardApply(s)
         \/ ApplyBegin \/ ApplyFails \/ GuardCommit \/ CommitFails \/ UndoNewActors
  PROVE  TypeOK'
<1>1. frame \in FrameType /\ gen \in Generations
  BY DEF TypeOK
<1> USE <1>1
<1>2. ASSUME NEW s \in frame.left, DecideAbsent(s) \/ DecideRefused(s) \/ GuardApply(s)
      PROVE  TypeOK'
  <2>1. s \in Specs
    BY FrameFields
  <2>2. \A o \in {"deleted", "gone", "skipped"} : Decided(s, o) \in FrameType
    BY <2>1, DecidedTyped DEF Outcomes
  <2>3. [frame EXCEPT !.pc = "op", !.s = s] \in FrameType /\ [frame EXCEPT !.pc = "undo"] \in FrameType
    BY <2>1, FrameFields DEF FrameType, FramePCs
  <2>4. frame' \in FrameType
    BY <1>2, <2>2, <2>3, IdleTyped DEF DecideAbsent, DecideRefused, GuardApply
  <2> QED BY <1>2, <2>4 DEF DecideAbsent, DecideRefused, GuardApply, TypeOK, store, plane, route
<1>3. CASE ApplyBegin \/ ApplyFails
  <2>1. frame.s \in Specs /\ frame.s.f \in Forwards
    BY <1>3, FrameFields, SpecFields DEF FrameOwns, ApplyBegin, ApplyFails
  <2>2. Decided(frame.s, "failed") \in FrameType
    BY <2>1, DecidedTyped DEF Outcomes
  <2>3. [frame EXCEPT !.pc = "clean", !.gen = gen] \in FrameType
    BY FrameFields DEF FrameType, FramePCs
  <2>4. frame' \in FrameType
    BY <1>3, <2>2, <2>3 DEF ApplyBegin, ApplyFails, EndApply
  <2>5. op' \in [Forwards -> Recoverers \cup {Loop, None}]
    BY <1>3, <2>1 DEF ApplyBegin, ApplyFails, EndApply, TypeOK
  <2> QED BY <1>3, <2>4, <2>5 DEF ApplyBegin, ApplyFails, TypeOK, store, route
<1>4. CASE GuardCommit \/ CommitFails \/ UndoNewActors
  <2>1. \A pc \in {"commit", "undo"} : [frame EXCEPT !.pc = pc] \in FrameType
    BY DEF FrameType, FramePCs
  <2>2. [frame EXCEPT !.pc = "stop", !.why = "undo", !.todo = frame.new] \in FrameType
    BY FrameFields DEF FrameType, FramePCs
  <2>3. frame' \in FrameType
    BY <1>4, <2>1, <2>2 DEF GuardCommit, CommitFails, UndoNewActors
  <2> QED BY <1>4, <2>3 DEF GuardCommit, CommitFails, UndoNewActors, TypeOK, store, plane, route
<1> QED BY <1>2, <1>3, <1>4

\* An apply that ends leaves a frame.
LEMMA AppliedTyped ==
  ASSUME TypeOK, frame.s \in Specs, NEW a \in Actors \cup {None}, EndApplied(a)
  PROVE  frame' \in FrameType
<1> DEFINE D == Decided(frame.s, "applied")
           f == frame.s.f
<1>1. D \in FrameType /\ f \in Forwards
  BY DecidedTyped, SpecFields DEF Outcomes, TypeOK
<1>2. D.hot = frame.hot /\ D.new = frame.new
  BY FrameFields DEF Decided, TypeOK, FrameType
<1>3. frame' = [D EXCEPT !.new = IF applied[f] = None THEN @ \cup {f} ELSE @,
                 !.hot[f] = IF applied[f] # None /\ desired[f] # None THEN a ELSE @]
  BY DEF EndApplied
<1> HIDE DEF D, f
<1> QED BY <1>1, <1>3 DEF FrameType

\* Acquiring a listener keeps the actor table typed.
LEMMA ActorTyped ==
  ASSUME TypeOK, NEW a \in Actors, NEW s \in Specs, NEW g \in Generations, Acquire(a, s, g)
  PROVE  actor' \in [Actors -> ActorInfo \cup {None}]
BY SpecFields DEF TypeOK, Acquire, ActorInfo

\* Preparing, acquiring and installing a listener keep the types.
LEMMA ApplyType ==
  ASSUME TypeOK, FrameOwns, PlaneAgrees,
         ApplyDecide \/ ApplyInstall \/ \E a \in Actors : ApplyAcquire(a)
  PROVE  TypeOK'
<1>1. frame \in FrameType
  BY DEF TypeOK
<1>2. frame.s \in Specs /\ frame.s.f \in Forwards
  BY <1>1, FrameFields, SpecFields DEF FrameOwns, ApplyDecide, ApplyInstall, ApplyAcquire
<1> DEFINE f == frame.s.f
<1>3. Decided(frame.s, "failed") \in FrameType
  BY <1>1, <1>2, DecidedTyped DEF Outcomes
<1>4. [op EXCEPT ![f] = None] \in [Forwards -> Recoverers \cup {Loop, None}]
  BY DEF TypeOK
<1>5. CASE ApplyDecide
  <2>1. frame' \in FrameType
    <3>1. forwards[f] \in Actors \cup {None}
      BY <1>2 DEF TypeOK
    <3>2. [frame EXCEPT !.pc = "acquire"] \in FrameType
      BY <1>1 DEF FrameType, FramePCs
    <3> QED BY <1>2, <1>3, <1>5, <3>1, <3>2, AppliedTyped DEF ApplyDecide, EndApply
  <2>2. actor' \in [Actors -> ActorInfo \cup {None}]
    <3>1. ASSUME forwards[f] # None
          PROVE  /\ forwards[f] \in Actors
                 /\ [actor EXCEPT ![forwards[f]].target = frame.s.target]
                       \in [Actors -> ActorInfo \cup {None}]
      <4>1. forwards[f] \in Actors /\ actor[forwards[f]] \in ActorInfo
        BY SMT, <1>2, <3>1 DEF TypeOK, PlaneAgrees
      <4>2. [actor[forwards[f]] EXCEPT !.target = frame.s.target] \in ActorInfo
        BY <1>2, <4>1, SpecFields DEF ActorInfo
      <4> QED BY <4>1, <4>2 DEF TypeOK
    <3> QED BY <1>5, <3>1 DEF ApplyDecide, TypeOK
  <2>3. op' \in [Forwards -> Recoverers \cup {Loop, None}]
    BY <1>4, <1>5 DEF ApplyDecide, EndApply, EndApplied, TypeOK
  <2> QED BY <1>5, <2>1, <2>2, <2>3 DEF ApplyDecide, TypeOK, store, route
<1>6. CASE ApplyInstall
  <2>1. frame.acq \in Actors /\ actor[frame.acq] \in ActorInfo
    BY <1>1, <1>6, FrameFields DEF ApplyInstall, FrameOwns, TypeOK
  <2>2. frame' \in FrameType
    BY <1>2, <1>3, <1>6, AppliedTyped DEF ApplyInstall, EndApply
  <2>3. actor' \in [Actors -> ActorInfo \cup {None}]
    <3>1. [actor[frame.acq] EXCEPT !.served = TRUE] \in ActorInfo
      BY <2>1 DEF ActorInfo
    <3> QED BY <1>6, <2>1, <3>1 DEF ApplyInstall, Install, TypeOK
  <2>4. op' \in [Forwards -> Recoverers \cup {Loop, None}]
    BY <1>4, <1>6 DEF ApplyInstall, EndApply, EndApplied
  <2>5. pending' \subseteq Actors /\ forwards' \in [Forwards -> Actors \cup {None}]
    BY <1>2, <1>6, <2>1 DEF ApplyInstall, Abandon, Install, TypeOK
  <2> QED BY <1>6, <2>2, <2>3, <2>4, <2>5 DEF ApplyInstall, TypeOK, store, route
<1>7. ASSUME NEW a \in Actors, ApplyAcquire(a) PROVE TypeOK'
  <2>1. frame.gen \in Generations
    BY <1>1, <1>7, FrameFields DEF ApplyAcquire, FrameOwns
  <2>2. actor' \in [Actors -> ActorInfo \cup {None}]
    BY <1>2, <1>7, <2>1, ActorTyped DEF ApplyAcquire
  <2>3. frame' \in FrameType
    BY <1>1, <1>7 DEF ApplyAcquire, FrameType, FramePCs
  <2> QED BY <1>7, <2>2, <2>3 DEF ApplyAcquire, TypeOK, store, route
<1> QED BY <1>5, <1>6, <1>7

\* At the commit, a Forward with an outcome has its row in the snapshot.
LEMMA VerdictSpec ==
  ASSUME TypeOK, VerdictsHold, frame.pc = "commit", NEW f \in Forwards, frame.out[f] # "none"
  PROVE  /\ (CHOOSE s \in frame.d : s.f = f) \in frame.d
         /\ (CHOOSE s \in frame.d : s.f = f).f = f
BY DEF VerdictsHold, DecisionsHold, Applying, FrameInStep

\* The commit of a snapshot keeps the types.
LEMMA CommitType ==
  ASSUME TypeOK, VerdictsHold, Commit
  PROVE  TypeOK'
<1>1. frame \in FrameType /\ frame.pc = "commit"
  BY DEF TypeOK, Commit
<1>2. desired' \in [Forwards -> Specs \cup {None}]
  <2>1. ASSUME NEW f \in Forwards, \E s \in frame.d : s.f = f
        PROVE  Merged(CHOOSE s \in frame.d : s.f = f) \in Specs
    BY <1>1, <2>1, FrameFields, MergedTyped
  <2> QED BY <2>1 DEF Commit, MergedRows, TypeOK
<1>3. applied' \in [Forwards -> Presents \cup {None}]
  <2>1. ASSUME NEW f \in Forwards, frame.out[f] = "applied"
        PROVE  (CHOOSE s \in frame.d : s.f = f) \in Presents
    <3> DEFINE c == CHOOSE s \in frame.d : s.f = f
    <3>1. c \in frame.d /\ c.f = f
      BY <1>1, <2>1, VerdictSpec
    <3>2. c \in Specs /\ c.present
      BY <1>1, <2>1, <3>1, FrameFields DEF VerdictsHold, DecisionsHold, Applying, FrameInStep
    <3> QED BY <3>2, SpecFields
  <2> QED BY <2>1 DEF Commit, TypeOK
<1>4. tomb' \in [Forwards -> Identities \cup {None}]
  <2>1. ASSUME NEW f \in Forwards, frame.out[f] = "deleted"
        PROVE  Identity(CHOOSE s \in frame.d : s.f = f) \in Identities
    <3> DEFINE c == CHOOSE s \in frame.d : s.f = f
    <3>1. c \in frame.d /\ c.f = f
      BY <1>1, <2>1, VerdictSpec
    <3>2. c \in Specs /\ ~c.present
      BY <1>1, <2>1, <3>1, FrameFields DEF VerdictsHold, DecisionsHold, Applying, FrameInStep
    <3> QED BY <3>2, SpecFields
  <2> QED BY <2>1 DEF Commit, TypeOK
<1>5. frame' \in FrameType
  <2>1. IdleFrame.hot \in [Forwards -> Actors \cup {None}] /\ frame \in FrameType
    BY DEF IdleFrame, TypeOK
  <2>2. ASSUME NEW h \in [Forwards -> Actors \cup {None}], NEW F \in SUBSET Forwards
        PROVE  [frame EXCEPT !.pc = "stop", !.why = "delete", !.hot = h, !.new = {}, !.todo = F] \in FrameType
    BY <2>1 DEF FrameType, FramePCs
  <2> QED BY <2>1, <2>2 DEF Commit
<1> QED BY <1>2, <1>3, <1>4, <1>5 DEF Commit, TypeOK, plane, route

\* Taking listeners out of service keeps the two tables of the data plane typed.
LEMMA UninstallTyped ==
  ASSUME TypeOK, NEW F \in SUBSET Forwards, Uninstall(F)
  PROVE  pending' \subseteq Actors /\ forwards' \in [Forwards -> Actors \cup {None}]
BY SMT DEF TypeOK, Uninstall

\* Stopping Forwards and undoing a hot update keep the types.
LEMMA StopType ==
  ASSUME TypeOK, VerdictsHold, PlaneAgrees,
         StopForwards \/ \E f \in Forwards : UndoHotUpdate(f)
  PROVE  TypeOK'
<1>1. frame \in FrameType
  BY DEF TypeOK
<1> USE <1>1, FrameFields
<1>2. ASSUME NEW f \in Forwards, UndoHotUpdate(f) PROVE TypeOK'
  <2>1. frame' \in FrameType
    BY <1>2 DEF UndoHotUpdate, FrameType
  <2>2. ASSUME forwards[f] = frame.hot[f]
        PROVE  [actor EXCEPT ![frame.hot[f]].target = desired[f].target]
                  \in [Actors -> ActorInfo \cup {None}]
    <3>1. frame.hot[f] \in Actors /\ actor[frame.hot[f]] \in ActorInfo /\ desired[f] \in Specs
      BY SMT, <1>2, <2>2 DEF UndoHotUpdate, TypeOK, PlaneAgrees, VerdictsHold,
                     FrameInStep
    <3>2. [actor[frame.hot[f]] EXCEPT !.target = desired[f].target] \in ActorInfo
      BY <3>1, SpecFields DEF ActorInfo
    <3> QED BY <3>1, <3>2 DEF TypeOK
  <2>3. actor' \in [Actors -> ActorInfo \cup {None}]
    BY <1>2, <2>2 DEF UndoHotUpdate, TypeOK
  <2> QED BY <1>2, <2>1, <2>3 DEF UndoHotUpdate, TypeOK, store, route
<1>3. ASSUME NEW f \in Forwards, Stop(f) PROVE TypeOK'
  <2>1. pending' \subseteq Actors /\ forwards' \in [Forwards -> Actors \cup {None}]
    BY <1>3, UninstallTyped DEF Stop
  <2>2. frame' \in FrameType
    BY <1>3, <2>1 DEF Stop, FrameType, FramePCs
  <2> QED BY <1>3, <2>1, <2>2 DEF Stop, TypeOK, store, route
<1>4. CASE StopReturns \/ StopFails
  <2>1. [frame EXCEPT !.pc = "complete", !.wait = {}] \in FrameType
    BY DEF FrameType, FramePCs
  <2>2. ASSUME StopFails PROVE frame' \in FrameType
    <3>1. Stopped \in FrameType /\ frame.f \in Forwards
      BY <2>2, StoppedTyped DEF VerdictsHold, FrameInStep, StopFails
    <3>2. [Stopped EXCEPT !.failed = TRUE,
             !.out[frame.f] = IF frame.why = "delete" THEN "deleteFailed" ELSE @] \in FrameType
      BY <3>1 DEF FrameType, Outcomes
    <3> QED BY <2>2, <3>2 DEF StopFails
  <2>3. frame' \in FrameType
    BY <1>4, <2>1, <2>2, StoppedTyped DEF StopReturns
  <2> QED BY <1>4, <2>3 DEF StopReturns, StopFails, TypeOK, store, plane, route
<1>5. CASE Complete
  <2>1. Stopped \in FrameType /\ frame.f \in Forwards
    BY <1>5, StoppedTyped DEF VerdictsHold, FrameInStep, Complete
  <2>2. frame' \in FrameType
    <3>1. PICK b \in BOOLEAN : frame' = [Stopped EXCEPT !.out[frame.f] = IF b THEN "deleteFailed" ELSE @]
      BY <1>5 DEF Complete
    <3>2. ASSUME NEW o \in Outcomes PROVE [Stopped EXCEPT !.out[frame.f] = o] \in FrameType
      BY <2>1 DEF FrameType
    <3>3. Stopped.out[frame.f] \in Outcomes /\ "deleteFailed" \in Outcomes
      BY <2>1 DEF FrameType, Outcomes
    <3> QED BY <3>1, <3>2, <3>3
  <2>3. intent' \in [Forwards -> Identities \cup {None}]
    BY <1>5 DEF Complete, TypeOK
  <2> QED BY <1>5, <2>2, <2>3 DEF Complete, TypeOK, plane, route
<1>6. CASE StopsOver \/ Report \/ Decommission \/ StopAll
  <2>1. [frame EXCEPT !.pc = "report"] \in FrameType
    BY DEF FrameType, FramePCs
  <2>2. \A pc \in {"terminal", "stopall"} : [IdleFrame EXCEPT !.pc = pc] \in FrameType
    BY IdleTyped DEF FrameType, FramePCs
  <2>3. ASSUME StopAll PROVE frame' \in FrameType
    BY <2>3 DEF StopAll, FrameType, FramePCs
  <2>4. frame' \in FrameType
    <3>1. CASE StopsOver
      BY <3>1, <2>1, <2>2, IdleTyped DEF StopsOver
    <3> QED BY <1>6, <2>2, <2>3, <3>1, IdleTyped DEF Report, Decommission
  <2> QED BY <1>6, <2>4 DEF StopsOver, Report, Decommission, StopAll, TypeOK, store, plane, route
<1> QED BY <1>2, <1>3, <1>4, <1>5, <1>6 DEF StopForwards

\* The fields of a recovery's record, each with its set.
LEMMA RecFields ==
  ASSUME TypeOK, NEW r \in Recoverers
  PROVE  /\ rec[r] \in RecType /\ rec[r].pc \in RecPCs
         /\ rec[r].list \in [Forwards -> Presents \cup {None}]
         /\ rec[r].f \in Forwards \cup {None} /\ rec[r].gen \in Generations \cup {None}
         /\ rec[r].acq \in Actors \cup {None}
BY DEF TypeOK, RecType

\* Replacing one recovery's record by a record keeps the table of records typed.
LEMMA RecTyped ==
  ASSUME TypeOK, NEW r \in Recoverers, NEW v \in RecType
  PROVE  [rec EXCEPT ![r] = v] \in [Recoverers -> RecType]
BY DEF TypeOK

\* A recovery that rests, and one that has just read the applied rows, are records.
LEMMA IdleRecTyped ==
  ASSUME TypeOK
  PROVE  IdleRec \in RecType /\ Started \in RecType
<1>1. IdleRec \in RecType
  BY DEF IdleRec, RecType, RecPCs
<1>2. [IdleRec EXCEPT !.pc = "pick", !.list = applied] \in RecType
  BY <1>1 DEF TypeOK, RecType, RecPCs
<1> QED BY <1>1, <1>2 DEF Started

\* A recovery that goes on to its next Forward keeps its record and the operations
\* typed.
LEMMA RecNextTyped ==
  ASSUME TypeOK, NEW r \in Recoverers, NEW pc \in {"pick", "failed"}, RecNext(r, pc),
         rec[r].f \in Forwards
  PROVE  /\ rec' \in [Recoverers -> RecType]
         /\ op' \in [Forwards -> Recoverers \cup {Loop, None}]
<1> DEFINE v == [rec[r] EXCEPT !.pc = pc, !.list[rec[r].f] = None, !.f = None,
                               !.gen = None, !.acq = None]
<1>1. v \in RecType
  BY RecFields DEF RecType, RecPCs
<1>2. rec' = [rec EXCEPT ![r] = v]
  BY DEF RecNext
<1> HIDE DEF v
<1>3. rec' \in [Recoverers -> RecType]
  BY <1>1, <1>2, RecTyped
<1>4. op' \in [Forwards -> Recoverers \cup {Loop, None}]
  BY DEF TypeOK, RecNext
<1> QED BY <1>3, <1>4

\* A recovery that only moves keeps the table of records typed.
LEMMA RecPcTyped ==
  ASSUME TypeOK, NEW r \in Recoverers, NEW pc \in RecPCs
  PROVE  [rec EXCEPT ![r].pc = pc] \in [Recoverers -> RecType]
<1>1. [rec[r] EXCEPT !.pc = pc] \in RecType
  BY RecFields DEF RecType
<1> QED BY <1>1, RecTyped DEF TypeOK

\* Every step of a recovery keeps the types.
LEMMA RecoverType ==
  ASSUME TypeOK, RecoveryOwns, NEW r \in Recoverers, Recover(r)
  PROVE  TypeOK'
<1> USE RecFields, IdleRecTyped
<1>1. ASSUME NEW f \in Forwards, RecSkip(r, f) \/ RecPick(r, f) PROVE TypeOK'
  <2>1. [rec[r] EXCEPT !.list[f] = None] \in RecType
    BY DEF RecType
  <2>2. [rec[r] EXCEPT !.pc = "op", !.f = f] \in RecType
    BY DEF RecType, RecPCs
  <2>3. rec' \in [Recoverers -> RecType]
    BY <1>1, <2>1, <2>2 DEF RecSkip, RecPick, TypeOK
  <2> QED BY <1>1, <2>3 DEF RecSkip, RecPick, TypeOK, store, plane, route
<1>2. CASE RecBegin(r)
  <2>1. [rec[r] EXCEPT !.pc = "acquire", !.gen = gen] \in RecType
    BY DEF RecType, RecPCs, TypeOK
  <2>2. rec' \in [Recoverers -> RecType]
    BY <1>2, <2>1 DEF RecBegin, TypeOK
  <2>3. op' \in [Forwards -> Recoverers \cup {Loop, None}]
    BY <1>2 DEF RecBegin, TypeOK
  <2> QED BY <1>2, <2>2, <2>3 DEF RecBegin, TypeOK, store, route
<1>3. ASSUME NEW a \in Actors, RecAcquire(r, a) PROVE TypeOK'
  <2>1. [rec[r] EXCEPT !.pc = "acquired", !.acq = a] \in RecType
    BY DEF RecType, RecPCs
  <2>2. rec' \in [Recoverers -> RecType]
    BY <1>3, <2>1 DEF RecAcquire, TypeOK
  <2>3. rec[r].list[rec[r].f] \in Specs /\ rec[r].gen \in Generations
    BY SMT, <1>3 DEF RecAcquire, RecoveryOwns, Owns, Specs
  <2>4. actor' \in [Actors -> ActorInfo \cup {None}]
    BY <1>3, <2>3, ActorTyped DEF RecAcquire
  <2> QED BY <1>3, <2>2, <2>4 DEF RecAcquire, TypeOK, store, route
<1>4. CASE RecAcquireFails(r)
  <2>1. rec[r].f \in Forwards
    BY <1>4 DEF RecAcquireFails, RecoveryOwns, Owns
  <2>2. /\ rec' \in [Recoverers -> RecType]
        /\ op' \in [Forwards -> Recoverers \cup {Loop, None}]
    BY <1>4, <2>1, RecNextTyped DEF RecAcquireFails
  <2> QED BY <1>4, <2>2 DEF RecAcquireFails, TypeOK, store, route
<1>5. CASE RecFence(r) \/ RecLock(r) \/ RecCheck(r)
  <2>1. rec[r].f \in Forwards /\ rec[r].acq \in Actors
    BY <1>5 DEF RecFence, RecLock, RecCheck, RecoveryOwns, Owns, Holding
  <2>2. \A pc \in {"lock", "check", "publish"} : [rec EXCEPT ![r].pc = pc] \in [Recoverers -> RecType]
    BY RecPcTyped DEF RecPCs
  <2>3. rec' \in [Recoverers -> RecType]
    BY <1>5, <2>1, <2>2, RecNextTyped DEF RecFence, RecLock, RecCheck
  <2>4. op' \in [Forwards -> Recoverers \cup {Loop, None}]
    BY <1>5, <2>1, RecNextTyped DEF RecFence, RecLock, RecCheck, TypeOK
  <2>5. pending' \subseteq Actors /\ mu' \in Recoverers \cup {None}
    BY <1>5, <2>1 DEF RecFence, RecLock, RecCheck, Abandon, TypeOK
  <2> QED BY <1>5, <2>3, <2>4, <2>5 DEF RecFence, RecLock, RecCheck, TypeOK, store, route
<1>6. CASE RecPublish(r)
  <2>1. rec[r].f \in Forwards /\ rec[r].acq \in Actors /\ actor[rec[r].acq] \in ActorInfo
    <3>1. rec[r].f # None /\ rec[r].acq # None /\ actor[rec[r].acq] # None
      BY <1>6 DEF RecPublish, RecoveryOwns, Owns, Holding
    <3> QED BY <3>1 DEF TypeOK
  <2>2. /\ rec' \in [Recoverers -> RecType]
        /\ op' \in [Forwards -> Recoverers \cup {Loop, None}]
    BY <1>6, <2>1, RecNextTyped DEF RecPublish
  <2>3. [actor[rec[r].acq] EXCEPT !.served = TRUE] \in ActorInfo
    BY <2>1 DEF ActorInfo
  <2>4. actor' \in [Actors -> ActorInfo \cup {None}]
    BY <1>6, <2>1, <2>3 DEF RecPublish, Install, TypeOK
  <2>5. /\ pending' \subseteq Actors /\ mu' = None
        /\ forwards' \in [Forwards -> Actors \cup {None}]
    BY <1>6, <2>1 DEF RecPublish, Abandon, Install, TypeOK
  <2> QED BY <1>6, <2>2, <2>4, <2>5 DEF RecPublish, TypeOK, store, route
<1>7. CASE RecReplayFails(r) \/ RecEnd(r)
  <2>1. rec' \in [Recoverers -> RecType]
    <3>1. /\ [rec EXCEPT ![r].pc = "failed"] \in [Recoverers -> RecType]
          /\ [rec EXCEPT ![r] = IdleRec] \in [Recoverers -> RecType]
      BY RecPcTyped, RecTyped DEF RecPCs
    <3> QED BY <1>7, <3>1 DEF RecReplayFails, RecEnd
  <2>2. frame' \in FrameType
    BY <1>7, IdleTyped DEF RecReplayFails, RecEnd, TypeOK
  <2> QED BY <1>7, <2>1, <2>2 DEF RecReplayFails, RecEnd, TypeOK, store, plane, route
<1> QED BY <1>1, <1>2, <1>3, <1>4, <1>5, <1>6, <1>7 DEF Recover

\* Booting leaves the ready flag a Boolean.
LEMMA ReadyTyped ==
  ASSUME TypeOK, Boot
  PROVE  ready' \in BOOLEAN
BY DEF Boot

\* The process, the network, the monitor and the retries keep the types.
LEMMA EnvironmentType ==
  ASSUME TypeOK, Environment \/ Watch \/ \E r \in Retries : Retry(r)
  PROVE  TypeOK'
<1>1. Monitor \in Recoverers /\ Retries \subseteq Recoverers
  BY DEF Recoverers
<1>2. CASE NetChange
  BY <1>2 DEF NetChange, TypeOK, store, plane
<1>3. CASE Crash \/ BootFails
  <2>1. [IdleFrame EXCEPT !.pc = "down"] \in FrameType
    BY IdleTyped DEF FrameType, FramePCs
  <2> QED BY SMT, <1>3, <2>1, IdleRecTyped DEF Crash, BootFails, ProcessGone, TypeOK, store, route
<1>4. CASE Boot
  <2>1. \A pc \in {"idle", "boot"} : [IdleFrame EXCEPT !.pc = pc] \in FrameType
    BY IdleTyped DEF FrameType, FramePCs
  <2>2. frame' \in FrameType
    BY <1>4, <2>1 DEF Boot
  <2>3. rec' \in [Recoverers -> RecType]
    BY <1>1, <1>4, RecTyped, IdleRecTyped DEF Boot
  <2>4. gen' \in Generations /\ net' \in {"same", "changed", "down"}
    BY <1>4 DEF Boot, TypeOK, Generations
  <2> QED BY <1>4, <2>2, <2>3, <2>4, ReadyTyped DEF Boot, TypeOK, store, plane
<1>5. ASSUME NEW f \in Forwards, RunError(f) PROVE TypeOK'
  BY <1>5, UninstallTyped DEF RunError, TypeOK, store, route
<1>6. ASSUME NEW a \in Actors, Clean(a) PROVE TypeOK'
  BY <1>6 DEF Clean, TypeOK, store, route
<1>7. ASSUME NEW r \in Retries, Retry(r) PROVE TypeOK'
  <2>1. rec' \in [Recoverers -> RecType]
    BY <1>1, <1>7, RecTyped, IdleRecTyped DEF Retry
  <2> QED BY <1>7, <2>1 DEF Retry, TypeOK, store, plane, route
<1>8. CASE Watch
  <2>1. rec' \in [Recoverers -> RecType]
    <3>1. \A pc \in {"idle", "tick", "rebuild"} :
            [rec EXCEPT ![Monitor].pc = pc] \in [Recoverers -> RecType]
      BY <1>1, RecPcTyped DEF RecPCs
    <3>2. \A v \in {IdleRec, Started} : [rec EXCEPT ![Monitor] = v] \in [Recoverers -> RecType]
      BY <1>1, RecTyped, IdleRecTyped
    <3> QED BY <1>8, <3>1, <3>2 DEF Watch, MonitorTick, MonitorRests, MonitorLoses, MonitorRestores,
                 MonitorRebuilds, MonitorFails
  <2>2. \A n \in Nat : n + 1 \in Nat
    BY SMT
  <2>3. [gen EXCEPT !.cap = @ + 1] \in Generations /\ [gen EXCEPT !.comp = @ + 1] \in Generations
    BY <2>2 DEF TypeOK, Generations
  <2>4. CASE MonitorTick \/ MonitorRests
    BY <2>1, <2>4 DEF MonitorTick, MonitorRests, TypeOK, store, plane, route
  <2>5. CASE MonitorLoses \/ MonitorFails
    <3>1. pending' \subseteq Actors /\ forwards' \in [Forwards -> Actors \cup {None}]
      BY <2>5, UninstallTyped DEF MonitorLoses, MonitorFails, Lose, TypeOK
    <3>2. gen' \in Generations
      BY <2>3, <2>5 DEF MonitorLoses, MonitorFails, Lose, TypeOK
    <3> QED BY <2>1, <2>5, <3>1, <3>2 DEF MonitorLoses, MonitorFails, Lose, TypeOK, store
  <2>6. CASE MonitorRestores \/ MonitorRebuilds
    BY <2>1, <2>3, <2>6 DEF MonitorRestores, MonitorRebuilds, TypeOK, store, plane
  <2> QED BY <1>8, <2>4, <2>5, <2>6 DEF Watch
<1> QED BY <1>2, <1>3, <1>4, <1>5, <1>6, <1>7, <1>8 DEF Environment

\* Every step keeps the types; the frame's and the recoveries' bookkeeping is needed to
\* know that a looked-up row or actor is there.
LEMMA TypesKept ==
  ASSUME TypeOK, VerdictsHold, PlaneAgrees, FrameOwns, RecoveryOwns, [Next]_vars
  PROVE  TypeOK'
<1>1. CASE UNCHANGED vars
  BY <1>1 DEF TypeOK, vars, store, plane, route
<1>2. CASE Reconcile
  BY <1>2, ReceiveType, DecideType, ApplyType, CommitType, StopType DEF Reconcile
<1> QED BY <1>1, <1>2, StopType, EnvironmentType, RecoverType DEF Next

\* What recording an outcome changes in the frame, and what it leaves.
LEMMA DecidedFields ==
  ASSUME frame \in FrameType, NEW s \in Specs, NEW o \in Outcomes
  PROVE  /\ Decided(s, o).pc = "spec" /\ Decided(s, o).left = frame.left \ {s}
         /\ Decided(s, o).d = frame.d /\ Decided(s, o).out = [frame.out EXCEPT ![s.f] = o]
         /\ Decided(s, o).why = frame.why /\ Decided(s, o).todo = frame.todo
         /\ Decided(s, o).hot = frame.hot /\ Decided(s, o).new = frame.new
         /\ Decided(s, o).s = None /\ Decided(s, o).gen = None /\ Decided(s, o).acq = None
         /\ Decided(s, o).f = frame.f /\ Decided(s, o).wait = frame.wait
         /\ Decided(s, o).failed = frame.failed
BY DEF Decided, FrameType

\* What the end of an apply changes in the frame, and what it leaves.
LEMMA AppliedFields ==
  ASSUME TypeOK, frame.s \in Specs, NEW a, EndApplied(a)
  PROVE  /\ frame'.pc = "spec" /\ frame'.d = frame.d /\ frame'.left = frame.left \ {frame.s}
         /\ frame'.out = [frame.out EXCEPT ![frame.s.f] = "applied"] /\ frame'.acq = None
         /\ frame'.hot = [frame.hot EXCEPT
                            ![frame.s.f] = IF applied[frame.s.f] # None /\ desired[frame.s.f] # None
                                           THEN a ELSE @]
<1> DEFINE D == Decided(frame.s, "applied")
           f == frame.s.f
<1>1. frame \in FrameType /\ "applied" \in Outcomes
  BY DEF TypeOK, Outcomes
<1>2. frame' = [D EXCEPT !.new = IF applied[f] = None THEN @ \cup {f} ELSE @,
                         !.hot[f] = IF applied[f] # None /\ desired[f] # None THEN a ELSE @]
  BY DEF EndApplied
<1>3. D \in FrameType
  BY <1>1, DecidedTyped
<1>4. /\ frame'.pc = D.pc /\ frame'.d = D.d /\ frame'.left = D.left /\ frame'.out = D.out
      /\ frame'.hot = [D.hot EXCEPT ![f] = IF applied[f] # None /\ desired[f] # None THEN a ELSE @]
      /\ frame'.acq = D.acq
  <2> HIDE DEF D, f
  <2> QED BY <1>2, <1>3 DEF FrameType
<1> QED BY SMT, <1>1, <1>4, DecidedFields

\* What going on to the next Forward to stop changes in the frame, and what it leaves.
LEMMA StoppedFields ==
  ASSUME frame \in FrameType
  PROVE  /\ Stopped.pc = "stop" /\ Stopped.todo = frame.todo \ {frame.f}
         /\ Stopped.d = frame.d /\ Stopped.left = frame.left /\ Stopped.out = frame.out
         /\ Stopped.why = frame.why /\ Stopped.hot = frame.hot /\ Stopped.acq = frame.acq
         /\ Stopped.wait = {} /\ Stopped.failed = frame.failed
BY DEF Stopped, FrameType

\* The frame between two snapshots is empty.
LEMMA IdleFields ==
  /\ IdleFrame.pc = "idle" /\ IdleFrame.why = "none" /\ IdleFrame.d = {} /\ IdleFrame.left = {}
  /\ IdleFrame.s = None /\ IdleFrame.out = [f \in Forwards |-> "none"] /\ IdleFrame.acq = None
  /\ IdleFrame.hot = [f \in Forwards |-> None] /\ IdleFrame.new = {} /\ IdleFrame.todo = {}
  /\ IdleFrame.wait = {} /\ IdleFrame.failed = FALSE
BY DEF IdleFrame

\* What going on to the next Forward changes in a recovery's record.
LEMMA RecNextFields ==
  ASSUME TypeOK, NEW r \in Recoverers, NEW pc \in {"pick", "failed"}, RecNext(r, pc)
  PROVE  /\ rec'[r].pc = pc /\ rec'[r].acq = None /\ rec'[r].f = None
         /\ rec'[r].list = [rec[r].list EXCEPT ![rec[r].f] = None]
         /\ \A q \in Recoverers \ {r} : rec'[q] = rec[q]
         /\ op' = [op EXCEPT ![rec[r].f] = None]
BY RecFields DEF TypeOK, RecType, RecNext

\* The latch stays set; a recovery reaches its publication only past the fence, and the
\* lock only with the latch unset; its list holds rows it read.
LEMMA RecSteps ==
  ASSUME TypeOK, [Next]_vars, NEW r \in Recoverers
  PROVE  /\ latch => latch'
         /\ rec'[r].pc = "publish" =>
              \/ rec'[r] = rec[r]
              \/ /\ rec[r].pc = "check" /\ rec'[r].f = rec[r].f /\ ~Fenced(rec[r].f)
                 /\ UNCHANGED <<store, frame>>
         /\ rec'[r].pc = "check" => rec[r].pc = "check" \/ (~latch /\ UNCHANGED <<latch, frame>>)
         /\ \A f \in Forwards : rec'[r].list[f] \in {None, applied[f], rec[r].list[f]}
<1> DEFINE Listed == \A f \in Forwards : rec'[r].list[f] \in {None, applied[f], rec[r].list[f]}
           Goal == /\ latch => latch'
                   /\ rec'[r].pc = "publish" =>
                        \/ rec'[r] = rec[r]
                        \/ /\ rec[r].pc = "check" /\ rec'[r].f = rec[r].f /\ ~Fenced(rec[r].f)
                           /\ UNCHANGED <<store, frame>>
                   /\ rec'[r].pc = "check" =>
                        rec[r].pc = "check" \/ (~latch /\ UNCHANGED <<latch, frame>>)
                   /\ Listed
<1>1. ASSUME latch => latch', rec'[r] = rec[r] \/ (rec'[r].pc \notin {"check", "publish"} /\ Listed)
      PROVE  Goal
  BY <1>1
<1> SUFFICES Goal
  OBVIOUS
<1> HIDE DEF Goal, Listed
<1>2. CASE UNCHANGED vars
  BY <1>1, <1>2 DEF vars
<1>3. CASE Reconcile
  BY <1>1, <1>3 DEF Reconcile, Receive, Converge, PutFences, DecideAbsent, DecideRefused, GuardApply,
     ApplyBegin, ApplyFails, ApplyDecide, ApplyAcquire, ApplyInstall, GuardCommit, Commit, CommitFails,
     UndoHotUpdate, UndoNewActors
<1>4. CASE StopForwards
  BY <1>1, <1>4 DEF StopForwards, Stop, StopReturns, StopFails, Complete, StopsOver, Report,
     Decommission, StopAll
<1>5. ASSUME NEW v \in {Started, IdleRec}
      PROVE  v.pc \in {"idle", "pick"} /\ \A f \in Forwards : v.list[f] \in {None, applied[f]}
  <2>1. IdleRec.pc = "idle" /\ \A f \in Forwards : IdleRec.list[f] = None
    BY DEF IdleRec
  <2>2. Started = IdleRec \/ (Started.pc = "pick" /\ Started.list = applied)
    BY DEF Started, IdleRec
  <2> QED BY <2>1, <2>2
<1>6. ASSUME NEW q \in Recoverers, NEW v \in {Started, IdleRec}, rec' = [rec EXCEPT ![q] = v],
             latch' = latch
      PROVE  Goal
  <2>1. r # q => rec'[r] = rec[r]
    BY <1>6 DEF TypeOK
  <2>2. rec'[q] = v
    BY <1>6 DEF TypeOK
  <2>3. r = q => rec'[r].pc \notin {"check", "publish"} /\ Listed
    BY <1>5, <2>2 DEF Listed
  <2> QED BY <1>1, <1>6, <2>1, <2>3
<1>7. ASSUME NEW q \in Recoverers, NEW v, v \notin {"check", "publish"},
             rec' = [rec EXCEPT ![q].pc = v], latch' = latch
      PROVE  Goal
  <2>1. rec[q] \in RecType /\ rec'[q] = [rec[q] EXCEPT !.pc = v] /\ (r # q => rec'[r] = rec[r])
    BY <1>7 DEF TypeOK
  <2>2. rec'[q].pc = v /\ rec'[q].list = rec[q].list
    BY <2>1 DEF RecType
  <2> QED BY <1>1, <1>7, <2>1, <2>2 DEF Listed
<1>8. ASSUME NEW q \in Recoverers, NEW pc \in {"pick", "failed"}, RecNext(q, pc), latch' = latch
      PROVE  Goal
  <2>1. rec[q].list \in [Forwards -> Presents \cup {None}]
    BY RecFields
  <2>2. /\ rec'[q].pc = pc /\ rec'[q].list = [rec[q].list EXCEPT ![rec[q].f] = None]
        /\ r # q => rec'[r] = rec[r]
    BY <1>8, RecNextFields
  <2>3. r = q => rec'[r].pc \notin {"check", "publish"} /\ Listed
    BY <2>1, <2>2 DEF Listed
  <2> QED BY <1>1, <1>8, <2>2, <2>3
<1>9. CASE Environment
  <2>1. CASE ProcessGone
    BY <1>1, <1>5, <2>1 DEF ProcessGone, Listed
  <2>2. CASE Boot
    BY <1>6, <2>2 DEF Boot, Recoverers
  <2> QED BY <1>1, <1>9, <2>1, <2>2 DEF Environment, NetChange, Crash, BootFails, RunError, Clean
<1>10. CASE Watch
  <2>1. Monitor \in Recoverers
    BY DEF Recoverers
  <2>2. CASE MonitorTick \/ MonitorRests \/ MonitorLoses \/ MonitorRestores
    BY SMT, <1>7, <2>1, <2>2 DEF MonitorTick, MonitorRests, MonitorLoses, MonitorRestores, Lose
  <2>3. CASE MonitorRebuilds \/ MonitorFails
    BY <1>6, <2>1, <2>3 DEF MonitorRebuilds, MonitorFails, Lose
  <2> QED BY <1>10, <2>2, <2>3 DEF Watch
<1>11. ASSUME NEW q \in Retries, Retry(q) PROVE Goal
  BY <1>6, <1>11 DEF Retry, Recoverers
<1>12. ASSUME NEW q \in Recoverers, Recover(q) PROVE Goal
  <2>1. rec[q] \in RecType /\ rec[q].list \in [Forwards -> Presents \cup {None}] /\ latch' = latch
    BY <1>12, RecFields DEF Recover, RecSkip, RecPick, RecBegin, RecAcquire, RecAcquireFails, RecFence,
       RecLock, RecCheck, RecPublish, RecReplayFails, RecEnd
  <2>2. ASSUME r # q => rec'[r] = rec[r], rec'[q].pc \notin {"check", "publish"},
               \A f \in Forwards : rec'[q].list[f] \in {None, rec[q].list[f]}
        PROVE  Goal
    BY <1>1, <2>1, <2>2 DEF Listed
  <2>3. ASSUME NEW f \in Forwards, RecSkip(q, f) \/ RecPick(q, f) PROVE Goal
    <3>1. CASE RecSkip(q, f)
      <4>1. /\ r # q => rec'[r] = rec[r]
            /\ rec'[q].pc = "pick" /\ rec'[q].list = [rec[q].list EXCEPT ![f] = None]
        BY <2>1, <3>1 DEF TypeOK, RecType, RecSkip
      <4> QED BY <2>1, <2>2, <4>1
    <3>2. CASE RecPick(q, f)
      <4>1. (r # q => rec'[r] = rec[r]) /\ rec'[q].pc = "op" /\ rec'[q].list = rec[q].list
        BY <2>1, <3>2 DEF TypeOK, RecType, RecPick
      <4> QED BY <2>2, <4>1
    <3> QED BY <2>3, <3>1, <3>2
  <2>4. ASSUME NEW a \in Actors, RecAcquire(q, a) PROVE Goal
    <3>1. (r # q => rec'[r] = rec[r]) /\ rec'[q].pc = "acquired" /\ rec'[q].list = rec[q].list
      BY <2>1, <2>4 DEF TypeOK, RecType, RecAcquire
    <3> QED BY <2>2, <3>1
  <2>5. CASE RecBegin(q)
    <3>1. (r # q => rec'[r] = rec[r]) /\ rec'[q].pc = "acquire" /\ rec'[q].list = rec[q].list
      BY <2>1, <2>5 DEF TypeOK, RecType, RecBegin
    <3> QED BY <2>2, <3>1
  <2>6. CASE RecAcquireFails(q) \/ RecPublish(q) \/ RecFence(q)
    <3>1. CASE RecAcquireFails(q) \/ RecPublish(q)
      BY <1>8, <2>1, <3>1 DEF RecAcquireFails, RecPublish
    <3>2. CASE RecFence(q)
      BY SMT, <1>7, <1>8, <2>1, <3>2 DEF RecFence
    <3> QED BY <2>6, <3>1, <3>2
  <2>7. CASE RecReplayFails(q) \/ RecEnd(q)
    <3>1. CASE RecReplayFails(q)
      <4>1. (r # q => rec'[r] = rec[r]) /\ rec'[q].pc = "failed" /\ rec'[q].list = rec[q].list
        BY <2>1, <3>1 DEF TypeOK, RecType, RecReplayFails
      <4> QED BY <2>2, <4>1
    <3>2. CASE RecEnd(q)
      BY <1>6, <2>1, <3>2 DEF RecEnd
    <3> QED BY <2>7, <3>1, <3>2
  <2>8. CASE RecLock(q)
    <3>1. CASE latch \/ rec[q].gen # gen
      BY <1>8, <2>1, <2>8, <3>1 DEF RecLock
    <3>2. CASE ~latch /\ rec[q].gen = gen
      <4>1. /\ (r # q => rec'[r] = rec[r]) /\ rec'[q].pc = "check" /\ rec'[q].list = rec[q].list
            /\ UNCHANGED <<latch, frame>>
        BY SMT, <2>1, <2>8, <3>2 DEF TypeOK, RecType, RecLock
      <4> QED BY <1>1, <3>2, <4>1 DEF Goal, Listed
    <3> QED BY <3>1, <3>2
  <2>9. CASE RecCheck(q)
    <3>1. CASE Fenced(rec[q].f) \/ forwards[rec[q].f] # None \/ PendingOf(rec[q].f) # {}
      BY <1>8, <2>1, <2>9, <3>1 DEF RecCheck
    <3>2. CASE ~(Fenced(rec[q].f) \/ forwards[rec[q].f] # None \/ PendingOf(rec[q].f) # {})
      <4>1. /\ (r # q => rec'[r] = rec[r]) /\ rec'[q].pc = "publish" /\ rec'[q].f = rec[q].f
            /\ rec'[q].list = rec[q].list /\ rec[q].pc = "check" /\ ~Fenced(rec[q].f)
            /\ UNCHANGED <<store, latch, frame>>
        BY SMT, <2>1, <2>9, <3>2 DEF TypeOK, RecType, RecCheck
      <4> QED BY <1>1, <4>1 DEF Goal, Listed
    <3> QED BY <3>1, <3>2
  <2> QED BY <1>12, <2>3, <2>4, <2>5, <2>6, <2>7, <2>8, <2>9 DEF Recover
<1> QED BY <1>2, <1>3, <1>4, <1>9, <1>10, <1>11, <1>12 DEF Next
-----------------------------------------------------------------------------
\* A frame outside applying, stopping and fencing has no verdict to keep.
LEMMA QuietVerdicts ==
  ASSUME frame'.pc \notin Applying \cup Stopping \cup {"fence"}, Valid(frame'.d),
         frame'.left = {}, \A f \in Forwards : frame'.hot[f] = None
  PROVE  VerdictsHold'
<1>1. FrameInStep'
  BY DEF FrameInStep, Applying, Stopping
<1>2. DecisionsHold' /\ DeletionsHold'
  BY DEF DecisionsHold, DeletionsHold
<1> QED BY <1>1, <1>2 DEF VerdictsHold

\* An empty frame, wherever the process stands, has no verdict to keep.
LEMMA IdleVerdicts ==
  ASSUME NEW pc, pc \notin Applying \cup Stopping \cup {"fence"},
         frame' = [IdleFrame EXCEPT !.pc = pc]
  PROVE  VerdictsHold'
<1>1. frame'.pc = pc /\ frame'.d = {} /\ frame'.left = {} /\ frame'.hot = [f \in Forwards |-> None]
  BY DEF IdleFrame
<1> QED BY <1>1, QuietVerdicts DEF Valid

\* Nor has the frame between two snapshots.
LEMMA NoVerdicts ==
  ASSUME frame' = IdleFrame
  PROVE  VerdictsHold'
<1>1. /\ frame'.pc = "idle" /\ frame'.d = {} /\ frame'.left = {}
      /\ \A f \in Forwards : frame'.hot[f] = None
  BY DEF IdleFrame
<1>2. "idle" \notin Applying \cup Stopping \cup {"fence"}
  BY DEF Applying, Stopping
<1>3. Valid(frame'.d)
  BY <1>1 DEF Valid
<1> QED BY <1>1, <1>2, <1>3, QuietVerdicts

\* Filing an intent for a Forward that has none, or is deleted already, keeps the
\* stored rows in agreement.
LEMMA IntentsDiffer ==
  ASSUME TypeOK, DesiredAgrees,
         UNCHANGED <<desired, applied, tomb>>,
         \A f \in Forwards : intent'[f] # intent[f] =>
           tomb[f] # None \/ intent[f] = None
  PROVE  DesiredAgrees'
<1> SUFFICES ASSUME NEW f \in Forwards, applied[f] # None, ~desired[f].present,
                    desired[f] # None, Identity(desired[f]) = intent[f]
             PROVE  intent'[f] = intent[f]
  BY DEF DesiredAgrees, Identity
<1>1. Identity(desired[f]) \in Identities
  BY SpecFields DEF TypeOK
<1> QED BY <1>1, ConstantsAssumption DEF DesiredAgrees

\* A snapshot's fences never overwrite the fence a Forward has.
LEMMA FencesOnly ==
  ASSUME TypeOK, NEW d \in SUBSET Specs, intent' \in {intent, WithIntents(AbsentIn(d))}
  PROVE  \A f \in Forwards : Fenced(f) => intent'[f] = intent[f]
BY DEF WithIntents, TypeOK

\* Receiving, converging and fencing a snapshot keep the tables in agreement.
LEMMA ReceiveRows ==
  ASSUME TypeOK, DesiredAgrees, RowsAreFiled, VerdictsHold,
         \/ \E d \in Snapshots : Receive(d) \/ Converge(d)
         \/ PutFences
  PROVE  DesiredAgrees' /\ RowsAreFiled' /\ VerdictsHold'
<1>1. /\ frame \in FrameType /\ UNCHANGED <<desired, applied, tomb, rec>>
      /\ \E d \in SUBSET Specs : intent' \in {intent, WithIntents(AbsentIn(d))}
  <2>1. CASE PutFences
    BY <2>1, FrameFields DEF TypeOK, PutFences
  <2>2. CASE ~PutFences
    BY <2>2, ConstantsAssumption DEF TypeOK, Receive, Converge
  <2> QED BY <2>1, <2>2
<1>2. \A f \in Forwards : Fenced(f) => intent'[f] = intent[f]
  BY <1>1, FencesOnly
<1>3. DesiredAgrees'
  <2>1. \A f \in Forwards : intent'[f] # intent[f] => tomb[f] # None \/ intent[f] = None
    BY <1>2 DEF Fenced
  <2> QED BY <1>1, <2>1, IntentsDiffer
<1>4. RowsAreFiled'
  BY <1>1 DEF RowsAreFiled
<1>5. ASSUME NEW d \in Snapshots, Receive(d) \/ Converge(d) PROVE VerdictsHold'
  <2>1. PICK e \in SUBSET Specs : Valid(e) /\ frame' = [IdleFrame EXCEPT !.pc = "fence", !.d = e]
    BY <1>5, ConstantsAssumption DEF Receive, Converge, AbsentIn, Valid
  <2>2. /\ frame'.pc = "fence" /\ frame'.d = e /\ frame'.left = {} 
        /\ frame'.hot = [f \in Forwards |-> None] /\ frame'.out = [f \in Forwards |-> "none"]
    BY <2>1, IdleFields DEF IdleFrame
  <2> QED BY SMT, <2>1, <2>2 DEF VerdictsHold, FrameInStep, DecisionsHold, DeletionsHold, Applying, Stopping
<1>6. ASSUME PutFences PROVE VerdictsHold'
  <2>1. CASE \E s \in AbsentIn(frame.d) : IntentConflicts(s)
    <3>1. frame' = IdleFrame
      BY <1>6, <2>1 DEF PutFences
    <3> QED BY <3>1, NoVerdicts
  <2>2. CASE ~\E s \in AbsentIn(frame.d) : IntentConflicts(s)
    <3>1. /\ intent' = WithIntents(AbsentIn(frame.d)) /\ frame.pc = "fence"
          /\ frame' = [frame EXCEPT !.pc = "spec", !.left = frame.d]
      BY <1>6, <2>2 DEF PutFences
    <3>2. /\ frame'.pc = "spec" /\ frame'.d = frame.d /\ frame'.left = frame.d /\ frame'.out = frame.out
          /\ frame'.hot = frame.hot
      BY <1>1, <3>1 DEF FrameType
    <3>3. ASSUME NEW s \in frame.d, ~s.present PROVE Fenced(s.f)'
      BY SMT, <1>1, <3>1, <3>3, FrameFields, SpecFields, ConstantsAssumption DEF WithIntents, AbsentIn, Fenced
    <3>4. \A f \in Forwards : frame.out[f] = "none"
      BY <3>1 DEF VerdictsHold, FrameInStep
    <3>5. FrameInStep'
      BY <1>1, <3>2 DEF VerdictsHold, FrameInStep, Stopping
    <3>6. DecisionsHold'
      BY <3>2, <3>3, <3>4 DEF DecisionsHold
    <3>7. DeletionsHold'
      BY <3>2 DEF DeletionsHold, Stopping
    <3> QED BY <3>5, <3>6, <3>7 DEF VerdictsHold
  <2> QED BY <2>1, <2>2
<1> QED BY <1>3, <1>4, <1>5, <1>6

\* A step that touches neither the store nor the recoveries keeps the rows in
\* agreement.
LEMMA RowsSame ==
  ASSUME DesiredAgrees, RowsAreFiled, UNCHANGED <<store, rec>>
  PROVE  DesiredAgrees' /\ RowsAreFiled'
<1>1. UNCHANGED <<desired, applied, intent, tomb, rec>>
  BY DEF store
<1> QED BY SMT, <1>1 DEF DesiredAgrees, RowsAreFiled, Identity

\* Outcome o is one the code may reach for row s: a present row is skipped, applied or
\* failed, an absent one deleted under an intent or already gone.
Fits(s, o) ==
  IF s.present THEN o \in {"skipped", "applied", "failed"}
  ELSE \/ o = "deleted" /\ intent[s.f] # None
       \/ o = "gone" /\ Completed(s.f) /\ tomb[s.f] = Identity(s)

\* Recording an outcome that fits keeps the verdicts.
LEMMA DecidedVerdicts ==
  ASSUME TypeOK, VerdictsHold, UNCHANGED store, frame.pc \in Applying,
         NEW s \in frame.left, NEW o, Fits(s, o),
         frame'.pc = "spec", frame'.d = frame.d, frame'.left = frame.left \ {s},
         frame'.out = [frame.out EXCEPT ![s.f] = o],
         \A f \in Forwards : frame'.hot[f] # None => desired[f] # None
  PROVE  VerdictsHold'
<1>1. UNCHANGED <<desired, applied, intent, tomb>>
  BY DEF store
<1>2. /\ frame.d \in SUBSET Specs /\ frame.out \in [Forwards -> Outcomes]
      /\ frame.left \subseteq frame.d /\ Valid(frame.d)
  BY FrameFields DEF TypeOK, VerdictsHold, FrameInStep
<1>3. s \in frame.d /\ s.f \in Forwards
  BY <1>2, SpecFields
<1>4. FrameInStep'
  BY <1>1, <1>2 DEF FrameInStep, Stopping
<1>5. ASSUME NEW t \in frame.d, ~t.present PROVE Fenced(t.f)'
  BY <1>1, <1>5 DEF VerdictsHold, DecisionsHold, Fenced
<1>6. ASSUME NEW f \in Forwards, frame'.out[f] # "none" PROVE \E t \in frame'.d \ frame'.left : t.f = f
  BY SMT, <1>2, <1>3, <1>6 DEF VerdictsHold, DecisionsHold
<1>7. ASSUME NEW t \in frame'.d \ frame'.left
      PROVE  Fits(t, frame.out[t.f])'
  <2>1. CASE t = s
    BY <1>1, <1>2, <1>3, <2>1 DEF Fits, Completed
  <2>2. CASE t # s
    <3>1. t \in frame.d \ frame.left /\ t.f # s.f /\ t.f \in Forwards
      BY <1>2, <1>3, <2>2, SpecFields DEF Valid
    <3>2. Fits(t, frame.out[t.f]) /\ frame'.out[t.f] = frame.out[t.f]
      BY <1>2, <3>1 DEF VerdictsHold, DecisionsHold, Fits
    <3> QED BY <1>1, <3>2 DEF Fits, Completed
  <2> QED BY <2>1, <2>2
<1>8. DecisionsHold'
  BY <1>5, <1>6, <1>7 DEF DecisionsHold, Fits
<1>9. DeletionsHold'
  BY DEF DeletionsHold, Stopping
<1> QED BY <1>4, <1>8, <1>9 DEF VerdictsHold

\* Moving between the stages of an apply keeps the verdicts.
LEMMA PcVerdicts ==
  ASSUME VerdictsHold, UNCHANGED store, frame.pc \in Applying \cup {"undo"},
         frame'.pc \in Applying => frame.pc \in Applying,
         frame'.pc \in Applying \cup {"undo"}, frame'.pc = "commit" => frame.left = {},
         frame'.d = frame.d, frame'.left = frame.left, frame'.out = frame.out,
         \A f \in Forwards : frame'.hot[f] # None => frame.hot[f] # None
  PROVE  VerdictsHold'
<1>1. UNCHANGED <<desired, applied, intent, tomb>>
  BY DEF store
<1>2. FrameInStep'
  BY <1>1 DEF VerdictsHold, FrameInStep, Stopping, Applying
<1>3. DecisionsHold'
  BY SMT, <1>1 DEF VerdictsHold, DecisionsHold, Applying, Completed, Fenced
<1>4. DeletionsHold'
  BY DEF DeletionsHold, Stopping, Applying
<1> QED BY <1>2, <1>3, <1>4 DEF VerdictsHold

\* Every step between the fences and the commit keeps the tables in agreement.
LEMMA DecideRows ==
  ASSUME TypeOK, DesiredAgrees, RowsAreFiled, VerdictsHold, FrameOwns,
         \/ \E s \in frame.left : DecideAbsent(s) \/ DecideRefused(s) \/ GuardApply(s)
         \/ ApplyBegin \/ ApplyFails \/ ApplyDecide \/ ApplyInstall
         \/ \E a \in Actors : ApplyAcquire(a)
         \/ GuardCommit \/ CommitFails \/ \E f \in Forwards : UndoHotUpdate(f)
  PROVE  DesiredAgrees' /\ RowsAreFiled' /\ VerdictsHold'
<1>1. frame \in FrameType
  BY DEF TypeOK
<1> USE <1>1
<1>2. DesiredAgrees' /\ RowsAreFiled'
  <2>1. UNCHANGED <<store, rec>>
    BY DEF DecideAbsent, DecideRefused, GuardApply, ApplyBegin, ApplyFails, ApplyDecide,
           ApplyInstall, ApplyAcquire, GuardCommit, CommitFails, UndoHotUpdate
  <2> QED BY <2>1, RowsSame
<1>3. ASSUME NEW s \in frame.left, NEW o, Fits(s, o), frame.pc \in Applying, UNCHANGED store,
             frame' = Decided(s, o)
      PROVE  VerdictsHold'
  <2>1. s \in Specs /\ o \in Outcomes
    BY <1>3, FrameFields DEF Fits, Outcomes
  <2>2. /\ frame'.pc = "spec" /\ frame'.d = frame.d /\ frame'.left = frame.left \ {s}
        /\ frame'.out = [frame.out EXCEPT ![s.f] = o] /\ frame'.hot = frame.hot
    BY <1>3, <2>1, DecidedFields
  <2>3. \A f \in Forwards : frame.hot[f] # None => desired[f] # None
    BY DEF VerdictsHold, FrameInStep
  <2> QED BY <1>3, <2>2, <2>3, DecidedVerdicts
<1>4. ASSUME NEW s \in frame.left, DecideAbsent(s) \/ DecideRefused(s) PROVE VerdictsHold'
  <2>1. UNCHANGED store /\ frame.pc \in Applying /\ s \in frame.d
    BY <1>4 DEF DecideAbsent, DecideRefused, Applying, VerdictsHold, FrameInStep
  <2>2. CASE DecideRefused(s)
    BY <1>3, <2>1, <2>2 DEF DecideRefused, Fits
  <2>3. CASE DecideAbsent(s)
    <3>1. ~s.present /\ Fenced(s.f)
      BY <2>1, <2>3 DEF DecideAbsent, VerdictsHold, DecisionsHold
    <3>2. CASE ~Completed(s.f)
      <4>1. Fits(s, "deleted")
        BY <3>1, <3>2 DEF Fits, Completed, Fenced
      <4> QED BY <1>3, <2>1, <2>3, <3>2, <4>1 DEF DecideAbsent
    <3>3. CASE Completed(s.f) /\ tomb[s.f] = Identity(s)
      <4>1. Fits(s, "gone")
        BY <3>1, <3>3 DEF Fits
      <4> QED BY <1>3, <2>1, <2>3, <3>3, <4>1 DEF DecideAbsent
    <3>4. CASE Completed(s.f) /\ tomb[s.f] # Identity(s)
      BY <2>3, <3>4, NoVerdicts DEF DecideAbsent
    <3> QED BY <3>2, <3>3, <3>4
  <2> QED BY <1>4, <2>2, <2>3
<1>5. ASSUME NEW s \in frame.left, GuardApply(s) PROVE VerdictsHold'
  <2>1. /\ UNCHANGED store /\ frame.pc \in Applying /\ frame'.pc \in {"op", "undo"}
        /\ frame'.d = frame.d /\ frame'.left = frame.left
        /\ frame'.out = frame.out /\ frame'.hot = frame.hot
    BY <1>5 DEF GuardApply, Applying, FrameType
  <2> QED BY <2>1, PcVerdicts DEF Applying
<1>6. ASSUME frame.pc \in {"op", "clean", "acquire", "install"}
      PROVE  frame.s \in frame.left /\ frame.pc \in Applying /\ \A o \in {"applied", "failed"} : Fits(frame.s, o)
  BY <1>6 DEF FrameOwns, Applying, Fits
<1>7. ASSUME frame.pc \in {"op", "clean", "acquire", "install"}, UNCHANGED store,
             frame' = Decided(frame.s, "failed")
      PROVE  VerdictsHold'
  BY <1>3, <1>6, <1>7
<1>8. ASSUME frame.pc \in {"clean", "install"}, UNCHANGED store, NEW a, EndApplied(a)
      PROVE  VerdictsHold'
  <2> DEFINE f == frame.s.f
  <2>3. frame.s \in Specs
    BY <1>6, <1>8, FrameFields
  <2>4. /\ frame'.pc = "spec" /\ frame'.d = frame.d /\ frame'.left = frame.left \ {frame.s}
        /\ frame'.out = [frame.out EXCEPT ![frame.s.f] = "applied"]
        /\ frame'.hot = [frame.hot EXCEPT ![f] = IF applied[f] # None /\ desired[f] # None THEN a ELSE @]
    BY <1>8, <2>3, AppliedFields
  <2>5. \A g \in Forwards : frame'.hot[g] # None => desired[g] # None
    <3>1. \A g \in Forwards : frame.hot[g] # None => desired[g] # None
      BY DEF VerdictsHold, FrameInStep
    <3>2. frame.hot \in [Forwards -> Actors \cup {None}]
      BY FrameFields
    <3> HIDE DEF f
    <3> QED BY <2>4, <3>1, <3>2
  <2> QED BY <1>6, <1>8, <2>4, <2>5, DecidedVerdicts
<1>9. ASSUME ApplyBegin \/ ApplyFails \/ ApplyDecide \/ ApplyInstall PROVE VerdictsHold'
  <2>1. CASE ApplyBegin
    <3>1. CASE frame' = Decided(frame.s, "failed")
      BY <1>7, <2>1, <3>1 DEF ApplyBegin
    <3>2. CASE frame' = [frame EXCEPT !.pc = "clean", !.gen = gen]
      <4>1. /\ frame'.pc = "clean" /\ frame'.d = frame.d /\ frame'.left = frame.left
            /\ frame'.out = frame.out /\ frame'.hot = frame.hot
        BY <3>2 DEF FrameType
      <4> QED BY <2>1, <4>1, PcVerdicts DEF ApplyBegin, Applying
    <3> QED BY <2>1, <3>1, <3>2 DEF ApplyBegin
  <2>2. CASE ApplyFails
    BY <1>7, <2>2 DEF ApplyFails, EndApply
  <2>3. CASE ApplyDecide
    <3>1. CASE frame' = [frame EXCEPT !.pc = "acquire"]
      <4>1. /\ frame'.pc = "acquire" /\ frame'.d = frame.d /\ frame'.left = frame.left
            /\ frame'.out = frame.out /\ frame'.hot = frame.hot
        BY <3>1 DEF FrameType
      <4> QED BY <2>3, <4>1, PcVerdicts DEF ApplyDecide, Applying
    <3> QED BY <1>7, <1>8, <2>3, <3>1 DEF ApplyDecide, EndApply
  <2>4. CASE ApplyInstall
    BY <1>7, <1>8, <2>4 DEF ApplyInstall, EndApply
  <2> QED BY <1>9, <2>1, <2>2, <2>3, <2>4
<1>10. ASSUME \/ GuardCommit \/ CommitFails
              \/ \E a \in Actors : ApplyAcquire(a)
              \/ \E f \in Forwards : UndoHotUpdate(f)
       PROVE  VerdictsHold'
  <2>1. /\ UNCHANGED store
        /\ frame'.d = frame.d /\ frame'.left = frame.left /\ frame'.out = frame.out
        /\ frame'.pc = "commit" => frame.left = {}
    <3>1. CASE GuardCommit \/ CommitFails
      BY <3>1 DEF GuardCommit, CommitFails, FrameType
    <3>2. ASSUME NEW a \in Actors, ApplyAcquire(a)
          PROVE  /\ UNCHANGED store
                 /\ frame'.d = frame.d /\ frame'.left = frame.left /\ frame'.out = frame.out
                 /\ frame'.pc = "install"
      BY <3>2 DEF ApplyAcquire, FrameType
    <3>3. ASSUME NEW f \in Forwards, UndoHotUpdate(f)
          PROVE  /\ UNCHANGED store
                 /\ frame'.d = frame.d /\ frame'.left = frame.left /\ frame'.out = frame.out
                 /\ frame'.pc = "undo"
      BY <3>3 DEF UndoHotUpdate, FrameType
    <3> QED BY <1>10, <3>1, <3>2, <3>3
  <2>2. /\ frame.pc \in {"spec", "commit", "acquire", "undo"}
        /\ frame'.pc \in {"commit", "undo", "install"}
        /\ frame.pc = "undo" => frame'.pc = "undo"
    BY <1>10 DEF GuardCommit, CommitFails, ApplyAcquire, UndoHotUpdate, FrameType
  <2>3. \A f \in Forwards : frame'.hot[f] # None => frame.hot[f] # None
    <3>1. CASE GuardCommit \/ CommitFails \/ \E a \in Actors : ApplyAcquire(a)
      BY <3>1 DEF GuardCommit, CommitFails, ApplyAcquire, FrameType
    <3>2. ASSUME NEW f \in Forwards, UndoHotUpdate(f)
          PROVE  frame'.hot = [frame.hot EXCEPT ![f] = None]
      BY <3>2 DEF UndoHotUpdate, FrameType
    <3>3. frame.hot \in [Forwards -> Actors \cup {None}]
      BY FrameFields
    <3> QED BY <1>10, <3>1, <3>2, <3>3
  <2> QED BY <2>1, <2>2, <2>3, PcVerdicts DEF Applying
<1> QED BY <1>2, <1>4, <1>5, <1>9, <1>10

\* What the commit writes for a row of the snapshot.
LEMMA CommitRow ==
  ASSUME TypeOK, VerdictsHold, Commit, NEW c \in frame.d
  PROVE  /\ c \in Specs /\ c.f \in Forwards /\ Fits(c, frame.out[c.f])
         /\ ~MergeConflicts(c) /\ ~OutcomeConflicts(c, frame.out[c.f])
         /\ ~c.present => Fenced(c.f)
         /\ desired'[c.f] = Merged(c)
         /\ frame.out[c.f] = "applied" => applied'[c.f] = c
         /\ frame.out[c.f] = "deleted" => applied'[c.f] = None
         /\ frame.out[c.f] \notin {"applied", "deleted"} => applied'[c.f] = applied[c.f]
         /\ tomb'[c.f] = IF frame.out[c.f] = "deleted" THEN Identity(c) ELSE tomb[c.f]
<1>1. /\ frame.d \in SUBSET Specs /\ Valid(frame.d) /\ frame.left = {} /\ frame.pc \in Applying
      /\ c \in Specs /\ c.f \in Forwards
  BY FrameFields, SpecFields DEF TypeOK, VerdictsHold, FrameInStep, Commit, Applying
<1>2. (CHOOSE t \in frame.d : t.f = c.f) = c
  BY <1>1, ChooseSpec
<1>3. Fits(c, frame.out[c.f]) /\ (~c.present => Fenced(c.f))
  BY <1>1 DEF VerdictsHold, DecisionsHold, Fits
<1>4. ~MergeConflicts(c) /\ ~OutcomeConflicts(c, frame.out[c.f])
  BY DEF Commit, CommitPossible
<1>5. desired'[c.f] = Merged(c)
  BY <1>1, <1>2 DEF Commit, MergedRows
<1>6. tomb'[c.f] = IF frame.out[c.f] = "deleted" THEN Identity(c) ELSE tomb[c.f]
  <2>1. tomb'[c.f] = IF frame.out[c.f] = "deleted"
                     THEN Identity(CHOOSE t \in frame.d : t.f = c.f) ELSE tomb[c.f]
    BY <1>1 DEF Commit
  <2> QED BY <1>2, <2>1
<1>7. /\ frame.out[c.f] = "applied" => applied'[c.f] = c
      /\ frame.out[c.f] = "deleted" => applied'[c.f] = None
      /\ frame.out[c.f] \notin {"applied", "deleted"} => applied'[c.f] = applied[c.f]
  BY <1>1, <1>2 DEF Commit
<1> QED BY <1>1, <1>3, <1>4, <1>5, <1>6, <1>7

\* The commit leaves a Forward the snapshot does not name alone.
LEMMA UncommittedRow ==
  ASSUME TypeOK, VerdictsHold, Commit, NEW f \in Forwards, \A s \in frame.d : s.f # f
  PROVE  desired'[f] = desired[f] /\ applied'[f] = applied[f] /\ tomb'[f] = tomb[f]
         /\ frame.out[f] = "none"
<1>1. frame.out[f] = "none"
  BY DEF VerdictsHold, DecisionsHold, Commit, Applying
<1>2. desired'[f] = desired[f]
  BY DEF Commit, MergedRows
<1>3. applied'[f] = applied[f] /\ tomb'[f] = tomb[f]
  BY <1>1 DEF Commit
<1> QED BY <1>1, <1>2, <1>3

\* What one Forward's rows must agree on.
RowAgrees(f) ==
  /\ applied[f] # None =>
       /\ desired[f] # None
       /\ \/ desired[f].rev >= applied[f].rev
          \/ ~desired[f].present /\ Identity(desired[f]) = intent[f]
  /\ tomb[f] # None =>
       /\ applied[f] = None
       /\ desired[f] # None /\ ~desired[f].present /\ Identity(desired[f]) = tomb[f]

\* The row the commit writes agrees with the applied row, the intent and the tombstone.
LEMMA CommitAgrees ==
  ASSUME TypeOK, VerdictsHold, DesiredAgrees, Commit, NEW c \in frame.d
  PROVE  RowAgrees(c.f)'
<1> DEFINE f == c.f
           o == frame.out[f]
           cur == desired[f]
<1>1. /\ c \in Specs /\ f \in Forwards /\ Fits(c, o) /\ ~MergeConflicts(c)
      /\ ~OutcomeConflicts(c, o) /\ (~c.present => Fenced(f)) /\ desired'[f] = Merged(c)
      /\ tomb'[f] = IF o = "deleted" THEN Identity(c) ELSE tomb[f]
      /\ o = "applied" => applied'[f] = c
      /\ o = "deleted" => applied'[f] = None
      /\ o \notin {"applied", "deleted"} => applied'[f] = applied[f]
  BY CommitRow
<1>2. /\ desired[f] \in Specs \cup {None} /\ applied[f] \in Specs \cup {None}
      /\ intent[f] \in Identities \cup {None} /\ tomb[f] \in Identities \cup {None}
      /\ intent' = intent /\ c # None /\ None \notin Identities /\ None \notin Specs
      /\ c.rev \in Nat /\ (cur # None => cur.rev \in Nat)
      /\ (applied[f] # None => applied[f].rev \in Nat)
      /\ c.present \in BOOLEAN /\ (cur # None => cur.present \in BOOLEAN)
  BY SMT, <1>1, SpecFields, ConstantsAssumption DEF TypeOK, Commit, Specs
<1>3. RowAgrees(f)
  BY <1>1 DEF DesiredAgrees, RowAgrees
<1> HIDE DEF f, o, cur
<1>4. CASE ~c.present
  <2>1. Merged(c) = c /\ Identity(c) = FenceIdentity(f) /\ Identity(c) \in Identities
    BY <1>1, <1>4, SpecFields DEF Merged, MergeConflicts, f
  <2>2. CASE o = "deleted"
    BY <1>1, <1>2, <1>4, <2>1, <2>2 DEF RowAgrees, f
  <2>3. CASE o = "gone"
    BY <1>1, <1>2, <1>3, <1>4, <2>1, <2>3 DEF RowAgrees, f, Fits
  <2> QED BY <1>1, <1>4, <2>2, <2>3 DEF Fits
<1>5. CASE c.present /\ ~Fenced(f)
  <2>1. tomb[f] = None /\ intent[f] = None /\ tomb'[f] = None /\ o # "deleted"
    BY <1>1, <1>5 DEF Fenced, Fits
  <2>2. /\ Merged(c) = IF cur # None /\ cur.rev > c.rev THEN cur ELSE c
        /\ Merged(c) # None /\ Merged(c).rev >= c.rev
        /\ cur # None => Merged(c).rev >= cur.rev
    BY SMT, <1>1, <1>2, <1>5 DEF Merged, f, cur
  <2>3. applied[f] # None => cur # None /\ cur.rev >= applied[f].rev
    <3>1. ASSUME applied[f] # None, ~cur.present, cur # None PROVE Identity(cur) # intent[f]
      BY <1>2, <2>1, <3>1, SpecFields DEF Identities, cur
    <3> QED BY <1>2, <1>3, <3>1 DEF RowAgrees, cur
  <2>4. applied'[f] \in {c, applied[f]} /\ Merged(c).rev \in Nat
    BY <1>1, <1>2, <2>1, <2>2
  <2>5. applied'[f] # None => desired'[f] # None /\ desired'[f].rev >= applied'[f].rev
    <3>1. desired'[f] # None /\ desired'[f].rev >= c.rev
      BY <1>1, <2>2
    <3>2. applied[f] # None => desired'[f].rev >= applied[f].rev
      <4>1. cur # None => desired'[f].rev >= cur.rev
        BY <1>1, <2>2
      <4> QED BY SMT, <1>1, <1>2, <2>3, <2>4, <4>1
    <3> QED BY <2>4, <3>1, <3>2
  <2> QED BY <2>1, <2>5 DEF RowAgrees, f
<1>6. CASE c.present /\ Fenced(f)
  <2>1. applied'[f] = applied[f] /\ tomb'[f] = tomb[f]
    BY <1>1, <1>6 DEF Fits, OutcomeConflicts, f
  <2>2. Merged(c) \in Specs /\ ~Merged(c).present /\ Identity(Merged(c)) = FenceIdentity(f)
    <3>1. CASE cur # None /\ ~cur.present
      <4>1. Merged(c) = cur /\ Identity(cur) = FenceIdentity(f)
        BY <1>1, <1>6, <3>1 DEF Merged, MergeConflicts, f, cur
      <4> QED BY <1>2, <3>1, <4>1 DEF cur
    <3>2. CASE ~(cur # None /\ ~cur.present)
      <4>1. Merged(c) = [c EXCEPT !.present = FALSE, !.op = FenceIdentity(f).op,
                               !.rev = FenceIdentity(f).rev]
        BY <1>6, <3>2 DEF Merged, f, cur
      <4>2. FenceIdentity(f) \in Identities
        BY <1>2, <1>6 DEF FenceIdentity, Fenced
      <4>3. Merged(c) \in Specs
        BY <1>1, MergedTyped
      <4>4. FenceIdentity(f) = [op |-> FenceIdentity(f).op, rev |-> FenceIdentity(f).rev]
        BY <4>2 DEF Identities
      <4>5. /\ ~Merged(c).present /\ Merged(c).op = FenceIdentity(f).op
            /\ Merged(c).rev = FenceIdentity(f).rev
        BY <1>1, <4>1 DEF Specs, Presents, Absents
      <4> QED BY <4>3, <4>4, <4>5 DEF Identity
    <3> QED BY <3>1, <3>2
  <2>3. CASE tomb[f] = None
    BY <1>1, <1>2, <1>6, <2>1, <2>2, <2>3 DEF RowAgrees, f, FenceIdentity
  <2>4. CASE tomb[f] # None
    BY <1>1, <1>2, <1>3, <2>1, <2>2, <2>4 DEF RowAgrees, f, FenceIdentity
  <2> QED BY <2>3, <2>4
<1> QED BY <1>2, <1>4, <1>5, <1>6 DEF f

\* The commit keeps the tables in agreement.
LEMMA CommitRows ==
  ASSUME TypeOK, DesiredAgrees, RowsAreFiled, VerdictsHold, Commit
  PROVE  DesiredAgrees' /\ RowsAreFiled' /\ VerdictsHold'
<1>1. /\ frame \in FrameType /\ frame.d \in SUBSET Specs /\ frame.pc = "commit"
      /\ intent' = intent /\ rec' = rec
  BY FrameFields DEF TypeOK, Commit
<1>2. DesiredAgrees'
  <2>1. ASSUME NEW f \in Forwards PROVE RowAgrees(f)'
    <3>1. CASE \E c \in frame.d : c.f = f
      BY <3>1, CommitAgrees
    <3>2. CASE \A c \in frame.d : c.f # f
      BY SMT, <1>1, <3>2, UncommittedRow DEF RowAgrees, DesiredAgrees, Identity
    <3> QED BY <3>1, <3>2
  <2> QED BY <2>1 DEF DesiredAgrees, RowAgrees
<1>3. RowsAreFiled'
  <2>1. ASSUME NEW f \in Forwards
        PROVE  (desired'[f] # None => desired'[f].f = f) /\ (applied'[f] # None => applied'[f].f = f)
    <3>1. ASSUME NEW c \in frame.d, c.f = f
          PROVE  desired'[f].f = f /\ (applied'[f] # None => applied'[f].f = f)
      <4>1. Merged(c).f = f
        <5>1. c \in Specs
          BY <1>1
        <5>2. Fenced(f) /\ desired[f] = None => Merged(c).f = f
          <6> SUFFICES ASSUME Fenced(f), desired[f] = None PROVE Merged(c).f = f
            OBVIOUS
          <6> QED BY <3>1, <5>1 DEF Merged, Specs, Presents, Absents
        <5>3. ~Fenced(f) /\ desired[f] = None => Merged(c).f = f
          BY <3>1 DEF Merged
        <5> QED BY <3>1, <5>1, <5>2, <5>3, MergedTyped DEF RowsAreFiled
      <4> QED BY <3>1, <4>1, CommitRow DEF RowsAreFiled
    <3> QED BY <3>1, UncommittedRow DEF RowsAreFiled
  <2> QED BY <1>1, <2>1 DEF RowsAreFiled
<1>4. /\ frame'.pc = "stop" /\ frame'.why = "delete" /\ frame'.d = frame.d /\ frame'.left = frame.left
      /\ frame'.out = frame.out /\ frame'.todo = {f \in Forwards : frame.out[f] = "deleted"}
      /\ \A f \in Forwards : frame'.hot[f] = None
  <2>1. IdleFrame.hot = [f \in Forwards |-> None]
    BY IdleFields
  <2> QED BY <1>1, <2>1 DEF Commit, FrameType
<1>5. FrameInStep'
  BY <1>4 DEF VerdictsHold, FrameInStep
<1>6. DecisionsHold'
  BY <1>4 DEF DecisionsHold, Applying
<1>7. ASSUME NEW c \in frame.d
      PROVE  /\ frame.out[c.f] \in {"deleted", "gone"} => tomb'[c.f] = Identity(c)
             /\ frame.out[c.f] = "gone" => Completed(c.f)'
             /\ frame.out[c.f] = "deleted" => c.f \in frame'.todo
  <2>1. Fits(c, frame.out[c.f]) /\ c.f \in Forwards
    BY CommitRow
  <2>2. tomb'[c.f] = IF frame.out[c.f] = "deleted" THEN Identity(c) ELSE tomb[c.f]
    BY CommitRow
  <2> QED BY <1>1, <1>4, <2>1, <2>2 DEF Fits, Completed
<1>8. ASSUME NEW f \in frame'.todo PROVE tomb'[f] # None /\ \E c \in frame.d : c.f = f
  <2>1. PICK c \in frame.d : c.f = f
    BY <1>4, <1>8, UncommittedRow
  <2>2. Fits(c, "deleted") /\ tomb'[f] = Identity(c) /\ c \in Specs
    BY <1>4, <1>8, <2>1, CommitRow
  <2> QED BY <2>1, <2>2, SpecFields, ConstantsAssumption DEF Fits
<1>9. DeletionsHold'
  BY <1>4, <1>7, <1>8 DEF DeletionsHold
<1> QED BY <1>2, <1>3, <1>5, <1>6, <1>9 DEF VerdictsHold

\* Completing a deletion keeps the tables in agreement.
LEMMA CompleteRows ==
  ASSUME TypeOK, DesiredAgrees, RowsAreFiled, VerdictsHold, Complete
  PROVE  DesiredAgrees' /\ RowsAreFiled' /\ VerdictsHold'
<1>1. PICK f \in Forwards : f = frame.f
  BY FrameFields DEF Complete, TypeOK, VerdictsHold, FrameInStep
<1> DEFINE s == CHOOSE t \in frame.d : t.f = f
           conflict == /\ intent[f] # None
                       /\ intent[f].op # s.op \/ tomb[f] = None \/ tomb[f].op # s.op
<1>2. /\ frame \in FrameType /\ Stopped \in FrameType /\ f \in frame.todo /\ tomb[f] # None
      /\ frame.why = "delete" /\ frame.pc = "complete"
  BY <1>1, StoppedTyped
     DEF TypeOK, Complete, VerdictsHold, FrameInStep, DeletionsHold, Stopping
<1>3. /\ intent' = IF conflict THEN intent ELSE [intent EXCEPT ![f] = None]
      /\ frame' = [Stopped EXCEPT !.out[f] = IF conflict THEN "deleteFailed" ELSE @]
      /\ UNCHANGED <<desired, applied, tomb, rec>>
  BY <1>1 DEF Complete
<1> HIDE DEF conflict, s
<1>4. \A g \in Forwards : intent'[g] # intent[g] => tomb[g] # None
  BY <1>2, <1>3 DEF TypeOK
<1>5. DesiredAgrees' /\ RowsAreFiled'
  BY <1>3, <1>4, IntentsDiffer DEF RowsAreFiled
<1>6. /\ frame'.pc = "stop" /\ frame'.todo = frame.todo \ {f} /\ frame'.why = frame.why
      /\ frame'.d = frame.d /\ frame'.left = frame.left /\ frame'.hot = frame.hot
      /\ frame'.out = [frame.out EXCEPT ![f] = IF conflict THEN "deleteFailed" ELSE @]
  BY <1>1, <1>2, <1>3, StoppedFields DEF FrameType
<1>7. FrameInStep'
  BY <1>2, <1>3, <1>6 DEF VerdictsHold, FrameInStep, Stopping
<1>8. ~conflict => Completed(f)'
  BY <1>2, <1>3 DEF Completed, TypeOK
<1>9. \A g \in Forwards : Completed(g) => Completed(g)'
  BY <1>3 DEF Completed, TypeOK
<1>10. ASSUME NEW t \in frame.d
       PROVE  /\ frame'.out[t.f] \in {"deleted", "gone"} => tomb'[t.f] = Identity(t)
              /\ frame'.out[t.f] = "gone" => Completed(t.f)'
              /\ frame'.out[t.f] = "deleted" => Completed(t.f)' \/ t.f \in frame'.todo
  <2>1. t.f \in Forwards /\ frame'.out[t.f] \in {frame.out[t.f], "deleteFailed"}
    BY SMT, <1>2, <1>6, FrameFields, SpecFields
  <2>2. t.f = f /\ conflict => frame'.out[t.f] = "deleteFailed"
    BY <1>2, <1>6, FrameFields
  <2>3. /\ frame.out[t.f] \in {"deleted", "gone"} => tomb[t.f] = Identity(t)
        /\ frame.out[t.f] = "gone" => Completed(t.f)
        /\ frame.out[t.f] = "deleted" => Completed(t.f) \/ t.f \in frame.todo
    BY <1>2 DEF VerdictsHold, DeletionsHold, Stopping
  <2> QED BY <1>3, <1>6, <1>8, <1>9, <2>1, <2>2, <2>3
<1>11. DeletionsHold'
  BY <1>2, <1>3, <1>6, <1>10 DEF VerdictsHold, DeletionsHold, Stopping
<1>12. DecisionsHold'
  BY <1>6 DEF DecisionsHold, Applying
<1> QED BY <1>5, <1>7, <1>11, <1>12 DEF VerdictsHold

\* Stopping Forwards keeps the tables in agreement.
LEMMA StopRows ==
  ASSUME TypeOK, DesiredAgrees, RowsAreFiled, VerdictsHold, UndoNewActors \/ StopForwards
  PROVE  DesiredAgrees' /\ RowsAreFiled' /\ VerdictsHold'
<1>1. frame \in FrameType
  BY DEF TypeOK
<1> USE <1>1, FrameFields
<1> USE DEF Identity
<1>2. ASSUME ~Complete PROVE UNCHANGED <<store, rec>>
  BY <1>2 DEF UndoNewActors, StopForwards, Stop, StopReturns, StopFails, StopsOver, Report,
              Decommission, StopAll
<1>3. ASSUME ~Complete PROVE DesiredAgrees' /\ RowsAreFiled'
  BY <1>2, <1>3, RowsSame
<1>4. ASSUME NEW pc \in {"stop", "wait", "complete", "report"}, frame.pc \in Stopping,
             UNCHANGED store, frame'.pc = pc, frame'.why = frame.why,
             frame'.d = frame.d, frame'.left = frame.left, frame'.hot = frame.hot,
             pc \in {"complete", "report"} => frame.why = "delete",
             pc \in {"wait", "complete"} => frame'.f \in frame'.todo,
             pc = "report" => frame'.todo = {}, frame'.todo \subseteq frame.todo,
             frame.why = "delete" => \A s \in frame.d :
               /\ frame'.out[s.f] \in {frame.out[s.f], "deleteFailed"}
               /\ frame'.out[s.f] = "deleted" /\ s.f \in frame.todo => s.f \in frame'.todo
      PROVE  VerdictsHold'
  <2>1. UNCHANGED <<desired, applied, intent, tomb>>
    BY <1>4 DEF store
  <2>2. FrameInStep'
    BY SMT, <1>4, <2>1 DEF VerdictsHold, FrameInStep, Stopping
  <2>3. DecisionsHold'
    BY <1>4 DEF DecisionsHold, Applying
  <2>4. DeletionsHold'
    BY SMT, <1>4, <2>1 DEF VerdictsHold, DeletionsHold, Completed
  <2> QED BY <2>2, <2>3, <2>4 DEF VerdictsHold
<1>5. ASSUME UndoNewActors \/ StopAll PROVE VerdictsHold'
  <2>1. /\ frame'.pc = "stop" /\ frame'.why \in {"undo", "terminal"} /\ frame'.d = frame.d
        /\ frame'.left = frame.left /\ frame'.hot = frame.hot /\ desired' = desired
    BY <1>5 DEF UndoNewActors, StopAll, FrameType, store
  <2>2. FrameInStep'
    BY <2>1 DEF VerdictsHold, FrameInStep
  <2>3. DecisionsHold' /\ DeletionsHold'
    BY <2>1 DEF DecisionsHold, DeletionsHold, Applying
  <2> QED BY <2>2, <2>3 DEF VerdictsHold
<1>6. ASSUME NEW f \in Forwards, Stop(f) PROVE VerdictsHold'
  <2>1. /\ frame'.pc = "wait" /\ frame'.f = f /\ f \in frame.todo /\ frame'.todo = frame.todo
        /\ frame'.why = frame.why /\ frame'.d = frame.d /\ frame'.left = frame.left
        /\ frame'.hot = frame.hot /\ frame'.out = frame.out
    BY <1>6 DEF Stop, FrameType
  <2> QED BY <1>4, <1>6, <2>1 DEF Stop, Stopping
<1>7. ASSUME StopReturns PROVE VerdictsHold'
  <2>1. CASE frame.why = "delete"
    <3>1. /\ frame'.pc = "complete" /\ frame'.f = frame.f /\ frame'.todo = frame.todo
          /\ frame'.why = frame.why /\ frame'.d = frame.d /\ frame'.left = frame.left
          /\ frame'.hot = frame.hot /\ frame'.out = frame.out
      BY <1>7, <2>1 DEF StopReturns, FrameType
    <3>2. frame.f \in frame.todo
      BY <1>7 DEF StopReturns, VerdictsHold, FrameInStep
    <3> QED BY <1>4, <1>7, <2>1, <3>1, <3>2 DEF StopReturns, Stopping
  <2>2. CASE frame.why # "delete"
    BY <1>4, <1>7, <2>2, StoppedFields DEF StopReturns, Stopping
  <2> QED BY <2>1, <2>2
<1>8. ASSUME StopFails PROVE VerdictsHold'
  <2>1. Stopped \in FrameType /\ frame.f \in Forwards /\ frame.f \in frame.todo
    BY <1>8, StoppedTyped DEF StopFails, VerdictsHold, FrameInStep
  <2>2. /\ frame'.pc = "stop" /\ frame'.todo = frame.todo \ {frame.f}
        /\ frame'.why = frame.why /\ frame'.d = frame.d /\ frame'.left = frame.left
        /\ frame'.hot = frame.hot
        /\ frame'.out = [frame.out EXCEPT ![frame.f] = IF frame.why = "delete" THEN "deleteFailed" ELSE @]
    BY <1>8, <2>1, StoppedFields DEF StopFails, FrameType
  <2>3. frame.why = "delete" => \A s \in frame.d :
               /\ frame'.out[s.f] \in {frame.out[s.f], "deleteFailed"}
               /\ frame'.out[s.f] = "deleted" /\ s.f \in frame.todo => s.f \in frame'.todo
    BY <2>1, <2>2, SpecFields
  <2> QED BY <1>4, <1>8, <2>2, <2>3 DEF StopFails, Stopping
<1>9. ASSUME StopsOver \/ Report \/ Decommission PROVE VerdictsHold'
  <2>1. \A pc \in {"terminal", "stopall"} : frame' = [IdleFrame EXCEPT !.pc = pc] => VerdictsHold'
    BY IdleVerdicts DEF Applying, Stopping
  <2>2. ASSUME StopsOver, frame' = [frame EXCEPT !.pc = "report"], frame.why = "delete"
        PROVE  VerdictsHold'
    <3>1. /\ frame'.pc = "report" /\ frame'.todo = frame.todo /\ frame.todo = {}
          /\ frame'.why = frame.why /\ frame'.d = frame.d /\ frame'.left = frame.left
          /\ frame'.hot = frame.hot /\ frame'.out = frame.out
      BY <2>2 DEF StopsOver, FrameType
    <3> QED BY <1>4, <2>2, <3>1 DEF StopsOver, Stopping
  <2>3. CASE StopsOver
    BY <2>1, <2>2, <2>3, NoVerdicts DEF StopsOver
  <2> QED BY <1>9, <2>1, <2>3, NoVerdicts DEF Report, Decommission
<1> QED BY <1>3, <1>5, <1>6, <1>7, <1>8, <1>9, CompleteRows DEF StopForwards

\* Recoveries, retries, the monitor and the process never write to the store.
LEMMA OthersKeepStore ==
  ASSUME Environment \/ Watch \/ (\E r \in Recoverers : Recover(r)) \/ \E r \in Retries : Retry(r)
  PROVE  UNCHANGED store
<1>1. ASSUME NEW r \in Recoverers, Recover(r) PROVE UNCHANGED store
  BY <1>1 DEF Recover, RecSkip, RecPick, RecBegin, RecAcquire, RecAcquireFails, RecFence, RecLock,
     RecCheck, RecPublish, RecReplayFails, RecEnd
<1>2. CASE Environment \/ Watch \/ \E r \in Retries : Retry(r)
  BY <1>2 DEF Environment, NetChange, Crash, Boot, BootFails, ProcessGone, RunError, Clean, Watch,
     MonitorTick, MonitorRests, MonitorLoses, MonitorRestores, MonitorRebuilds, MonitorFails, Lose, Retry
<1> QED BY <1>1, <1>2

\* Every step keeps the stored rows, the recoveries' lists and the verdicts in
\* agreement.
LEMMA TablesKept ==
  ASSUME TypeOK, DesiredAgrees, RowsAreFiled, VerdictsHold, FrameOwns, [Next]_vars
  PROVE  DesiredAgrees' /\ RowsAreFiled' /\ VerdictsHold'
<1> DEFINE Others == \/ Environment \/ Watch \/ (\E r \in Recoverers : Recover(r))
                     \/ \E r \in Retries : Retry(r)
<1>1. ASSUME UNCHANGED <<store, frame>> PROVE VerdictsHold'
  <2>1. UNCHANGED <<desired, intent, tomb, frame>>
    BY <1>1 DEF store
  <2> QED BY SMT, <2>1 DEF VerdictsHold, FrameInStep, DecisionsHold, DeletionsHold, Fenced, Completed, Identity
<1>2. CASE UNCHANGED vars
  BY <1>1, <1>2, RowsSame DEF vars
<1>3. CASE Reconcile \/ StopForwards
  BY <1>3, ReceiveRows, DecideRows, CommitRows, StopRows DEF Reconcile
<1>4. CASE Others
  <2>1. UNCHANGED store
    BY <1>4, OthersKeepStore
  <2>2. UNCHANGED <<desired, applied, intent, tomb>>
    BY <2>1 DEF store
  <2>3. DesiredAgrees'
    BY <2>2 DEF DesiredAgrees, Identity
  <2>4. RowsAreFiled'
    <3>1. ASSUME NEW r \in Recoverers, NEW f \in Forwards, rec'[r].list[f] # None
          PROVE  rec'[r].list[f].f = f
      <4>1. rec'[r].list[f] \in {None, applied[f], rec[r].list[f]}
        BY RecSteps
      <4> QED BY <3>1, <4>1 DEF RowsAreFiled
    <3> QED BY <2>2, <3>1 DEF RowsAreFiled
  <2>5. \/ frame' \in {frame, IdleFrame}
        \/ \E pc \in {"down", "idle", "boot"} : frame' = [IdleFrame EXCEPT !.pc = pc]
    BY <1>4 DEF Environment, NetChange, Crash, Boot, BootFails, ProcessGone, RunError, Clean, Watch,
       MonitorTick, MonitorRests, MonitorLoses, MonitorRestores, MonitorRebuilds, MonitorFails,
       Retry, Recover, RecSkip, RecPick, RecBegin, RecAcquire, RecAcquireFails, RecFence, RecLock,
       RecCheck, RecPublish, RecReplayFails, RecEnd
  <2>6. VerdictsHold'
    BY <1>1, <2>1, <2>5, IdleVerdicts, NoVerdicts DEF Applying, Stopping
  <2> QED BY <2>3, <2>4, <2>6
<1> QED BY <1>2, <1>3, <1>4 DEF Next

\* Only receiving, fencing, committing and completing write to the store.
LEMMA StoreKept ==
  ASSUME [Next]_vars, ~PutFences, ~(\E d \in Snapshots : Receive(d) \/ Converge(d)), ~Commit, ~Complete
  PROVE  UNCHANGED store
<1>1. CASE UNCHANGED vars
  BY <1>1 DEF vars
<1>2. CASE Reconcile
  BY <1>2 DEF Reconcile, DecideAbsent, DecideRefused, GuardApply, ApplyBegin, ApplyFails,
     ApplyDecide, ApplyAcquire, ApplyInstall, GuardCommit, CommitFails, UndoHotUpdate, UndoNewActors
<1>3. CASE StopForwards
  BY <1>3 DEF StopForwards, Stop, StopReturns, StopFails, StopsOver, Report, Decommission, StopAll
<1> QED BY <1>1, <1>2, <1>3, OthersKeepStore DEF Next

\* Fences and completed deletions are for good, and a deletion becomes complete only at
\* the step that has just stopped its Forward.
LEMMA NewlyCompleted ==
  ASSUME TypeOK, DesiredAgrees, VerdictsHold, [Next]_vars, NEW f \in Forwards
  PROVE  /\ Fenced(f) => Fenced(f)'
         /\ Completed(f) => Completed(f)'
         /\ ~Completed(f) /\ Completed(f)' =>
              /\ frame.pc = "complete" /\ frame.why = "delete" /\ frame.f = f
              /\ UNCHANGED <<forwards, pending, actor, rec>>
<1>1. ASSUME UNCHANGED store
      PROVE  Fenced(f)' = Fenced(f) /\ Completed(f)' = Completed(f)
  BY <1>1 DEF store, Fenced, Completed
<1>2. ASSUME NEW A, intent' = WithIntents(A), tomb' = tomb
      PROVE  (Fenced(f) => Fenced(f)') /\ Completed(f)' = Completed(f)
  <2>1. Fenced(f) => intent'[f] = intent[f]
    BY <1>2 DEF WithIntents
  <2> QED BY <1>2, <2>1 DEF Fenced, Completed
<1>3. CASE PutFences \/ \E d \in Snapshots : Receive(d) \/ Converge(d)
  BY <1>1, <1>2, <1>3 DEF PutFences, Receive, Converge, store
<1>4. CASE Commit
  <2>1. intent' = intent /\ (frame.out[f] # "deleted" => tomb'[f] = tomb[f])
    BY <1>4 DEF Commit
  <2>2. ASSUME frame.out[f] = "deleted" PROVE tomb'[f] # None /\ intent[f] # None
    <3>1. PICK c \in frame.d : c.f = f
      BY <1>4, <2>2, VerdictSpec DEF Commit
    <3>2. c \in Specs /\ ~c.present /\ intent[f] # None /\ tomb'[f] = Identity(c)
      BY <1>4, <2>2, <3>1, CommitRow DEF Fits
    <3> QED BY SMT, <3>2, SpecFields, ConstantsAssumption
  <2> QED BY <2>1, <2>2 DEF Fenced, Completed
<1>5. CASE Complete
  <2>1. frame.pc = "complete" /\ frame.why = "delete" /\ frame.f \in frame.todo /\ tomb[frame.f] # None
    BY <1>5 DEF Complete, VerdictsHold, FrameInStep, DeletionsHold, Stopping
  <2>2. /\ tomb' = tomb /\ UNCHANGED <<forwards, pending, actor, rec>>
        /\ intent'[f] # intent[f] => f = frame.f /\ intent'[f] = None
    BY <1>5 DEF Complete, plane, TypeOK
  <2> QED BY <2>1, <2>2 DEF Fenced, Completed
<1> QED BY <1>1, <1>3, <1>4, <1>5, StoreKept

\* How the frame loop comes to stop Forwards: by its own stop steps, or to start a stop
\* that is not the terminal one.
LEMMA FrameSteps ==
  ASSUME TypeOK, VerdictsHold, FrameOwns, [Next]_vars
  PROVE  \/ frame' = frame
         \/ StopForwards
         \/ frame'.pc \notin Stopping \cup {"stopall", "terminal"}
         \/ frame'.pc = "stop" /\ frame'.why # "terminal"
<1> DEFINE Goal == \/ frame' = frame
                   \/ StopForwards
                   \/ frame'.pc \notin Stopping \cup {"stopall", "terminal"}
                   \/ frame'.pc = "stop" /\ frame'.why # "terminal"
<1>1. frame \in FrameType
  BY DEF TypeOK
<1>2. ASSUME NEW pc \in {"fence", "down", "idle", "boot"}, frame' = [IdleFrame EXCEPT !.pc = pc] PROVE Goal
  BY <1>2 DEF IdleFrame, Stopping
<1>3. frame' = IdleFrame => Goal
  BY SMT DEF IdleFrame, Stopping
<1>4. ASSUME NEW s \in Specs, NEW o \in Outcomes, frame' = Decided(s, o) PROVE Goal
  BY <1>1, <1>4, DecidedFields DEF Stopping
<1>5. CASE Reconcile
  <2>1. ASSUME NEW d \in Snapshots, Receive(d) \/ Converge(d) PROVE Goal
    <3>1. frame'.pc = "fence"
      BY <2>1 DEF Receive, Converge, IdleFrame
    <3> QED BY <3>1 DEF Stopping
  <2>2. CASE PutFences
    BY <1>1, <1>3, <2>2 DEF PutFences, FrameType, Stopping
  <2>3. ASSUME NEW s \in frame.left, DecideAbsent(s) \/ DecideRefused(s) PROVE Goal
    BY <1>1, <1>3, <1>4, <2>3, FrameFields DEF DecideAbsent, DecideRefused, Outcomes
  <2>4. ASSUME NEW s \in frame.left, GuardApply(s) PROVE Goal
    BY <1>1, <2>4 DEF GuardApply, FrameType, Stopping
  <2>5. ASSUME frame.pc \in {"op", "clean", "acquire", "install"} PROVE frame.s \in Specs
    BY <1>1, <2>5, FrameFields DEF FrameOwns
  <2>6. ASSUME NEW a, frame.pc \in {"op", "clean", "acquire", "install"}, EndApplied(a)
        PROVE  frame'.pc = "spec"
    <3>1. Decided(frame.s, "applied").pc = "spec"
      BY <1>1 DEF Decided, FrameType
    <3> QED BY SMT, <2>6, <3>1 DEF EndApplied, Decided
  <2>7. CASE ApplyBegin \/ ApplyFails
    BY <1>1, <1>4, <2>5, <2>7 DEF ApplyBegin, ApplyFails, EndApply, FrameType, Stopping, Outcomes
  <2>8. CASE ApplyDecide \/ ApplyInstall
    <3>1. /\ frame.pc \in {"clean", "install"}
          /\ \/ frame' = Decided(frame.s, "failed")
             \/ EndApplied(None)
             \/ EndApplied(forwards[frame.s.f])
             \/ frame' = [frame EXCEPT !.pc = "acquire"]
      BY <2>8 DEF ApplyDecide, ApplyInstall, EndApply
    <3>2. CASE frame' = [frame EXCEPT !.pc = "acquire"]
      BY <1>1, <3>2 DEF FrameType, Stopping
    <3>3. ASSUME frame'.pc = "spec" PROVE Goal
      BY <3>3 DEF Stopping
    <3>4. frame.s \in Specs /\ "failed" \in Outcomes
      BY <2>5, <3>1 DEF Outcomes
    <3>5. CASE frame' = Decided(frame.s, "failed")
      BY <1>4, <3>4, <3>5
    <3>6. CASE EndApplied(None) \/ EndApplied(forwards[frame.s.f])
      <4>1. frame.pc \in {"op", "clean", "acquire", "install"}
        BY <3>1
      <4>2. frame'.pc = "spec"
        BY SMT, <2>6, <3>6, <4>1
      <4> QED BY <3>3, <4>2
    <3> QED BY <3>1, <3>2, <3>5, <3>6
  <2>9. CASE (\E a \in Actors : ApplyAcquire(a)) \/ \E f \in Forwards : UndoHotUpdate(f)
    BY <1>1, <2>9 DEF ApplyAcquire, UndoHotUpdate, FrameType, Stopping
  <2>10. CASE GuardCommit \/ Commit \/ CommitFails \/ UndoNewActors
    <3>1. \/ frame'.pc \in {"commit", "undo"}
          \/ frame'.pc = "stop" /\ frame'.why \in {"delete", "undo"}
      BY <1>1, <2>10 DEF GuardCommit, Commit, CommitFails, UndoNewActors, FrameType
    <3> QED BY <3>1 DEF Stopping
  <2> QED BY <1>5, <2>1, <2>2, <2>3, <2>4, <2>7, <2>8, <2>9, <2>10 DEF Reconcile
<1>6. ASSUME NEW r \in Recoverers, Recover(r) PROVE Goal
  BY <1>3, <1>6 DEF Recover, RecSkip, RecPick, RecBegin, RecAcquire, RecAcquireFails, RecFence,
     RecLock, RecCheck, RecPublish, RecReplayFails, RecEnd
<1>7. CASE Environment
  BY <1>2, <1>7 DEF Environment, NetChange, Crash, Boot, BootFails, ProcessGone, RunError, Clean
<1>8. CASE Watch
  BY <1>8 DEF Watch, MonitorTick, MonitorRests, MonitorLoses, MonitorRestores, MonitorRebuilds, MonitorFails
<1>9. ASSUME NEW r \in Retries, Retry(r) PROVE Goal
  BY <1>9 DEF Retry
<1>10. CASE UNCHANGED vars
  BY <1>10 DEF vars
<1> QED BY <1>5, <1>6, <1>7, <1>8, <1>9, <1>10 DEF Next
=============================================================================
