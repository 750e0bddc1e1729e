-------------------------- MODULE ForwardLifecycle --------------------------
(***************************************************************************)
(* A Forward from the desired snapshot that asks for it to the deletion    *)
(* that ends it: the durable rows of localstate, the reconciler that       *)
(* applies a snapshot, and the data plane whose listeners serve it.        *)
(*                                                                         *)
(* Four kinds of goroutines share this state.  The frame loop applies one  *)
(* command at a time.  The liveness monitor watches the route table, tears *)
(* every listener down when it changes and reopens them from the applied   *)
(* rows.  Retry goroutines (a cleanup that succeeded, a detection pass)    *)
(* run the same recovery at any time.  A listener may die on its own, and  *)
(* the cleanup drain releases what was torn down.  The store serialises    *)
(* its transactions; the data plane's mutex, mu, is held over several of   *)
(* them; op serialises the acquisitions of one Forward.                    *)
(***************************************************************************)
EXTENDS Naturals, Sequences, FiniteSets

CONSTANTS
  Forwards,   \* Forward ids
  Revisions,  \* desired revisions, positive
  Targets,    \* backend targets
  Shapes,     \* transport and resolved strategy: what a hot update cannot change
  Deletions,  \* deletion operation ids
  Snapshots,  \* the desired snapshots the Controller may send, sets of specs
  Actors,     \* identities of acquired listeners; bounds how many exist at once
  Retries,    \* recovery goroutines besides the monitor
  MaxGen,     \* bound on the capability generation between two restarts
  None

Monitor == "monitor"
Loop == "loop"
Recoverers == Retries \cup {Monitor}

Identities == [op : Deletions, rev : Revisions]

Presents == [f : Forwards, present : {TRUE}, rev : Revisions, target : Targets,
             shape : Shapes, op : {None}]

Absents == [f : Forwards, present : {FALSE}, rev : Revisions, target : Targets,
            shape : Shapes, op : Deletions]

Specs == Presents \cup Absents

\* protocol.DesiredState.Validate: no Forward twice.  The order in which a
\* snapshot lists its Forwards is the Controller's; the model takes every order.
Valid(d) == \A s, t \in d : s.f = t.f => s = t

Generations == [cap : Nat, comp : Nat]

\* An acquired listener: the Forward, target and shape it was acquired for, under
\* which generations, and whether it was ever installed.
ActorInfo == [f : Forwards, target : Targets, shape : Shapes, gen : Generations,
              served : BOOLEAN]

ASSUME ConstantsAssumption ==
  /\ Revisions \subseteq Nat \ {0}
  /\ Snapshots \subseteq SUBSET Specs
  /\ \A d \in Snapshots : Valid(d)
  /\ MaxGen \in Nat
  /\ {Monitor, Loop} \cap Retries = {}
  /\ None \notin Actors /\ None \notin Deletions /\ None \notin Forwards
  /\ None \notin Identities /\ None \notin Specs
  /\ None \notin Generations /\ None \notin ActorInfo
  /\ None \notin Recoverers \cup {Loop}

VARIABLES
  desired,   \* received desired rows
  applied,   \* applied rows: the spec that serves, or None
  intent,    \* pending deletion intents
  tomb,      \* deletion tombstones
  forwards,  \* dataPlane.forwards: the installed actor of a Forward
  pending,   \* dataPlane.cleanupPending and cleanupExtras
  actor,     \* what each existing actor serves and was acquired under
  mu,        \* the goroutine that holds dataPlane.mu, or None
  op,        \* the goroutine whose operation on a Forward is active, or None
  net,       \* the route table: as fingerprinted, changed since, or unusable
  ready,     \* dataPlane.capabilityReady
  gen,       \* capability and composition generations
  latch,     \* the terminal latch, with the marker that re-engages it
  frame,     \* the frame loop
  rec        \* the recovery goroutines

store == <<desired, applied, intent, tomb>>
plane == <<forwards, pending, actor, mu, op>>
route == <<net, ready, gen>>
vars == <<store, plane, route, latch, frame, rec>>

-----------------------------------------------------------------------------
(***************************************************************************)
(* Deletion fences.                                                        *)
(***************************************************************************)

\* ForwardDeleteFence: a pending intent or a tombstone fences the Forward.
Fenced(f) == intent[f] # None \/ tomb[f] # None

\* Cleanup is over: the tombstone stays, the intent is gone.
Completed(f) == tomb[f] # None /\ intent[f] = None

Identity(s) == [op |-> s.op, rev |-> s.rev]

\* putForwardDeleteIntentTx: another deletion of the same Forward conflicts.
IntentConflicts(s) ==
  \/ intent[s.f] # None /\ intent[s.f] # Identity(s)
  \/ intent[s.f] = None /\ tomb[s.f] # None /\ tomb[s.f] # Identity(s)

\* putForwardDeleteIntentTx for the absent specs S: a fence, unless there is one.
WithIntents(S) ==
  [f \in Forwards |->
     IF ~Fenced(f) /\ \E s \in S : s.f = f
     THEN Identity(CHOOSE s \in S : s.f = f)
     ELSE intent[f]]

AbsentIn(d) == {s \in d : ~s.present}

-----------------------------------------------------------------------------
(***************************************************************************)
(* Merging a snapshot into the received rows.                              *)
(***************************************************************************)

FenceIdentity(f) == IF tomb[f] # None THEN tomb[f] ELSE intent[f]

MergeConflicts(s) ==
  LET cur == desired[s.f] IN
  IF Fenced(s.f)
  THEN \/ tomb[s.f] # None /\ intent[s.f] # None /\ tomb[s.f] # intent[s.f]
       \/ ~s.present /\ Identity(s) # FenceIdentity(s.f)
       \/ /\ s.present /\ cur # None
          /\ ~cur.present /\ Identity(cur) # FenceIdentity(s.f)
  ELSE cur # None /\ cur.rev = s.rev /\ cur # s

\* The row a Forward has after the merge: deletion facts over revisions.
Merged(s) ==
  LET cur == desired[s.f] IN
  IF Fenced(s.f)
  THEN CASE ~s.present -> s
         [] s.present /\ cur # None /\ ~cur.present -> cur
         [] OTHER -> [s EXCEPT !.present = FALSE, !.op = FenceIdentity(s.f).op,
                               !.rev = FenceIdentity(s.f).rev]
  ELSE IF cur # None /\ cur.rev > s.rev THEN cur ELSE s

\* The received rows after the merge of the specs S of one snapshot.
MergedRows(S) ==
  [f \in Forwards |->
     IF \E s \in S : s.f = f THEN Merged(CHOOSE s \in S : s.f = f) ELSE desired[f]]

\* An outcome that makes CommitDesired fail as a whole.
OutcomeConflicts(s, o) ==
  \/ o = "applied" /\ Fenced(s.f)
  \/ o \notin {"skipped", "gone"} /\ Merged(s) # s
  \/ o = "applied" /\ applied[s.f] # None /\ applied[s.f].rev >= s.rev /\ applied[s.f] # s
  \/ o = "deleted" /\ intent[s.f] # None /\ intent[s.f] # Identity(s)

-----------------------------------------------------------------------------
(***************************************************************************)
(* Actors.                                                                 *)
(***************************************************************************)

IdleFrame ==
  [pc |-> "idle", why |-> "none", d |-> {}, left |-> {}, s |-> None,
   out |-> [f \in Forwards |-> "none"], gen |-> None, acq |-> None,
   hot |-> [f \in Forwards |-> None], new |-> {}, todo |-> {}, f |-> None,
   wait |-> {}, failed |-> FALSE]

IdleRec ==
  [pc |-> "idle", list |-> [f \in Forwards |-> None], f |-> None, gen |-> None,
   acq |-> None]

\* Every actor somebody may still refer to.
InUse ==
  pending \cup {forwards[f] : f \in Forwards} \cup {frame.acq} \cup frame.wait
  \cup {frame.hot[f] : f \in Forwards} \cup {rec[r].acq : r \in Recoverers}

\* pendingActorsLocked.
PendingOf(f) == {a \in pending : actor[a].f = f}

\* A new listener (and mapping) for spec s, acquired under the generations g.
Acquire(a, s, g) ==
  /\ a \in Actors \ InUse
  /\ actor' = [actor EXCEPT ![a] =
                 [f |-> s.f, target |-> s.target, shape |-> s.shape, gen |-> g,
                  served |-> FALSE]]

\* abandonAcquiredActor: an actor that may not be installed is left to the drain.
Abandon(a) == pending' = pending \cup {a}

\* dataPlane.forwards[f] = a.
Install(f, a) ==
  /\ forwards' = [forwards EXCEPT ![f] = a]
  /\ actor' = [actor EXCEPT ![a].served = TRUE]

\* Moves the installed actors of the Forwards F to cleanupPending.
Uninstall(F) ==
  /\ pending' = pending \cup {forwards[f] : f \in {g \in F : forwards[g] # None}}
  /\ forwards' = [f \in Forwards |-> IF f \in F THEN None ELSE forwards[f]]

\* capabilityCheck: the guard of the reconciler.
Capable == ready /\ net = "same"

-----------------------------------------------------------------------------
(***************************************************************************)
(* The frame loop: commands, and one snapshot through the reconciler.      *)
(***************************************************************************)

\* ReceiveCommand persists the fences of a snapshot with it, then the handler runs.
Receive(d) ==
  /\ frame.pc = "idle"
  /\ intent' = WithIntents(AbsentIn(d))
  /\ frame' = [IdleFrame EXCEPT !.pc = "fence", !.d = d]
  /\ UNCHANGED <<desired, applied, tomb, plane, route, latch, rec>>

\* convergeRecoveredDeletions: after a crash only the deletions are carried out.
Converge(d) ==
  /\ frame.pc = "idle" /\ AbsentIn(d) # {}
  /\ intent' = WithIntents(AbsentIn(d))
  /\ frame' = [IdleFrame EXCEPT !.pc = "fence", !.d = AbsentIn(d)]
  /\ UNCHANGED <<desired, applied, tomb, plane, route, latch, rec>>

\* PutForwardDeleteIntents: all fences of the snapshot in one transaction.
PutFences ==
  /\ frame.pc = "fence"
  /\ LET A == AbsentIn(frame.d)
         conflict == \E s \in A : IntentConflicts(s)
     IN /\ intent' = IF conflict THEN intent ELSE WithIntents(A)
        /\ frame' = IF conflict THEN IdleFrame
                    ELSE [frame EXCEPT !.pc = "spec", !.left = frame.d]
  /\ UNCHANGED <<desired, applied, tomb, plane, route, latch, rec>>

\* The verdict o on the current or next spec s; the loop goes on.
Decided(s, o) ==
  [frame EXCEPT !.pc = "spec", !.left = @ \ {s}, !.s = None, !.out[s.f] = o,
                !.gen = None, !.acq = None]

DecideAbsent(s) ==
  /\ frame.pc = "spec" /\ s \in frame.left /\ ~s.present
  /\ frame' = CASE ~Completed(s.f) -> Decided(s, "deleted")
                [] Completed(s.f) /\ tomb[s.f] = Identity(s) -> Decided(s, "gone")
                [] OTHER -> IdleFrame
  /\ UNCHANGED <<store, plane, route, latch, rec>>

\* A PRESENT spec that must not be applied.
Refused(s) ==
  \/ applied[s.f] # None /\ s.rev <= applied[s.f].rev
  \/ latch
  \/ Fenced(s.f)

DecideRefused(s) ==
  /\ frame.pc = "spec" /\ s \in frame.left /\ s.present /\ Refused(s)
  /\ frame' = Decided(s, "skipped")
  /\ UNCHANGED <<store, plane, route, latch, rec>>

\* The guard before each apply: without the capability the batch is rolled back.
GuardApply(s) ==
  /\ frame.pc = "spec" /\ s \in frame.left /\ s.present /\ ~Refused(s) /\ mu = None
  /\ frame' = IF Capable THEN [frame EXCEPT !.pc = "op", !.s = s]
              ELSE [frame EXCEPT !.pc = "undo"]
  /\ UNCHANGED <<store, plane, route, latch, rec>>

\* The outcome o of the current spec, with the operation on its Forward over.
EndApply(o) ==
  /\ frame' = Decided(frame.s, o)
  /\ op' = [op EXCEPT ![frame.s.f] = None]

\* A success is remembered for the rollback: a new actor is stopped, a hot update
\* (of actor a) undone.
EndApplied(a) ==
  LET f == frame.s.f IN
  /\ frame' = [Decided(frame.s, "applied") EXCEPT
                 !.new = IF applied[f] = None THEN @ \cup {f} ELSE @,
                 !.hot[f] = IF applied[f] # None /\ desired[f] # None THEN a ELSE @]
  /\ op' = [op EXCEPT ![f] = None]

\* apply: the fence, then the operation of this Forward, then the route.
ApplyBegin ==
  /\ frame.pc = "op"
  /\ IF Fenced(frame.s.f)
     THEN frame' = Decided(frame.s, "failed") /\ UNCHANGED op
     ELSE /\ op[frame.s.f] = None
          /\ op' = [op EXCEPT ![frame.s.f] = Loop]
          /\ frame' = [frame EXCEPT !.pc = "clean", !.gen = gen]
  /\ UNCHANGED <<store, forwards, pending, actor, mu, route, latch, rec>>

\* The route does not resolve, an earlier actor is not cleaned up in time, or the
\* acquisition fails.
ApplyFails ==
  /\ frame.pc \in {"clean", "acquire"}
  /\ EndApply("failed")
  /\ UNCHANGED <<store, forwards, pending, actor, mu, route, latch, rec>>

\* Under mu: what exists decides between a refusal, a hot update and a new actor.
ApplyDecide ==
  /\ frame.pc = "clean" /\ mu = None
  /\ LET f == frame.s.f
         a == forwards[f]
         refused == \/ PendingOf(f) # {} \/ Fenced(f) \/ ~ready
                    \/ a # None /\ actor[a].shape # frame.s.shape
     IN \/ refused /\ EndApply("failed") /\ UNCHANGED actor
        \/ /\ ~refused /\ a # None
           /\ actor' = [actor EXCEPT ![a].target = frame.s.target]
           /\ EndApplied(a)
        \/ /\ ~refused /\ a = None
           /\ frame' = [frame EXCEPT !.pc = "acquire"]
           /\ UNCHANGED <<actor, op>>
  /\ UNCHANGED <<store, forwards, pending, mu, route, latch, rec>>

\* newForwardActorResolved: a listener, outside mu.
ApplyAcquire(a) ==
  /\ frame.pc = "acquire"
  /\ Acquire(a, frame.s, frame.gen)
  /\ frame' = [frame EXCEPT !.pc = "install", !.acq = a]
  /\ UNCHANGED <<store, forwards, pending, mu, op, route, latch, rec>>

\* Under mu again: the generations and the fence are checked once more.  Only this
\* goroutine writes fences, so reading them and installing is one step.
ApplyInstall ==
  /\ frame.pc = "install" /\ mu = None
  /\ LET f == frame.s.f
         a == frame.acq
     IN IF frame.gen # gen \/ Fenced(f)
        THEN Abandon(a) /\ EndApply("failed") /\ UNCHANGED <<forwards, actor>>
        ELSE /\ EndApplied(None)
             /\ IF forwards[f] # None
                THEN Abandon(a) /\ UNCHANGED <<forwards, actor>>
                ELSE Install(f, a) /\ UNCHANGED pending
  /\ UNCHANGED <<store, mu, route, latch, rec>>

\* The guard once more, before the commit.
GuardCommit ==
  /\ frame.pc = "spec" /\ frame.left = {} /\ mu = None
  /\ frame' = [frame EXCEPT !.pc = IF Capable THEN "commit" ELSE "undo"]
  /\ UNCHANGED <<store, plane, route, latch, rec>>

CommitPossible ==
  \A s \in frame.d : ~MergeConflicts(s) /\ ~OutcomeConflicts(s, frame.out[s.f])

\* CommitDesired: every verdict becomes durable in one transaction.
Commit ==
  /\ frame.pc = "commit" /\ CommitPossible
  /\ desired' = MergedRows(frame.d)
  /\ applied' = [f \in Forwards |->
                   CASE frame.out[f] = "applied" -> CHOOSE s \in frame.d : s.f = f
                     [] frame.out[f] = "deleted" -> None
                     [] OTHER -> applied[f]]
  /\ tomb' = [f \in Forwards |->
                IF frame.out[f] = "deleted"
                THEN Identity(CHOOSE s \in frame.d : s.f = f) ELSE tomb[f]]
  /\ frame' = [frame EXCEPT !.pc = "stop", !.why = "delete",
                            !.hot = IdleFrame.hot, !.new = {},
                            !.todo = {f \in Forwards : frame.out[f] = "deleted"}]
  /\ UNCHANGED <<intent, plane, route, latch, rec>>

\* The transaction fails: the side effects are rolled back.
CommitFails ==
  /\ frame.pc = "commit" /\ ~CommitPossible
  /\ frame' = [frame EXCEPT !.pc = "undo"]
  /\ UNCHANGED <<store, plane, route, latch, rec>>

\* rollback: the target of the received row, if the actor is still the one updated.
UndoHotUpdate(f) ==
  /\ frame.pc = "undo" /\ frame.hot[f] # None /\ mu = None
  /\ actor' = IF forwards[f] = frame.hot[f]
              THEN [actor EXCEPT ![frame.hot[f]].target = desired[f].target]
              ELSE actor
  /\ frame' = [frame EXCEPT !.hot[f] = None]
  /\ UNCHANGED <<store, forwards, pending, mu, op, route, latch, rec>>

\* rollbackNewActors follows the last hot update.
UndoNewActors ==
  /\ frame.pc = "undo" /\ \A f \in Forwards : frame.hot[f] = None
  /\ frame' = [frame EXCEPT !.pc = "stop", !.why = "undo", !.todo = frame.new]
  /\ UNCHANGED <<store, plane, route, latch, rec>>

-----------------------------------------------------------------------------
(***************************************************************************)
(* Stopping Forwards: for a deletion, a rollback or the decommission.      *)
(***************************************************************************)

\* stop: the installed actor joins the pending ones, and all are waited for.
Stop(f) ==
  /\ frame.pc = "stop" /\ f \in frame.todo /\ mu = None
  /\ Uninstall({f})
  /\ frame' = [frame EXCEPT !.pc = "wait", !.f = f,
                 !.wait = {a \in pending' : actor[a].f = f}]
  /\ UNCHANGED <<store, actor, mu, op, route, latch, rec>>

\* The loop goes on with the next Forward.
Stopped == [frame EXCEPT !.pc = "stop", !.todo = @ \ {frame.f}, !.f = None, !.wait = {}]

\* Every actor waited for has been cleaned up.
StopReturns ==
  /\ frame.pc = "wait" /\ frame.wait \cap pending = {}
  /\ frame' = IF frame.why = "delete" THEN [frame EXCEPT !.pc = "complete", !.wait = {}]
              ELSE Stopped
  /\ UNCHANGED <<store, plane, route, latch, rec>>

StopFails_Swallowed ==
  /\ frame.pc = "wait" /\ frame.wait \cap pending # {}
  /\ frame' = Stopped
  /\ UNCHANGED <<store, plane, route, latch, rec>>

\* The cleanup fails or its context ends; the drain keeps the actors.
StopFails ==
  /\ frame.pc = "wait" /\ frame.wait \cap pending # {}
  /\ frame' = [Stopped EXCEPT !.failed = TRUE,
                 !.out[frame.f] = IF frame.why = "delete" THEN "deleteFailed" ELSE @]
  /\ UNCHANGED <<store, plane, route, latch, rec>>

\* CompleteForwardDeleteIntent: only under the tombstone of the same deletion.
Complete ==
  /\ frame.pc = "complete"
  /\ LET f == frame.f
         s == CHOOSE t \in frame.d : t.f = f
         conflict == /\ intent[f] # None
                     /\ intent[f].op # s.op \/ tomb[f] = None \/ tomb[f].op # s.op
     IN /\ intent' = IF conflict THEN intent ELSE [intent EXCEPT ![f] = None]
        /\ frame' = [Stopped EXCEPT !.out[f] = IF conflict THEN "deleteFailed" ELSE @]
  /\ UNCHANGED <<desired, applied, tomb, plane, route, latch, rec>>

\* The outcomes go to the Controller (ReconcileOnce), or the handler returns.
StopsOver ==
  /\ frame.pc = "stop" /\ frame.todo = {}
  /\ frame' = CASE frame.why = "delete" -> [frame EXCEPT !.pc = "report"]
                [] frame.why = "terminal" /\ ~frame.failed -> [IdleFrame EXCEPT !.pc = "terminal"]
                [] OTHER -> IdleFrame
  /\ UNCHANGED <<store, plane, route, latch, rec>>

Report ==
  /\ frame.pc = "report"
  /\ frame' = IdleFrame
  /\ UNCHANGED <<store, plane, route, latch, rec>>

\* A decommission engages the latch and its marker, then stops every Forward.
Decommission ==
  /\ frame.pc = "idle"
  /\ latch' = TRUE
  /\ frame' = [IdleFrame EXCEPT !.pc = "stopall"]
  /\ UNCHANGED <<store, plane, route, rec>>

StopAll ==
  /\ frame.pc = "stopall" /\ mu = None
  /\ frame' = [frame EXCEPT !.pc = "stop", !.why = "terminal",
                 !.todo = {f \in Forwards : forwards[f] # None \/ PendingOf(f) # {}}]
  /\ UNCHANGED <<store, plane, route, latch, rec>>

-----------------------------------------------------------------------------
(***************************************************************************)
(* Recovery: reopening the applied Forwards.                               *)
(***************************************************************************)

\* recover reads the latch and then all applied rows at once.
Started == IF latch THEN IdleRec ELSE [IdleRec EXCEPT !.pc = "pick", !.list = applied]

Retry(r) ==
  /\ frame.pc \notin {"down", "boot"} /\ rec[r].pc = "idle"
  /\ rec' = [rec EXCEPT ![r] = Started]
  /\ UNCHANGED <<store, plane, route, latch, frame>>

\* The next row is fenced or already served.
RecSkip(r, f) ==
  /\ rec[r].pc = "pick" /\ rec[r].list[f] # None
  /\ Fenced(f) \/ (mu = None /\ forwards[f] # None)
  /\ rec' = [rec EXCEPT ![r].list[f] = None]
  /\ UNCHANGED <<store, plane, route, latch, frame>>

\* reopen is called with the row read at the start.
RecPick(r, f) ==
  /\ rec[r].pc = "pick" /\ rec[r].list[f] # None
  /\ ~Fenced(f) /\ mu = None /\ forwards[f] = None
  /\ rec' = [rec EXCEPT ![r].pc = "op", ![r].f = f]
  /\ UNCHANGED <<store, plane, route, latch, frame>>

RecBegin_NoWait(r) ==
  /\ rec[r].pc = "op"
  /\ rec' = [rec EXCEPT ![r].pc = "acquire", ![r].gen = gen]
  /\ UNCHANGED <<store, plane, route, latch, frame>>

\* beginForwardOperation, then the synchronised snapshot of the generations.
RecBegin(r) ==
  /\ rec[r].pc = "op" /\ op[rec[r].f] = None
  /\ op' = [op EXCEPT ![rec[r].f] = r]
  /\ rec' = [rec EXCEPT ![r].pc = "acquire", ![r].gen = gen]
  /\ UNCHANGED <<store, forwards, pending, actor, mu, route, latch, frame>>

RecAcquire(r, a) ==
  /\ rec[r].pc = "acquire"
  /\ Acquire(a, rec[r].list[rec[r].f], rec[r].gen)
  /\ rec' = [rec EXCEPT ![r].pc = "acquired", ![r].acq = a]
  /\ UNCHANGED <<store, forwards, pending, mu, op, route, latch, frame>>

\* The Forward r worked on is done with; pc is "pick", or "failed" on an error.
RecNext(r, pc) ==
  /\ rec' = [rec EXCEPT ![r] = [@ EXCEPT !.pc = pc, !.list[rec[r].f] = None, !.f = None,
                                         !.gen = None, !.acq = None]]
  /\ op' = [op EXCEPT ![rec[r].f] = None]

\* A Forward the profile cannot resolve is quarantined; other errors end the pass.
RecAcquireFails(r) ==
  /\ rec[r].pc = "acquire"
  /\ RecNext(r, "pick") \/ RecNext(r, "failed")
  /\ UNCHANGED <<store, forwards, pending, actor, mu, route, latch, frame>>

RecFence_Drops(r) ==
  /\ rec[r].pc = "acquired"
  /\ IF Fenced(rec[r].f)
     THEN RecNext(r, "pick")
     ELSE rec' = [rec EXCEPT ![r].pc = "lock"] /\ UNCHANGED op
  /\ UNCHANGED <<store, forwards, pending, actor, mu, route, latch, frame>>

\* finishReopen reads the fence before it takes mu.
RecFence(r) ==
  /\ rec[r].pc = "acquired"
  /\ IF Fenced(rec[r].f)
     THEN Abandon(rec[r].acq) /\ RecNext(r, "pick")
     ELSE rec' = [rec EXCEPT ![r].pc = "lock"] /\ UNCHANGED <<pending, op>>
  /\ UNCHANGED <<store, forwards, actor, mu, route, latch, frame>>

RecLock_NoLatch(r) ==
  /\ rec[r].pc = "lock" /\ mu = None
  /\ IF rec[r].gen # gen
     THEN Abandon(rec[r].acq) /\ RecNext(r, "failed") /\ UNCHANGED mu
     ELSE /\ mu' = r
          /\ rec' = [rec EXCEPT ![r].pc = "check"]
          /\ UNCHANGED <<pending, op>>
  /\ UNCHANGED <<store, forwards, actor, route, latch, frame>>

\* Under mu: the latch and the generations.
RecLock(r) ==
  /\ rec[r].pc = "lock" /\ mu = None
  /\ IF latch \/ rec[r].gen # gen
     THEN Abandon(rec[r].acq) /\ RecNext(r, "failed") /\ UNCHANGED mu
     ELSE /\ mu' = r
          /\ rec' = [rec EXCEPT ![r].pc = "check"]
          /\ UNCHANGED <<pending, op>>
  /\ UNCHANGED <<store, forwards, actor, route, latch, frame>>

RecCheck_NoFence(r) ==
  /\ rec[r].pc = "check"
  /\ IF forwards[rec[r].f] # None \/ PendingOf(rec[r].f) # {}
     THEN Abandon(rec[r].acq) /\ RecNext(r, "pick") /\ mu' = None
     ELSE /\ rec' = [rec EXCEPT ![r].pc = "publish"]
          /\ UNCHANGED <<pending, op, mu>>
  /\ UNCHANGED <<store, forwards, actor, route, latch, frame>>

\* Still under mu: the fence a last time, and whether another actor is there.
RecCheck(r) ==
  /\ rec[r].pc = "check"
  /\ IF Fenced(rec[r].f) \/ forwards[rec[r].f] # None \/ PendingOf(rec[r].f) # {}
     THEN Abandon(rec[r].acq) /\ RecNext(r, "pick") /\ mu' = None
     ELSE /\ rec' = [rec EXCEPT ![r].pc = "publish"]
          /\ UNCHANGED <<pending, op, mu>>
  /\ UNCHANGED <<store, forwards, actor, route, latch, frame>>

\* Publication, unless the refresh of the journal reference fails.  The fence or the
\* latch may have risen since they were read.
RecPublish(r) ==
  /\ rec[r].pc = "publish"
  /\ mu' = None
  /\ \/ Install(rec[r].f, rec[r].acq) /\ RecNext(r, "pick") /\ UNCHANGED pending
     \/ Abandon(rec[r].acq) /\ RecNext(r, "failed") /\ UNCHANGED <<forwards, actor>>
  /\ UNCHANGED <<store, route, latch, frame>>

\* The replay or evacuation of the mapping journal, after the last row, fails.
RecReplayFails(r) ==
  /\ rec[r].pc = "pick" /\ \A f \in Forwards : rec[r].list[f] = None
  /\ rec' = [rec EXCEPT ![r].pc = "failed"]
  /\ UNCHANGED <<store, plane, route, latch, frame>>

RecEnd(r) ==
  /\ \/ rec[r].pc = "pick" /\ \A f \in Forwards : rec[r].list[f] = None
     \/ rec[r].pc = "failed" /\ r # Monitor
  /\ rec' = [rec EXCEPT ![r] = IdleRec]
  /\ frame' = IF r = Monitor /\ frame.pc = "boot" THEN IdleFrame ELSE frame
  /\ UNCHANGED <<store, plane, route, latch>>

-----------------------------------------------------------------------------
(***************************************************************************)
(* The route table, the monitor, the listeners and the process.            *)
(***************************************************************************)

NetChange ==
  /\ net' \in {"same", "changed", "down"} \ {net}
  /\ UNCHANGED <<store, plane, ready, gen, latch, frame, rec>>

\* markCapabilityLost: no listener survives.
Lose ==
  /\ mu = None
  /\ ready' = FALSE
  /\ gen' = IF ready THEN [gen EXCEPT !.cap = @ + 1] ELSE gen
  /\ IF ready THEN Uninstall(Forwards) ELSE UNCHANGED <<forwards, pending>>
  /\ UNCHANGED <<store, actor, mu, op, net, latch>>

\* monitorLiveness reads the marker and the route table, and acts on it later: by
\* then the table may be any other, so only the data plane's own state is a guard.
MonitorTick ==
  /\ frame.pc \notin {"down", "boot"} /\ rec[Monitor].pc = "idle" /\ ~latch
  /\ rec' = [rec EXCEPT ![Monitor].pc = "tick"]
  /\ UNCHANGED <<store, plane, route, latch, frame>>

\* The table was as fingerprinted, or still unusable.
MonitorRests ==
  /\ rec[Monitor].pc = "tick"
  /\ rec' = [rec EXCEPT ![Monitor].pc = "idle"]
  /\ UNCHANGED <<store, plane, route, latch, frame>>

\* The table was unusable, or another one.
MonitorLoses ==
  /\ rec[Monitor].pc = "tick" /\ ready /\ Lose
  /\ rec' = [rec EXCEPT ![Monitor].pc = "idle"]
  /\ UNCHANGED frame

\* markCapabilityRestored records the fingerprint that was read.
MonitorRestores ==
  /\ rec[Monitor].pc = "tick" /\ ~ready /\ mu = None /\ gen.cap < MaxGen
  /\ ready' = TRUE /\ net' \in IF net = "down" THEN {"down"} ELSE {"same", "changed"}
  /\ gen' = [gen EXCEPT !.cap = @ + 1]
  /\ rec' = [rec EXCEPT ![Monitor].pc = "rebuild"]
  /\ UNCHANGED <<store, plane, latch, frame>>

\* rebuildTraversal publishes a new composition; recovery follows.
MonitorRebuilds ==
  /\ rec[Monitor].pc = "rebuild" /\ mu = None
  /\ gen' = [gen EXCEPT !.comp = @ + 1]
  /\ rec' = [rec EXCEPT ![Monitor] = Started]
  /\ UNCHANGED <<store, plane, net, ready, latch, frame>>

\* The rebuild or the recovery failed: the capability counts as lost.
MonitorFails ==
  /\ frame.pc # "boot" /\ rec[Monitor].pc \in {"rebuild", "failed"}
  /\ Lose
  /\ rec' = [rec EXCEPT ![Monitor] = IdleRec]
  /\ UNCHANGED frame

\* handleForwardRunError: a listener dies.
RunError(f) ==
  /\ forwards[f] # None /\ mu = None
  /\ Uninstall({f})
  /\ UNCHANGED <<store, actor, mu, op, route, latch, frame, rec>>

\* cleanupActor succeeds, for whoever called it; a failure changes nothing.
Clean(a) ==
  /\ a \in pending /\ mu = None
  /\ pending' = pending \ {a}
  /\ actor' = [actor EXCEPT ![a] = None]
  /\ UNCHANGED <<store, forwards, mu, op, route, latch, frame, rec>>

\* Nothing but the store and the terminal marker outlives the process.
ProcessGone ==
  /\ forwards' = [f \in Forwards |-> None]
  /\ pending' = {}
  /\ actor' = [a \in Actors |-> None]
  /\ mu' = None
  /\ op' = [f \in Forwards |-> None]
  /\ rec' = [r \in Recoverers |-> IdleRec]
  /\ frame' = [IdleFrame EXCEPT !.pc = "down"]
  /\ UNCHANGED <<store, route, latch>>

Crash == frame.pc # "down" /\ ProcessGone

\* Start fails when its recovery does.
BootFails == frame.pc = "boot" /\ rec[Monitor].pc = "failed" /\ ProcessGone

\* newDataPlane, and Start up to the control connection.
Boot ==
  /\ frame.pc = "down"
  /\ ready' = (net # "down")
  /\ net' = IF net = "down" THEN net ELSE "same"
  /\ gen' = [cap |-> 1, comp |-> 1]
  /\ frame' = [IdleFrame EXCEPT !.pc = IF latch THEN "idle" ELSE "boot"]
  /\ rec' = [rec EXCEPT ![Monitor] = Started]
  /\ UNCHANGED <<store, plane, latch>>

-----------------------------------------------------------------------------
Init ==
  /\ desired = [f \in Forwards |-> None]
  /\ applied = [f \in Forwards |-> None]
  /\ intent = [f \in Forwards |-> None]
  /\ tomb = [f \in Forwards |-> None]
  /\ forwards = [f \in Forwards |-> None]
  /\ pending = {}
  /\ actor = [a \in Actors |-> None]
  /\ mu = None
  /\ op = [f \in Forwards |-> None]
  /\ net = "same" /\ ready = TRUE /\ gen = [cap |-> 1, comp |-> 1]
  /\ latch = FALSE
  /\ frame = [IdleFrame EXCEPT !.pc = "down"]
  /\ rec = [r \in Recoverers |-> IdleRec]

Reconcile ==
  \/ \E d \in Snapshots : Receive(d) \/ Converge(d)
  \/ PutFences
  \/ \E s \in frame.left : DecideAbsent(s) \/ DecideRefused(s) \/ GuardApply(s)
  \/ ApplyBegin \/ ApplyFails \/ ApplyDecide
  \/ \E a \in Actors : ApplyAcquire(a)
  \/ ApplyInstall
  \/ GuardCommit \/ Commit \/ CommitFails
  \/ \E f \in Forwards : UndoHotUpdate(f)
  \/ UndoNewActors

StopForwards ==
  \/ \E f \in Forwards : Stop(f)
  \/ StopReturns \/ StopFails \/ Complete \/ StopsOver \/ Report
  \/ Decommission \/ StopAll

Recover(r) ==
  \/ \E f \in Forwards : RecSkip(r, f) \/ RecPick(r, f)
  \/ RecBegin(r)
  \/ \E a \in Actors : RecAcquire(r, a)
  \/ RecAcquireFails(r) \/ RecFence(r) \/ RecLock(r) \/ RecCheck(r)
  \/ RecPublish(r) \/ RecReplayFails(r) \/ RecEnd(r)

Environment ==
  \/ NetChange \/ Crash \/ Boot \/ BootFails
  \/ \E f \in Forwards : RunError(f)
  \/ \E a \in Actors : Clean(a)

Watch ==
  \/ MonitorTick \/ MonitorRests \/ MonitorLoses \/ MonitorRestores
  \/ MonitorRebuilds \/ MonitorFails

Next ==
  \/ Reconcile \/ StopForwards \/ Environment \/ Watch
  \/ \E r \in Recoverers : Recover(r)
  \/ \E r \in Retries : Retry(r)

Spec == Init /\ [][Next]_vars

-----------------------------------------------------------------------------
(***************************************************************************)
(* Properties.                                                             *)
(***************************************************************************)

Outcomes == {"none", "skipped", "applied", "failed", "deleted", "gone", "deleteFailed"}

FramePCs == {"down", "boot", "idle", "fence", "spec", "op", "clean", "acquire", "install",
             "commit", "undo", "stop", "wait", "complete", "report", "stopall", "terminal"}

RecPCs == {"idle", "tick", "rebuild", "pick", "op", "acquire", "acquired", "lock", "check",
           "publish", "failed"}

FrameType ==
  [pc : FramePCs, why : {"none", "delete", "undo", "terminal"}, d : SUBSET Specs,
   left : SUBSET Specs, s : Specs \cup {None}, out : [Forwards -> Outcomes],
   gen : Generations \cup {None}, acq : Actors \cup {None},
   hot : [Forwards -> Actors \cup {None}], new : SUBSET Forwards,
   todo : SUBSET Forwards, f : Forwards \cup {None}, wait : SUBSET Actors,
   failed : BOOLEAN]

RecType ==
  [pc : RecPCs, list : [Forwards -> Presents \cup {None}], f : Forwards \cup {None},
   gen : Generations \cup {None}, acq : Actors \cup {None}]

\* Types of the store rows, the data plane and the goroutines' local state.
TypeOK ==
  /\ desired \in [Forwards -> Specs \cup {None}]
  /\ applied \in [Forwards -> Presents \cup {None}]
  /\ intent \in [Forwards -> Identities \cup {None}]
  /\ tomb \in [Forwards -> Identities \cup {None}]
  /\ forwards \in [Forwards -> Actors \cup {None}]
  /\ pending \subseteq Actors
  /\ actor \in [Actors -> ActorInfo \cup {None}]
  /\ mu \in Recoverers \cup {None}
  /\ op \in [Forwards -> Recoverers \cup {Loop, None}]
  /\ net \in {"same", "changed", "down"}
  /\ ready \in BOOLEAN /\ gen \in Generations /\ latch \in BOOLEAN
  /\ frame \in FrameType
  /\ rec \in [Recoverers -> RecType]

\* An actor that has served traffic for f and still owns its listener or mapping.
Serving(f) ==
  \E a \in pending \cup {forwards[g] : g \in Forwards} :
    a # None /\ actor[a].served /\ actor[a].f = f

\* A deletion whose cleanup was recorded as complete (CompleteForwardDeleteIntent) is
\* final: no applied row is left for a restart to reopen, and nothing that served the
\* Forward is installed or waits for its release, although recoveries that had passed
\* their own fence checks may still have been running when the fence rose
\* (docs/recovery.md: recovery "never resurrects" a deleted Forward).
DeletedStaysDead ==
  \A f \in Forwards : Completed(f) => applied[f] = None /\ ~Serving(f)

\* When ReconcileOnce reports a deletion as done, the tombstone carries that very
\* deletion and its cleanup is complete: neither a stop that gave up nor a rival
\* deletion of the same Forward is reported as a success.
ReportIsTrue ==
  frame.pc = "report" =>
    \A s \in frame.d :
      frame.out[s.f] \in {"deleted", "gone"} =>
        Completed(s.f) /\ tomb[s.f] = Identity(s)

\* Once the decommission's stopAll has succeeded, no Forward has a listener, and none
\* gets one later: a recovery that read the latch before it was engaged loses to the
\* check that finishReopen makes under the mutex.
TerminalIsQuiet == frame.pc = "terminal" => \A f \in Forwards : ~Serving(f)

\* CommitDesired keeps its tables in step over every order of snapshots: the received
\* row is at least as new as the applied one, or it is the deletion of a fence, which
\* wins over revisions; and a tombstoned Forward has no applied row and a received row
\* that says so, under the same deletion.
DesiredAgrees ==
  \A f \in Forwards :
    /\ applied[f] # None =>
         /\ desired[f] # None
         /\ \/ desired[f].rev >= applied[f].rev
            \/ ~desired[f].present /\ Identity(desired[f]) = intent[f]
    /\ tomb[f] # None =>
         /\ applied[f] = None
         /\ desired[f] # None /\ ~desired[f].present /\ Identity(desired[f]) = tomb[f]

Applying == {"spec", "op", "clean", "acquire", "install", "commit"}
Stopping == {"stop", "wait", "complete", "report"}
Holding == {"acquired", "lock", "check", "publish"}

\* Rows are filed under the Forward they speak of, those a recovery read included.
RowsAreFiled ==
  \A f \in Forwards :
    /\ desired[f] # None => desired[f].f = f
    /\ applied[f] # None => applied[f].f = f
    /\ \A r \in Recoverers : rec[r].list[f] # None => rec[r].list[f].f = f

\* Where the frame loop is in the handling of a snapshot or of a list of stops.
FrameInStep ==
  /\ Valid(frame.d) /\ frame.left \subseteq frame.d
  /\ frame.pc = "fence" => \A f \in Forwards : frame.out[f] = "none"
  /\ frame.pc = "commit" => frame.left = {}
  /\ frame.pc \in Stopping => frame.why # "none"
  /\ frame.pc \in {"complete", "report"} => frame.why = "delete"
  /\ frame.pc \in {"wait", "complete"} => frame.f \in frame.todo
  /\ frame.pc = "report" => frame.todo = {}
  /\ \A f \in Forwards : frame.hot[f] # None => desired[f] # None

\* Up to the commit, every deletion of the snapshot is fenced and a verdict fits its
\* spec: a deletion to be carried out has its intent, one that is over its tombstone.
DecisionsHold ==
  frame.pc \in Applying =>
    /\ \A s \in frame.d : ~s.present => Fenced(s.f)
    /\ \A f \in Forwards : frame.out[f] # "none" => \E s \in frame.d \ frame.left : s.f = f
    /\ \A s \in frame.d \ frame.left :
         IF s.present THEN frame.out[s.f] \in {"skipped", "applied", "failed"}
         ELSE \/ frame.out[s.f] = "deleted" /\ intent[s.f] # None
              \/ frame.out[s.f] = "gone" /\ Completed(s.f) /\ tomb[s.f] = Identity(s)

\* After it, what counts as deleted is complete or still on the list of stops.
DeletionsHold ==
  frame.pc \in Stopping /\ frame.why = "delete" =>
    /\ \A s \in frame.d :
         /\ frame.out[s.f] \in {"deleted", "gone"} => tomb[s.f] = Identity(s)
         /\ frame.out[s.f] = "gone" => Completed(s.f)
         /\ frame.out[s.f] = "deleted" => Completed(s.f) \/ s.f \in frame.todo
    /\ \A f \in frame.todo : tomb[f] # None /\ \E s \in frame.d : s.f = f

VerdictsHold == FrameInStep /\ DecisionsHold /\ DeletionsHold

\* The data plane's tables: an installed actor serves its own Forward and is not
\* pending, a pending one exists, and the mutex is held between the last check of a
\* recovery and its publication.
PlaneAgrees ==
  /\ \A f \in Forwards : forwards[f] # None =>
       /\ forwards[f] \notin pending /\ actor[forwards[f]] # None
       /\ actor[forwards[f]].f = f /\ actor[forwards[f]].served
  /\ \A a \in pending : actor[a] # None
  /\ \A r \in Recoverers : mu = r <=> rec[r].pc \in {"check", "publish"}

\* beginForwardOperation: an acquisition owns its Forward until it is installed or
\* abandoned, and its actor is nobody else's.
FrameOwns ==
  /\ frame.pc \in {"op", "clean", "acquire", "install"} => frame.s \in frame.left /\ frame.s.present
  /\ frame.pc \in {"clean", "acquire", "install"} => op[frame.s.f] = Loop /\ frame.gen # None
  /\ frame.pc \in {"acquire", "install"} => forwards[frame.s.f] = None
  /\ frame.acq # None <=> frame.pc = "install"
  /\ frame.acq # None =>
       /\ frame.acq \notin pending /\ actor[frame.acq] # None
       /\ actor[frame.acq].f = frame.s.f /\ ~actor[frame.acq].served

Owns(r) ==
  /\ rec[r].pc \in Holding \cup {"op", "acquire"} =>
       rec[r].f # None /\ rec[r].list[rec[r].f] # None
  /\ rec[r].pc \in Holding \cup {"acquire"} => op[rec[r].f] = r /\ rec[r].gen # None
  /\ rec[r].acq # None <=> rec[r].pc \in Holding
  /\ rec[r].acq # None =>
       /\ rec[r].acq \notin pending /\ rec[r].acq # frame.acq
       /\ actor[rec[r].acq] # None
       /\ actor[rec[r].acq].f = rec[r].f /\ ~actor[rec[r].acq].served
       /\ \A q \in Recoverers \ {r} : rec[q].acq # rec[r].acq
  /\ rec[r].pc = "publish" => forwards[rec[r].f] = None
  /\ frame.pc = "down" => rec[r].pc = "idle"

RecoveryOwns == \A r \in Recoverers : Owns(r)

\* A Forward that is being deleted, or ended with the node, gets no new actor that
\* serves once stop has taken the installed one away: whoever is about to publish
\* one holds the mutex, and whoever comes later finds the fence or the latch.
StopsHold ==
  /\ \A r \in Recoverers : rec[r].pc = "publish" => ~Completed(rec[r].f)
  /\ frame.pc \in {"wait", "complete"} /\ frame.why # "undo" =>
       /\ forwards[frame.f] = None
       /\ \A a \in pending : actor[a].served /\ actor[a].f = frame.f => a \in frame.wait
       /\ \A r \in Recoverers : rec[r].pc = "publish" => rec[r].f # frame.f
  /\ frame.pc = "complete" => frame.wait = {}
  /\ frame.pc = "stopall" => latch
  /\ frame.pc = "terminal" => frame.todo = {} /\ ~frame.failed
  /\ frame.pc = "terminal" \/ (frame.pc \in Stopping /\ frame.why = "terminal") =>
       /\ latch /\ \A r \in Recoverers : rec[r].pc \notin {"check", "publish"}
       /\ ~frame.failed => \A f \in Forwards \ frame.todo : ~Serving(f)

\* The rows of a Forward tell one story in every order of snapshots, rivals and
\* crashes: well formed, the received row in step with the applied one and with the
\* tombstone, and a deletion reported as done is the one the tombstone carries
\* (CommitDesired, ReconcileOnce).
TablesAgree ==
  TypeOK /\ DesiredAgrees /\ RowsAreFiled /\ VerdictsHold /\ ReportIsTrue

\* Every listener or mapping that exists is installed, on its way to the drain, or in
\* the hands of the goroutine that acquired it: no path through apply, reopen, the
\* rollback and the monitor forgets one (addCleanupPendingLocked).
NothingLeaks ==
  \A a \in Actors :
    actor[a] # None =>
      a \in pending \cup {forwards[f] : f \in Forwards} \cup {frame.acq}
             \cup {rec[r].acq : r \in Recoverers}

\* apply finds no installed actor when it comes to install its own: recovery of the
\* same Forward waits for the operation, which makes the defensive branch of apply
\* unreachable, as its comment claims.
InstallUncontested ==
  frame.pc \in {"acquire", "install"} => forwards[frame.s.f] = None

\* Store, reconciler and data plane agree at every step of every goroutine: the
\* tables tell one story, a deleted Forward stays dead, an ended Agent is quiet,
\* nothing leaks and no installation is contested, over crashes and rivals.
ForwardInv ==
  /\ TablesAgree /\ PlaneAgrees /\ FrameOwns /\ RecoveryOwns /\ StopsHold
  /\ DeletedStaysDead /\ TerminalIsQuiet /\ NothingLeaks /\ InstallUncontested

\* generationCurrentLocked: "capabilityReady is implied by the capability generation".
\* No actor is installed while the capability is lost.
InstallNeedsCapability ==
  [][\A f \in Forwards : forwards[f] = None /\ forwards'[f] # None => ready]_vars

\* ApplyDesiredWithGuardAndRollback: a failed commit "cannot leave live backend state
\* ahead of localstate".  After the hot updates are undone, every actor the rollback
\* does not stop serves the target of the applied row.
RollbackRestores ==
  frame.pc = "stop" /\ frame.why = "undo" =>
    \A f \in Forwards \ frame.new :
      forwards[f] # None => applied[f] # None /\ actor[forwards[f]].target = applied[f].target

\* beginForwardOperation: "a stale result can never be installed over a newer one".
\* What a recovery is about to publish is the target of the applied row.
RecoveryServesApplied ==
  \A r \in Recoverers :
    rec[r].pc = "publish" /\ ~Fenced(rec[r].f) =>
      applied[rec[r].f] # None /\ actor[rec[r].acq].target = applied[rec[r].f].target

Fate(f) == CASE tomb[f] = None -> "live"
             [] tomb[f] # None /\ intent[f] # None -> "deleted"
             [] OTHER -> "gone"

Contract == INSTANCE ForwardContract WITH
  rev <- [f \in Forwards |-> IF applied[f] = None THEN 0 ELSE applied[f].rev],
  fate <- [f \in Forwards |-> Fate(f)],
  open <- [f \in Forwards |-> Serving(f)]

\* The store, the reconciler and the data plane together implement ForwardContract: in
\* every interleaving with recoveries, route changes, dying listeners and crashes, the
\* serving revision only grows, and a deletion is final.
ImplementsContract == Contract!Spec

=============================================================================
