---------------------------- MODULE ForwardPlane ----------------------------
(* The data plane's side of ForwardInv, one operation at a time: every listener is
   installed, draining or in the hands of one goroutine, and of one only. *)
EXTENDS ForwardRows

\* The provers' default; a leaf that needs arithmetic or records names SMT.
USE Zenon

\* Who holds what: the part of the invariant that is about the data plane's tables.
Held == PlaneAgrees /\ FrameOwns /\ RecoveryOwns /\ NothingLeaks

\* The actors are the same ones, up to the target of a hot update.
ActorsSame ==
  \A a \in Actors :
    /\ actor'[a] = None <=> actor[a] = None
    /\ actor[a] # None => actor'[a].f = actor[a].f /\ actor'[a].served = actor[a].served

\* The names of the actors, the recoveries and the frame loop do not clash.
LEMMA Disjoint ==
  /\ None \notin Actors /\ None \notin Recoverers /\ Loop \notin Recoverers /\ None # Loop
  /\ Monitor \in Recoverers
BY ConstantsAssumption DEF Recoverers, Loop, Monitor

\* A step that touches no table, no frame and no recovery keeps who holds what.
LEMMA SameHeld ==
  ASSUME Held, UNCHANGED <<forwards, pending, actor, mu, op, frame, rec>>
  PROVE  Held'
<1>1. PlaneAgrees'
  BY DEF Held, PlaneAgrees
<1>2. FrameOwns'
  BY DEF Held, FrameOwns
<1>3. ASSUME NEW r \in Recoverers PROVE Owns(r)'
  <2>1. Owns(r)
    BY DEF Held, RecoveryOwns
  <2> QED BY <2>1 DEF Owns
<1>4. NothingLeaks'
  BY DEF Held, NothingLeaks
<1> QED BY <1>1, <1>2, <1>3, <1>4 DEF Held, RecoveryOwns

\* A step of another recovery leaves recovery q in possession of what it holds, when it
\* gives q's listener and q's operation to nobody.
LEMMA OwnsKept ==
  ASSUME NEW q \in Recoverers, Owns(q), rec'[q] = rec[q], frame' = frame,
         rec[q].pc \in Holding \cup {"acquire"} => op'[rec[q].f] = q,
         rec[q].acq # None => /\ rec[q].acq \in pending' => rec[q].acq \in pending
                              /\ actor'[rec[q].acq] = actor[rec[q].acq]
                              /\ \A p \in Recoverers \ {q} : rec'[p].acq # rec[q].acq,
         rec[q].pc = "publish" => forwards'[rec[q].f] = forwards[rec[q].f]
  PROVE  Owns(q)'
BY DEF Owns

\* The frame loop moves on without an actor in hand: who holds what is kept.
LEMMA FrameHeld ==
  ASSUME TypeOK, Held, UNCHANGED <<forwards, pending, mu, rec>>, ActorsSame,
         \A f \in Forwards : op[f] \in Recoverers => op'[f] = op[f],
         frame.acq = None, frame'.acq = None, frame'.pc \notin {"install", "down"},
         frame'.pc \in {"op", "clean", "acquire"} => frame'.s \in frame'.left /\ frame'.s.present,
         frame'.pc \in {"clean", "acquire"} => op'[frame'.s.f] = Loop /\ frame'.gen # None,
         frame'.pc = "acquire" => forwards[frame'.s.f] = None
  PROVE  Held'
<1>1. PlaneAgrees'
  BY SMT, Disjoint DEF Held, TypeOK, PlaneAgrees, ActorsSame
<1>2. FrameOwns'
  BY DEF FrameOwns
<1>3. RecoveryOwns'
  <2> SUFFICES ASSUME NEW r \in Recoverers
               PROVE  /\ rec[r].pc \in Holding \cup {"acquire"} => op'[rec[r].f] = r
                      /\ rec[r].acq # None =>
                           /\ rec[r].acq # frame'.acq /\ actor'[rec[r].acq] # None
                           /\ actor'[rec[r].acq].f = rec[r].f /\ ~actor'[rec[r].acq].served
    BY DEF Held, RecoveryOwns, Owns
  <2>1. rec[r].acq \in Actors \cup {None} /\ rec[r].f \in Forwards \cup {None}
    BY RecFields
  <2> QED BY SMT, <2>1, Disjoint DEF Held, RecoveryOwns, Owns, ActorsSame
<1>4. NothingLeaks'
  BY SMT DEF Held, NothingLeaks, ActorsSame
<1> QED BY <1>1, <1>2, <1>3, <1>4 DEF Held

\* Recovery r changes its own record while it holds no actor: who holds what is kept.
LEMMA RecHeld ==
  ASSUME TypeOK, Held, NEW r \in Recoverers, rec[r].acq = None,
         UNCHANGED <<forwards, pending, actor, mu>>,
         \A f \in Forwards : op[f] # None /\ op[f] # r => op'[f] = op[f],
         \A q \in Recoverers \ {r} : rec'[q] = rec[q],
         rec'[r].acq = None, rec'[r].pc \notin Holding,
         rec'[r].pc \in {"op", "acquire"} => rec'[r].f # None /\ rec'[r].list[rec'[r].f] # None,
         rec'[r].pc = "acquire" => op'[rec'[r].f] = r /\ rec'[r].gen # None,
         frame'.pc = "down" => frame.pc = "down" /\ rec'[r].pc = "idle",
         \/ frame' = frame
         \/ frame.acq = None /\ frame'.acq = None /\ frame'.pc \in {"idle", "boot"}
  PROVE  Held'
<1>1. PlaneAgrees'
  <2>1. rec[r].pc \notin Holding
    BY DEF Held, RecoveryOwns, Owns
  <2>2. \A q \in Recoverers : mu' = q <=> rec'[q].pc \in {"check", "publish"}
    BY <2>1 DEF Held, PlaneAgrees, Holding
  <2> QED BY <2>2 DEF Held, PlaneAgrees
<1>2. FrameOwns'
  <2>1. CASE frame' = frame
    <3>1. frame.pc \in {"clean", "acquire", "install"} => frame.s.f \in Forwards
      BY FrameFields, SpecFields DEF Held, FrameOwns, TypeOK
    <3> QED BY <2>1, <3>1, Disjoint DEF Held, FrameOwns
  <2>2. CASE frame'.acq = None /\ frame'.pc \in {"idle", "boot"}
    BY <2>2 DEF FrameOwns
  <2> QED BY <2>1, <2>2
<1>3. ASSUME NEW q \in Recoverers \ {r}
      PROVE  /\ rec[q].pc \in Holding \cup {"acquire"} => op'[rec[q].f] = q
             /\ rec[q].acq # None =>
                  rec[q].acq # frame'.acq /\ \A p \in Recoverers \ {q} : rec'[p].acq # rec[q].acq
             /\ frame'.pc = "down" => rec[q].pc = "idle"
  <2>1. rec[q].f \in Forwards \cup {None}
    BY RecFields
  <2>2. rec[q].pc \in Holding \cup {"acquire"} => op'[rec[q].f] = q
    BY SMT, <2>1, Disjoint DEF Held, RecoveryOwns, Owns
  <2> QED BY SMT, <2>2 DEF Held, RecoveryOwns, Owns
<1>4. RecoveryOwns'
  BY SMT, <1>3 DEF Held, RecoveryOwns, Owns, Holding
<1>5. NothingLeaks'
  <2> SUFFICES ASSUME NEW a \in Actors, actor[a] # None
               PROVE  \/ a \in pending \/ (\E f \in Forwards : a = forwards[f])
                      \/ a = frame'.acq \/ \E q \in Recoverers : a = rec'[q].acq
    BY DEF NothingLeaks
  <2> QED BY SMT, Disjoint DEF Held, NothingLeaks
<1> QED BY <1>1, <1>2, <1>4, <1>5 DEF Held

\* Taking listeners out of service hands each one to the drain.
LEMMA UninstallHeld ==
  ASSUME TypeOK, Held, mu = None, NEW F \in SUBSET Forwards, Uninstall(F),
         UNCHANGED <<actor, mu, op>>,
         \/ rec' = rec
         \/ /\ rec[Monitor].acq = None /\ rec'[Monitor].acq = None /\ rec'[Monitor].pc = "idle"
            /\ \A q \in Recoverers \ {Monitor} : rec'[q] = rec[q],
         \/ frame' = frame
         \/ frame.acq = None /\ frame'.acq = None /\ frame'.pc = "wait"
  PROVE  Held'
<1>1. /\ \A f \in Forwards : forwards'[f] = IF f \in F THEN None ELSE forwards[f]
      /\ \A a \in pending' : a \in pending \/ \E f \in F : forwards[f] = a /\ a # None
      /\ \A a \in pending : a \in pending'
      /\ \A f \in F : forwards[f] # None => forwards[f] \in pending'
  BY DEF Uninstall
<1>2. \A q \in Recoverers : rec[q].pc \notin {"check", "publish"} /\ rec'[q].pc \notin {"check", "publish"}
  BY Disjoint DEF Held, PlaneAgrees
<1>3. PlaneAgrees'
  <2>1. ASSUME NEW f \in Forwards, forwards'[f] # None
        PROVE  /\ forwards'[f] = forwards[f] /\ forwards[f] # None /\ forwards[f] \notin pending'
    BY SMT, <1>1, <2>1 DEF Held, PlaneAgrees
  <2>2. \A a \in pending' : actor[a] # None
    BY SMT, <1>1 DEF Held, PlaneAgrees
  <2> QED BY SMT, <1>2, <2>1, <2>2, Disjoint DEF Held, PlaneAgrees
<1>4. FrameOwns'
  <2>1. CASE frame' = frame
    <3>1. frame.acq # None => frame.acq \notin pending'
      BY SMT, <1>1 DEF Held, FrameOwns, PlaneAgrees
    <3>2. frame.pc \in {"acquire", "install"} => forwards'[frame.s.f] = None
      <4>1. frame.pc \in {"acquire", "install"} => frame.s.f \in Forwards
        BY FrameFields, SpecFields DEF Held, FrameOwns, TypeOK
      <4> QED BY SMT, <1>1, <4>1 DEF Held, FrameOwns
    <3> QED BY <2>1, <3>1, <3>2 DEF Held, FrameOwns
  <2>2. CASE frame'.acq = None /\ frame'.pc = "wait"
    BY <2>2 DEF FrameOwns
  <2> QED BY <2>1, <2>2
<1>5. ASSUME NEW q \in Recoverers, rec[q].acq # None
      PROVE  /\ rec'[q] = rec[q] /\ rec[q].acq \notin pending' /\ rec[q].acq # frame'.acq
             /\ \A p \in Recoverers \ {q} : rec'[p].acq # rec[q].acq
  <2>1. rec'[q] = rec[q]
    BY <1>5
  <2>2. rec[q].acq \notin pending'
    BY SMT, <1>1, <1>5 DEF Held, RecoveryOwns, Owns, PlaneAgrees
  <2> QED BY SMT, <1>5, <2>1, <2>2 DEF Held, RecoveryOwns, Owns
<1>6. RecoveryOwns'
  <2> SUFFICES ASSUME NEW r \in Recoverers
               PROVE  Owns(r)'
    BY DEF RecoveryOwns
  <2>1. CASE rec'[r] = rec[r]
    BY SMT, <1>2, <1>5, <2>1 DEF Held, RecoveryOwns, Owns
  <2>2. CASE rec'[r].acq = None /\ rec'[r].pc = "idle"
    BY <2>2 DEF RecoveryOwns, Owns, Holding
  <2> QED BY <2>1, <2>2
<1>7. NothingLeaks'
  <2> SUFFICES ASSUME NEW a \in Actors, actor[a] # None
               PROVE  \/ a \in pending' \/ (\E f \in Forwards : a = forwards'[f])
                      \/ a = frame'.acq \/ \E q \in Recoverers : a = rec'[q].acq
    BY DEF NothingLeaks
  <2>1. \/ a \in pending \/ (\E f \in Forwards : a = forwards[f])
        \/ a = frame.acq \/ \E q \in Recoverers : a = rec[q].acq
    BY DEF Held, NothingLeaks
  <2>2. CASE \E f \in Forwards : a = forwards[f]
    BY SMT, <1>1, <2>2, Disjoint
  <2>3. CASE \E q \in Recoverers : a = rec[q].acq
    BY <1>5, <2>3, Disjoint
  <2> QED BY <1>1, <2>1, <2>2, <2>3, Disjoint
<1> QED BY <1>3, <1>4, <1>6, <1>7 DEF Held

\* An acquired listener is held by nobody else, and no other actor changes.
LEMMA AcquireFresh ==
  ASSUME TypeOK, Held, NEW a, NEW s \in Specs, NEW g \in Generations, Acquire(a, s, g)
  PROVE  /\ a \in Actors /\ a \notin pending /\ a # frame.acq
         /\ \A f \in Forwards : forwards[f] # a
         /\ \A q \in Recoverers : rec[q].acq # a
         /\ actor[a] = None
         /\ actor'[a].f = s.f /\ ~actor'[a].served /\ actor'[a] # None
         /\ \A b \in Actors \ {a} : actor'[b] = actor[b]
<1>1. /\ a \in Actors /\ a \notin pending /\ a # frame.acq
      /\ \A f \in Forwards : forwards[f] # a
      /\ \A q \in Recoverers : rec[q].acq # a
  BY DEF Acquire, InUse
<1>2. actor[a] = None
  BY <1>1 DEF Held, NothingLeaks
<1> DEFINE v == [f |-> s.f, target |-> s.target, shape |-> s.shape, gen |-> g, served |-> FALSE]
<1>3. actor'[a] = v /\ \A b \in Actors \ {a} : actor'[b] = actor[b]
  BY <1>1 DEF Acquire, TypeOK
<1>4. v # None
  <2>1. v \in ActorInfo
    BY SpecFields DEF ActorInfo
  <2> HIDE DEF v
  <2> QED BY <2>1, ConstantsAssumption
<1> QED BY SMT, <1>1, <1>2, <1>3, <1>4

\* The frame loop acquires a listener for the Forward it applies.
LEMMA ApplyAcquireHeld ==
  ASSUME TypeOK, Held, NEW a, ApplyAcquire(a)
  PROVE  Held'
<1>1. /\ frame.pc = "acquire" /\ frame.s \in Specs /\ frame.gen \in Generations
      /\ frame.acq = None /\ frame.s.f \in Forwards
  BY FrameFields, SpecFields DEF ApplyAcquire, Held, FrameOwns, TypeOK
<1>2. Acquire(a, frame.s, frame.gen) /\ UNCHANGED <<forwards, pending, mu, op, rec>>
  BY DEF ApplyAcquire
<1>3. /\ a \in Actors /\ a \notin pending
      /\ \A f \in Forwards : forwards[f] # a
      /\ \A q \in Recoverers : rec[q].acq # a
      /\ actor'[a].f = frame.s.f /\ ~actor'[a].served /\ actor'[a] # None
      /\ \A b \in Actors \ {a} : actor'[b] = actor[b]
  BY <1>1, <1>2, AcquireFresh
<1>4. /\ frame'.pc = "install" /\ frame'.acq = a /\ frame'.s = frame.s
      /\ frame'.left = frame.left /\ frame'.gen = frame.gen
  BY DEF ApplyAcquire, TypeOK, FrameType
<1>5. PlaneAgrees'
  BY SMT, <1>2, <1>3 DEF Held, PlaneAgrees, TypeOK
<1>6. FrameOwns'
  BY <1>1, <1>2, <1>3, <1>4, Disjoint DEF Held, FrameOwns
<1>7. ASSUME NEW r \in Recoverers PROVE Owns(r)'
  <2>1. Owns(r)
    BY DEF Held, RecoveryOwns
  <2>2. rec[r].acq # None => actor'[rec[r].acq] = actor[rec[r].acq]
    BY <1>3, RecFields
  <2> QED BY <1>2, <1>3, <1>4, <2>1, <2>2 DEF Owns
<1>8. NothingLeaks'
  BY SMT, <1>1, <1>2, <1>3, <1>4, Disjoint DEF Held, NothingLeaks
<1> QED BY <1>5, <1>6, <1>7, <1>8 DEF Held, RecoveryOwns

\* A recovery acquires a listener for the Forward it replays.
LEMMA RecAcquireHeld ==
  ASSUME TypeOK, Held, RowsAreFiled, NEW r \in Recoverers, NEW a, RecAcquire(r, a)
  PROVE  Held'
<1> DEFINE s == rec[r].list[rec[r].f]
<1>1. /\ rec[r].pc = "acquire" /\ s \in Specs /\ rec[r].gen \in Generations
      /\ rec[r].acq = None /\ rec[r].f \in Forwards /\ s.f = rec[r].f
  <2>1. rec[r].pc = "acquire" /\ rec[r].f # None /\ s # None /\ rec[r].gen # None /\ rec[r].acq = None
    BY DEF RecAcquire, Held, RecoveryOwns, Owns, Holding
  <2>2. rec[r].f \in Forwards /\ s \in Presents
    BY <2>1, RecFields
  <2> QED BY <2>1, <2>2, RecFields DEF RowsAreFiled, Specs
<1>2. Acquire(a, s, rec[r].gen) /\ UNCHANGED <<forwards, pending, mu, op, frame>>
  BY DEF RecAcquire
<1>3. /\ a \in Actors /\ a \notin pending /\ a # frame.acq
      /\ \A f \in Forwards : forwards[f] # a
      /\ \A q \in Recoverers : rec[q].acq # a
      /\ actor'[a].f = s.f /\ ~actor'[a].served /\ actor'[a] # None
      /\ \A b \in Actors \ {a} : actor'[b] = actor[b]
  <2> HIDE DEF s
  <2> QED BY <1>1, <1>2, AcquireFresh
<1>4. /\ rec'[r].pc = "acquired" /\ rec'[r].acq = a /\ rec'[r].f = rec[r].f
      /\ rec'[r].list = rec[r].list /\ rec'[r].gen = rec[r].gen
      /\ \A q \in Recoverers \ {r} : rec'[q] = rec[q]
  BY RecFields DEF RecAcquire, TypeOK, RecType
<1> HIDE DEF s
<1>5. PlaneAgrees'
  BY SMT, <1>1, <1>2, <1>3, <1>4 DEF Held, PlaneAgrees, TypeOK
<1>6. FrameOwns'
  <2>1. frame.acq # None => actor'[frame.acq] = actor[frame.acq]
    BY <1>3, FrameFields DEF TypeOK
  <2> QED BY <1>2, <2>1 DEF Held, FrameOwns
<1>7. RecoveryOwns'
  <2>1. \A q \in Recoverers \ {r} : rec[q].acq # None => actor'[rec[q].acq] = actor[rec[q].acq]
    BY <1>3, RecFields
  <2>2. ASSUME NEW q \in Recoverers \ {r} PROVE Owns(q)'
    <3>1. Owns(q)
      BY DEF Held, RecoveryOwns
    <3>2. rec[q].pc \in Holding \cup {"acquire"} => op'[rec[q].f] = q
      BY <1>2, <3>1 DEF Owns
    <3>3. rec[q].acq # None => \A p \in Recoverers \ {q} : rec'[p].acq # rec[q].acq
      BY <1>3, <1>4, <3>1 DEF Owns
    <3> QED BY <1>2, <1>4, <2>1, <3>1, <3>2, <3>3, OwnsKept
  <2>3. Owns(r)'
    <3>1. Owns(r)
      BY DEF Held, RecoveryOwns
    <3> QED BY <1>1, <1>2, <1>3, <1>4, <3>1, Disjoint DEF Owns, Holding, s
  <2> QED BY <2>2, <2>3 DEF RecoveryOwns
<1>8. NothingLeaks'
  <2> SUFFICES ASSUME NEW b \in Actors, actor'[b] # None
               PROVE  \/ b \in pending \/ (\E f \in Forwards : b = forwards[f])
                      \/ b = frame.acq \/ \E q \in Recoverers : b = rec'[q].acq
    BY <1>2 DEF NothingLeaks
  <2>1. CASE b = a
    BY <1>4, <2>1
  <2>2. CASE b # a
    <3>1. \/ b \in pending \/ (\E f \in Forwards : b = forwards[f])
          \/ b = frame.acq \/ \E q \in Recoverers : b = rec[q].acq
      BY <1>3, <2>2 DEF Held, NothingLeaks
    <3> QED BY <1>1, <1>4, <3>1, Disjoint
  <2> QED BY <2>1, <2>2
<1> QED BY <1>5, <1>6, <1>7, <1>8 DEF Held

\* The frame loop installs its listener, or leaves it to the drain.
LEMMA ApplyInstallHeld ==
  ASSUME TypeOK, Held, ApplyInstall
  PROVE  Held'
<1>1. PICK a \in Actors, f \in Forwards :
        /\ a = frame.acq /\ f = frame.s.f /\ op[f] = Loop /\ forwards[f] = None
        /\ a \notin pending /\ actor[a] # None /\ actor[a].f = f /\ ~actor[a].served
        /\ frame.s \in Specs
  BY FrameFields, SpecFields DEF ApplyInstall, Held, FrameOwns, TypeOK
<1>2. /\ frame'.pc = "spec" /\ frame'.acq = None
  <2>1. CASE frame' = Decided(frame.s, "failed")
    <3>1. frame \in FrameType /\ "failed" \in Outcomes
      BY DEF TypeOK, Outcomes
    <3> QED BY <1>1, <2>1, <3>1, DecidedFields
  <2>2. CASE EndApplied(None)
    BY <1>1, <2>2, AppliedFields
  <2> QED BY <2>1, <2>2 DEF ApplyInstall, EndApply
<1>3. /\ mu = None /\ UNCHANGED <<mu, rec>> /\ op' = [op EXCEPT ![f] = None]
      /\ \A g \in Forwards : op[g] \in Recoverers => op'[g] = op[g]
  BY <1>1, Disjoint DEF ApplyInstall, EndApply, EndApplied, TypeOK
<1>4. \A q \in Recoverers : /\ rec[q].pc \notin {"check", "publish"} /\ rec[q].acq # a
                            /\ rec[q].f \in Forwards \cup {None} /\ rec[q].acq \in Actors \cup {None}
  BY SMT, <1>1, <1>3, Disjoint, RecFields DEF Held, PlaneAgrees, RecoveryOwns, Owns
<1>5. FrameOwns'
  BY <1>2 DEF FrameOwns
<1>6. CASE pending' = pending \cup {a} /\ UNCHANGED <<forwards, actor>>
  <2>1. PlaneAgrees'
    BY <1>1, <1>3, <1>6 DEF Held, PlaneAgrees
  <2>2. RecoveryOwns'
    BY SMT, <1>2, <1>3, <1>4, <1>6 DEF Held, RecoveryOwns, Owns
  <2>3. NothingLeaks'
    BY SMT, <1>1, <1>3, <1>6 DEF Held, NothingLeaks
  <2> QED BY <1>5, <2>1, <2>2, <2>3 DEF Held
<1>7. CASE Install(f, a) /\ pending' = pending
  <2>1. /\ forwards'[f] = a /\ \A g \in Forwards \ {f} : forwards'[g] = forwards[g]
        /\ \A b \in Actors \ {a} : actor'[b] = actor[b]
    BY <1>1, <1>7 DEF Install, TypeOK
  <2>2. actor'[a] # None /\ actor'[a].f = f /\ actor'[a].served
    <3>1. actor[a] \in ActorInfo
      BY <1>1 DEF TypeOK
    <3>2. [actor[a] EXCEPT !.served = TRUE] \in ActorInfo
      BY <3>1 DEF ActorInfo
    <3>3. actor'[a] = [actor[a] EXCEPT !.served = TRUE]
      BY <1>1, <1>7 DEF Install, TypeOK
    <3> QED BY <1>1, <3>1, <3>2, <3>3, ConstantsAssumption DEF ActorInfo
  <2>3. PlaneAgrees'
    <3>1. \A g \in Forwards \ {f} : forwards[g] # None => forwards[g] \in Actors /\ forwards[g] # a
      BY SMT, <1>1 DEF Held, PlaneAgrees, TypeOK
    <3>2. \A b \in pending : b \in Actors /\ b # a
      BY <1>1 DEF TypeOK
    <3> QED BY SMT, <1>1, <1>3, <1>7, <2>1, <2>2, <3>1, <3>2 DEF Held, PlaneAgrees
  <2>4. RecoveryOwns'
    BY SMT, <1>2, <1>3, <1>4, <1>7, <2>1 DEF Held, RecoveryOwns, Owns
  <2>5. NothingLeaks'
    <3> SUFFICES ASSUME NEW b \in Actors, actor'[b] # None
                 PROVE  \/ b \in pending \/ (\E g \in Forwards : b = forwards'[g])
                        \/ \E q \in Recoverers : b = rec[q].acq
      BY <1>3, <1>7 DEF NothingLeaks
    <3>1. CASE b = a
      BY <2>1, <3>1
    <3>2. CASE b # a
      BY SMT, <1>1, <2>1, <3>2, Disjoint DEF Held, NothingLeaks
    <3> QED BY <3>1, <3>2
  <2> QED BY <1>5, <2>3, <2>4, <2>5 DEF Held
<1>8. \/ pending' = pending \cup {a} /\ UNCHANGED <<forwards, actor>>
      \/ Install(f, a) /\ pending' = pending
  BY <1>1 DEF ApplyInstall, Abandon
<1> QED BY <1>6, <1>7, <1>8

\* What is known of the listener a recovery holds.
LEMMA RecHolds ==
  ASSUME TypeOK, Held, NEW r \in Recoverers, rec[r].pc \in Holding
  PROVE  /\ rec[r].f \in Forwards /\ rec[r].acq \in Actors /\ rec[r].acq \notin pending
         /\ actor[rec[r].acq] \in ActorInfo /\ actor[rec[r].acq] # None
         /\ actor[rec[r].acq].f = rec[r].f /\ ~actor[rec[r].acq].served
         /\ rec[r].acq # frame.acq /\ op[rec[r].f] = r
         /\ \A q \in Recoverers \ {r} : rec[q].acq # rec[r].acq
         /\ \A f \in Forwards : forwards[f] # rec[r].acq
<1>1. /\ rec[r].f # None /\ rec[r].acq # None /\ rec[r].acq \notin pending
      /\ actor[rec[r].acq] # None /\ actor[rec[r].acq].f = rec[r].f
      /\ ~actor[rec[r].acq].served /\ rec[r].acq # frame.acq /\ op[rec[r].f] = r
      /\ \A q \in Recoverers \ {r} : rec[q].acq # rec[r].acq
  BY DEF Held, RecoveryOwns, Owns
<1>2. rec[r].f \in Forwards /\ rec[r].acq \in Actors
  BY <1>1, RecFields
<1>3. actor[rec[r].acq] \in ActorInfo
  BY <1>1, <1>2 DEF TypeOK
<1>4. \A f \in Forwards : forwards[f] # rec[r].acq
  BY <1>1 DEF Held, PlaneAgrees
<1> QED BY <1>1, <1>2, <1>3, <1>4

\* A recovery that holds a listener goes on to its next check.
LEMMA RecMoves ==
  ASSUME TypeOK, Held, NEW r \in Recoverers, rec[r].pc \in Holding, NEW pc \in Holding,
         rec' = [rec EXCEPT ![r].pc = pc], UNCHANGED <<forwards, pending, actor, op, frame>>,
         \A q \in Recoverers \ {r} : mu' = q <=> mu = q,
         mu' = r <=> pc \in {"check", "publish"},
         pc = "publish" => forwards[rec[r].f] = None
  PROVE  Held'
<1>1. /\ rec'[r].pc = pc /\ rec'[r].acq = rec[r].acq /\ rec'[r].f = rec[r].f
      /\ rec'[r].list = rec[r].list /\ rec'[r].gen = rec[r].gen
      /\ \A q \in Recoverers \ {r} : rec'[q] = rec[q]
  BY RecFields DEF TypeOK, RecType
<1>2. PlaneAgrees'
  BY SMT, <1>1 DEF Held, PlaneAgrees
<1>3. FrameOwns'
  BY DEF Held, FrameOwns
<1>4. \A q \in Recoverers : rec'[q].acq = rec[q].acq /\ rec'[q].f = rec[q].f
  BY <1>1
<1>5. RecoveryOwns'
  <2>1. ASSUME NEW q \in Recoverers \ {r} PROVE Owns(q)'
    <3>1. Owns(q)
      BY DEF Held, RecoveryOwns
    <3>2. rec[q].acq # None => \A p \in Recoverers \ {q} : rec'[p].acq # rec[q].acq
      BY <1>4, <3>1 DEF Owns
    <3>3. rec'[q] = rec[q]
      BY <1>1
    <3> QED BY <3>1, <3>2, <3>3, OwnsKept DEF Owns
  <2>2. Owns(r)'
    <3>1. Owns(r)
      BY DEF Held, RecoveryOwns
    <3> QED BY SMT, <1>1, <1>4, <3>1 DEF Owns, Holding
  <2> QED BY <2>1, <2>2 DEF RecoveryOwns
<1>6. NothingLeaks'
  BY SMT, <1>4 DEF Held, NothingLeaks
<1> QED BY <1>2, <1>3, <1>5, <1>6 DEF Held

\* A recovery leaves its listener to the drain, or installs it, and is done with the
\* Forward.
LEMMA RecLetsGo ==
  ASSUME TypeOK, Held, NEW r \in Recoverers, rec[r].pc \in Holding,
         NEW pc \in {"pick", "failed"}, RecNext(r, pc), UNCHANGED frame, mu' # r,
         \A q \in Recoverers \ {r} : mu' = q <=> mu = q,
         \/ Abandon(rec[r].acq) /\ UNCHANGED <<forwards, actor>>
         \/ /\ Install(rec[r].f, rec[r].acq) /\ UNCHANGED pending
            /\ rec[r].pc = "publish"
  PROVE  Held'
<1>1. PICK a \in Actors, f \in Forwards :
        /\ a = rec[r].acq /\ f = rec[r].f /\ a \notin pending /\ actor[a] \in ActorInfo
        /\ actor[a] # None /\ actor[a].f = f /\ ~actor[a].served
        /\ a # frame.acq /\ op[f] = r /\ \A q \in Recoverers \ {r} : rec[q].acq # a
        /\ \A g \in Forwards : forwards[g] # a
  BY SMT, RecHolds
<1>2. /\ rec'[r].pc = pc /\ rec'[r].acq = None /\ \A q \in Recoverers \ {r} : rec'[q] = rec[q]
      /\ \A g \in Forwards : op[g] # None /\ op[g] # r => op'[g] = op[g]
      /\ frame.pc # "down"
  <2>1. frame.pc # "down"
    BY DEF Held, RecoveryOwns, Owns, Holding
  <2>2. op' = [op EXCEPT ![f] = None] /\ op \in [Forwards -> Recoverers \cup {Loop, None}]
    BY <1>1 DEF RecNext, TypeOK
  <2>3. \A g \in Forwards : op[g] # None /\ op[g] # r => op'[g] = op[g]
    BY <1>1, <2>2
  <2> QED BY <2>1, <2>3, RecNextFields
<1>3. \A q \in Recoverers : mu' = q <=> rec'[q].pc \in {"check", "publish"}
  BY SMT, <1>2 DEF Held, PlaneAgrees
<1>4. \A q \in Recoverers \ {r} :
        /\ rec[q].f \in Forwards \cup {None} /\ rec[q].acq \in Actors \cup {None}
        /\ rec[q].pc \in Holding \cup {"acquire"} => op'[rec[q].f] = q
        /\ rec[r].pc = "publish" => rec[q].pc # "publish"
  <2>1. rec[r].pc = "publish" => \A q \in Recoverers \ {r} : rec[q].pc # "publish"
    BY DEF Held, PlaneAgrees
  <2> QED BY SMT, <1>2, <2>1, Disjoint, RecFields DEF Held, RecoveryOwns, Owns
<1>5. /\ frame.acq \in Actors \cup {None}
      /\ frame.pc \in {"clean", "acquire", "install"} =>
           frame.s.f \in Forwards /\ frame.s.f # f /\ op'[frame.s.f] = Loop
  <2>1. frame.pc \in {"clean", "acquire", "install"} => frame.s.f \in Forwards /\ op[frame.s.f] = Loop
    BY FrameFields, SpecFields DEF Held, FrameOwns, TypeOK
  <2>2. frame.acq \in Actors \cup {None}
    BY FrameFields DEF TypeOK
  <2> QED BY <1>1, <1>2, <2>1, <2>2, Disjoint
<1>6. ASSUME NEW b \in Actors \ {a}, actor[b] # None
      PROVE  \/ b \in pending \/ (\E g \in Forwards : b = forwards[g])
             \/ b = frame.acq \/ \E q \in Recoverers : b = rec'[q].acq
  <2>1. \/ b \in pending \/ (\E g \in Forwards : b = forwards[g])
        \/ b = frame.acq \/ \E q \in Recoverers : b = rec[q].acq
    BY <1>6 DEF Held, NothingLeaks
  <2>2. ASSUME NEW q \in Recoverers, b = rec[q].acq PROVE b = rec'[q].acq
    <3>1. q # r
      BY <1>1, <2>2
    <3> QED BY <1>2, <2>2, <3>1
  <2> QED BY <2>1, <2>2
<1>7. CASE pending' = pending \cup {a} /\ UNCHANGED <<forwards, actor>>
  <2>1. PlaneAgrees'
    BY <1>1, <1>3, <1>7 DEF Held, PlaneAgrees
  <2>2. FrameOwns'
    BY <1>1, <1>5, <1>7 DEF Held, FrameOwns
  <2>3. ASSUME NEW q \in Recoverers \ {r} PROVE Owns(q)'
    <3>1. Owns(q)
      BY DEF Held, RecoveryOwns
    <3>2. rec[q].acq # None => \A p \in Recoverers \ {q} : rec'[p].acq # rec[q].acq
      BY <1>2, <3>1 DEF Owns
    <3> QED BY <1>1, <1>2, <1>4, <1>7, <3>1, <3>2, OwnsKept
  <2>4. Owns(r)'
    BY <1>2 DEF RecoveryOwns, Owns, Holding
  <2>5. NothingLeaks'
    BY SMT, <1>1, <1>6, <1>7 DEF NothingLeaks
  <2>6. RecoveryOwns'
    BY <2>3, <2>4 DEF RecoveryOwns
  <2> QED BY <2>1, <2>2, <2>5, <2>6 DEF Held
<1>8. CASE Install(f, a) /\ pending' = pending /\ rec[r].pc = "publish"
  <2>1. /\ forwards'[f] = a /\ \A g \in Forwards \ {f} : forwards'[g] = forwards[g]
        /\ \A b \in Actors \ {a} : actor'[b] = actor[b]
    BY SMT, <1>1, <1>8 DEF Install, TypeOK
  <2>2. actor'[a] # None /\ actor'[a].f = f /\ actor'[a].served
    <3>1. [actor[a] EXCEPT !.served = TRUE] \in ActorInfo
      BY <1>1 DEF ActorInfo
    <3>2. actor'[a] = [actor[a] EXCEPT !.served = TRUE]
      BY <1>1, <1>8 DEF Install, TypeOK
    <3> QED BY <1>1, <3>1, <3>2, ConstantsAssumption DEF ActorInfo
  <2>3. PlaneAgrees'
    <3>1. \A g \in Forwards \ {f} : forwards[g] # None => forwards[g] \in Actors /\ forwards[g] # a
      BY <1>1 DEF TypeOK
    <3>2. \A b \in pending : b \in Actors /\ b # a
      BY <1>1 DEF TypeOK
    <3> QED BY SMT, <1>1, <1>3, <1>8, <2>1, <2>2, <3>1, <3>2 DEF Held, PlaneAgrees
  <2>4. FrameOwns'
    BY <1>1, <1>5, <1>8, <2>1 DEF Held, FrameOwns
  <2>5. ASSUME NEW q \in Recoverers \ {r} PROVE Owns(q)'
    <3>1. Owns(q)
      BY DEF Held, RecoveryOwns
    <3>2. rec[q].acq # None => \A p \in Recoverers \ {q} : rec'[p].acq # rec[q].acq
      BY <1>2, <3>1 DEF Owns
    <3>3. rec[q].acq # None => actor'[rec[q].acq] = actor[rec[q].acq]
      BY <1>1, <1>4, <2>1
    <3> QED BY <1>2, <1>4, <1>8, <3>1, <3>2, <3>3, OwnsKept
  <2>6. Owns(r)'
    BY <1>2 DEF RecoveryOwns, Owns, Holding
  <2>7. forwards[f] = None
    BY <1>1, <1>8 DEF Held, RecoveryOwns, Owns
  <2>8. NothingLeaks'
    <3> SUFFICES ASSUME NEW b \in Actors, actor'[b] # None
                 PROVE  \/ b \in pending \/ (\E g \in Forwards : b = forwards'[g])
                        \/ b = frame.acq \/ \E q \in Recoverers : b = rec'[q].acq
      BY <1>8 DEF NothingLeaks
    <3>1. CASE b = a
      BY <2>1, <3>1
    <3>2. CASE b # a
      BY SMT, <1>6, <2>1, <2>7, <3>2, Disjoint
    <3> QED BY <3>1, <3>2
  <2>9. RecoveryOwns'
    BY <2>5, <2>6 DEF RecoveryOwns
  <2> QED BY <2>3, <2>4, <2>8, <2>9 DEF Held
<1> QED BY <1>1, <1>7, <1>8 DEF Abandon

\* Releasing a drained listener keeps who holds what.
LEMMA CleanHeld ==
  ASSUME TypeOK, Held, NEW a, Clean(a)
  PROVE  Held'
<1>1. /\ a \in pending /\ a \in Actors /\ pending' = pending \ {a}
      /\ actor'[a] = None /\ \A b \in Actors \ {a} : actor'[b] = actor[b]
      /\ UNCHANGED <<forwards, mu, op, frame, rec>>
  BY DEF Clean, TypeOK
<1>2. PlaneAgrees'
  <2>1. \A f \in Forwards : forwards[f] # None => forwards[f] \in Actors /\ forwards[f] # a
    BY SMT, <1>1 DEF Held, PlaneAgrees, TypeOK
  <2> QED BY SMT, <1>1, <2>1 DEF Held, PlaneAgrees, TypeOK
<1>3. FrameOwns'
  <2>1. frame.acq # None => frame.acq \in Actors /\ frame.acq # a
    BY <1>1, FrameFields DEF Held, FrameOwns, TypeOK
  <2> QED BY <1>1, <2>1 DEF Held, FrameOwns
<1>4. RecoveryOwns'
  <2>1. \A r \in Recoverers : rec[r].acq # None => rec[r].acq \in Actors /\ rec[r].acq # a
    BY SMT, <1>1, RecFields DEF Held, RecoveryOwns, Owns
  <2>2. ASSUME NEW r \in Recoverers PROVE Owns(r)'
    <3>1. Owns(r)
      BY DEF Held, RecoveryOwns
    <3> QED BY <1>1, <2>1, <3>1 DEF Owns
  <2> QED BY <2>2 DEF RecoveryOwns
<1>5. NothingLeaks'
  BY <1>1 DEF Held, NothingLeaks
<1> QED BY <1>2, <1>3, <1>4, <1>5 DEF Held

\* When the process is gone nobody holds anything.
LEMMA GoneHeld ==
  ASSUME ProcessGone
  PROVE  Held'
<1>1. /\ \A r \in Recoverers : rec'[r].pc = "idle" /\ rec'[r].acq = None
      /\ frame'.pc = "down" /\ frame'.acq = None
  BY DEF ProcessGone, IdleFrame, IdleRec
<1>2. PlaneAgrees' /\ NothingLeaks'
  BY <1>1, Disjoint DEF ProcessGone, PlaneAgrees, NothingLeaks
<1>3. FrameOwns' /\ RecoveryOwns'
  BY <1>1 DEF FrameOwns, RecoveryOwns, Owns, Holding
<1> QED BY <1>2, <1>3 DEF Held

\* The steps of a snapshot that touch no listener keep who holds what.
LEMMA SnapshotHeld ==
  ASSUME TypeOK, Held,
         \/ \E d \in Snapshots : Receive(d) \/ Converge(d)
         \/ PutFences \/ GuardCommit \/ Commit \/ CommitFails \/ UndoNewActors
         \/ \E s \in frame.left : DecideAbsent(s) \/ DecideRefused(s) \/ GuardApply(s)
  PROVE  Held'
<1>1. frame \in FrameType
  BY DEF TypeOK
<1>2. frame.acq = None
  BY DEF Held, FrameOwns, Receive, Converge, PutFences, GuardCommit, Commit, CommitFails,
         UndoNewActors, DecideAbsent, DecideRefused, GuardApply
<1>3. UNCHANGED <<forwards, pending, actor, mu, op, rec>>
  BY DEF Receive, Converge, PutFences, GuardCommit, Commit, CommitFails,
         UndoNewActors, DecideAbsent, DecideRefused, GuardApply, plane
<1>4. ASSUME NEW s \in frame.left, DecideAbsent(s) \/ DecideRefused(s) \/ GuardApply(s)
      PROVE  /\ frame'.acq = None /\ frame'.pc \in {"idle", "spec", "op", "undo"}
             /\ frame'.pc = "op" => frame'.s \in frame'.left /\ frame'.s.present
  <2>1. s \in Specs /\ \A o \in {"deleted", "gone", "skipped"} : o \in Outcomes
    BY <1>1, FrameFields DEF Outcomes
  <2>2. CASE GuardApply(s)
    BY <1>1, <1>2, <2>2 DEF GuardApply, FrameType
  <2>3. CASE DecideAbsent(s) \/ DecideRefused(s)
    <3>1. \/ frame' = IdleFrame
          \/ \E o \in {"deleted", "gone", "skipped"} : frame' = Decided(s, o)
      BY <2>3 DEF DecideAbsent, DecideRefused
    <3>2. CASE frame' = IdleFrame
      BY <3>2, IdleFields
    <3>3. ASSUME NEW o \in {"deleted", "gone", "skipped"}, frame' = Decided(s, o)
          PROVE  frame'.acq = None /\ frame'.pc = "spec"
      BY <1>1, <2>1, <3>3, DecidedFields
    <3> QED BY <3>1, <3>2, <3>3
  <2> QED BY <1>4, <2>2, <2>3
<1>5. ASSUME \/ \E d \in Snapshots : Receive(d) \/ Converge(d)
             \/ PutFences
      PROVE  frame'.acq = None /\ frame'.pc \in {"fence", "spec", "idle"}
  <2>1. CASE PutFences
    BY <1>1, <1>2, <2>1, IdleFields DEF PutFences, FrameType
  <2>2. CASE \E d \in Snapshots : Receive(d) \/ Converge(d)
    BY <2>2 DEF Receive, Converge, IdleFrame
  <2> QED BY <1>5, <2>1, <2>2
<1>6. ASSUME GuardCommit \/ Commit \/ CommitFails \/ UndoNewActors
      PROVE  frame'.acq = None /\ frame'.pc \in {"commit", "undo", "stop"}
  BY <1>1, <1>2, <1>6 DEF GuardCommit, Commit, CommitFails, UndoNewActors, FrameType
<1>7. /\ frame'.acq = None /\ frame'.pc \in {"idle", "fence", "spec", "op", "undo", "commit", "stop"}
      /\ frame'.pc = "op" => frame'.s \in frame'.left /\ frame'.s.present
  BY <1>4, <1>5, <1>6
<1> QED BY <1>2, <1>3, <1>7, FrameHeld DEF ActorsSame

\* Starting, failing and preparing an apply, and undoing a hot update, keep who holds
\* what.
LEMMA ApplyHeld ==
  ASSUME TypeOK, VerdictsHold, Held,
         \/ ApplyBegin \/ ApplyFails \/ ApplyDecide
         \/ \E f \in Forwards : UndoHotUpdate(f)
  PROVE  Held'
<1>1. frame \in FrameType /\ "failed" \in Outcomes
  BY DEF TypeOK, Outcomes
<1>2. frame.acq = None /\ UNCHANGED <<forwards, pending, mu, rec>>
  BY DEF Held, FrameOwns, ApplyBegin, ApplyFails, ApplyDecide, UndoHotUpdate
<1>3. ASSUME frame.pc \in {"op", "clean", "acquire"}
      PROVE  /\ frame.s \in Specs /\ frame.s.f \in Forwards /\ frame.s \in frame.left /\ frame.s.present
             /\ frame.pc # "op" => op[frame.s.f] = Loop /\ frame.gen # None
  BY <1>1, <1>3, FrameFields, SpecFields DEF Held, FrameOwns
<1>4. ASSUME frame.s \in Specs, frame' = Decided(frame.s, "failed")
      PROVE  frame'.pc = "spec" /\ frame'.acq = None
  BY <1>1, <1>4, DecidedFields
<1>5. ASSUME NEW a \in Actors, NEW t \in Targets, actor[a] # None,
             actor' = [actor EXCEPT ![a].target = t]
      PROVE  ActorsSame
  <2>1. /\ \A b \in Actors \ {a} : actor'[b] = actor[b]
        /\ actor'[a] = [actor[a] EXCEPT !.target = t]
    BY <1>5 DEF TypeOK
  <2>2. actor[a] \in ActorInfo
    BY <1>5 DEF TypeOK
  <2>3. actor'[a].f = actor[a].f /\ actor'[a].served = actor[a].served /\ actor'[a] \in ActorInfo
    BY <2>1, <2>2 DEF ActorInfo
  <2> QED BY <1>5, <2>1, <2>3, ConstantsAssumption DEF ActorsSame
<1>6. ASSUME op' = [op EXCEPT ![frame.s.f] = None], frame.pc \in {"clean", "acquire"}
      PROVE  \A f \in Forwards : op[f] \in Recoverers => op'[f] = op[f]
  BY SMT, <1>3, <1>6, Disjoint DEF TypeOK
<1>7. CASE ApplyBegin \/ ApplyFails
  <2>1. ActorsSame
    BY <1>7 DEF ApplyBegin, ApplyFails, ActorsSame
  <2>2. CASE frame' = Decided(frame.s, "failed") /\ (ApplyFails \/ Fenced(frame.s.f))
    <3>1. \A f \in Forwards : op[f] \in Recoverers => op'[f] = op[f]
      BY <1>6, <1>7, <2>2 DEF ApplyBegin, ApplyFails, EndApply
    <3> QED BY <1>2, <1>3, <1>4, <1>7, <2>1, <2>2, <3>1, FrameHeld DEF ApplyBegin, ApplyFails
  <2>3. CASE frame' = [frame EXCEPT !.pc = "clean", !.gen = gen] /\ ApplyBegin /\ ~Fenced(frame.s.f)
    <3>1. /\ frame'.pc = "clean" /\ frame'.gen = gen /\ frame'.acq = None
          /\ frame'.s = frame.s /\ frame'.left = frame.left
      BY <1>1, <1>2, <2>3 DEF FrameType
    <3>2. op' = [op EXCEPT ![frame.s.f] = Loop] /\ op[frame.s.f] = None /\ frame.pc = "op"
      BY <2>3 DEF ApplyBegin
    <3>3. /\ op'[frame.s.f] = Loop
          /\ \A f \in Forwards : op[f] \in Recoverers => op'[f] = op[f]
      BY SMT, <1>3, <3>2, Disjoint DEF TypeOK
    <3>4. gen # None
      BY ConstantsAssumption DEF TypeOK
    <3> QED BY <1>2, <1>3, <2>1, <3>1, <3>2, <3>3, <3>4, FrameHeld
  <2> QED BY <1>7, <2>2, <2>3 DEF ApplyBegin, ApplyFails, EndApply
<1>8. CASE ApplyDecide
  <2>1. frame.pc = "clean"
    BY <1>8 DEF ApplyDecide
  <2>2. CASE EndApply("failed") /\ actor' = actor
    <3>1. \A f \in Forwards : op[f] \in Recoverers => op'[f] = op[f]
      BY <1>6, <2>1, <2>2 DEF EndApply
    <3> QED BY <1>2, <1>3, <1>4, <2>1, <2>2, <3>1, FrameHeld DEF EndApply, ActorsSame
  <2>3. CASE frame' = [frame EXCEPT !.pc = "acquire"] /\ UNCHANGED <<actor, op>> /\ forwards[frame.s.f] = None
    <3>1. /\ frame'.pc = "acquire" /\ frame'.acq = None /\ frame'.gen = frame.gen
          /\ frame'.s = frame.s /\ frame'.left = frame.left
      BY <1>1, <1>2, <2>3 DEF FrameType
    <3> QED BY <1>2, <1>3, <2>1, <2>3, <3>1, FrameHeld DEF ActorsSame
  <2>4. ASSUME NEW a, a = forwards[frame.s.f], a # None, EndApplied(a),
               actor' = [actor EXCEPT ![a].target = frame.s.target]
        PROVE  Held'
    <3>1. a \in Actors /\ actor[a] # None /\ frame.s.target \in Targets
      BY SMT, <1>3, <2>1, <2>4, SpecFields DEF Held, PlaneAgrees, TypeOK
    <3>2. ActorsSame
      BY <1>5, <2>4, <3>1
    <3>3. frame'.pc = "spec" /\ frame'.acq = None
      BY <1>3, <2>1, <2>4, AppliedFields
    <3>4. \A f \in Forwards : op[f] \in Recoverers => op'[f] = op[f]
      BY <1>6, <2>1, <2>4 DEF EndApplied
    <3> QED BY <1>2, <3>2, <3>3, <3>4, FrameHeld
  <2> QED BY <1>8, <2>2, <2>3, <2>4 DEF ApplyDecide
<1>9. ASSUME NEW f \in Forwards, UndoHotUpdate(f) PROVE Held'
  <2>1. frame'.pc = "undo" /\ frame'.acq = None /\ op' = op
    BY <1>1, <1>2, <1>9 DEF UndoHotUpdate, FrameType
  <2>2. CASE forwards[f] = frame.hot[f]
    <3>1. /\ frame.hot[f] \in Actors /\ actor[frame.hot[f]] # None
          /\ desired[f] \in Specs /\ desired[f].target \in Targets
      <4>1. frame.hot[f] # None /\ actor[frame.hot[f]] # None /\ desired[f] # None
        BY SMT, <1>9, <2>2 DEF UndoHotUpdate, Held, PlaneAgrees, VerdictsHold, FrameInStep
      <4>2. frame.hot[f] \in Actors /\ desired[f] \in Specs
        BY <1>1, <4>1, FrameFields DEF TypeOK
      <4> QED BY <4>1, <4>2, SpecFields
    <3>2. ActorsSame
      BY <1>5, <1>9, <2>2, <3>1 DEF UndoHotUpdate
    <3> QED BY <1>2, <2>1, <3>2, FrameHeld
  <2>3. CASE forwards[f] # frame.hot[f]
    BY <1>2, <1>9, <2>1, <2>3, FrameHeld DEF UndoHotUpdate, ActorsSame
  <2> QED BY <2>2, <2>3
<1> QED BY <1>7, <1>8, <1>9

\* Stopping Forwards keeps who holds what.
LEMMA StopHeld ==
  ASSUME TypeOK, VerdictsHold, Held, StopForwards
  PROVE  Held'
<1>1. frame \in FrameType /\ frame.acq = None
  BY DEF TypeOK, Held, FrameOwns, StopForwards, Stop, StopReturns, StopFails, Complete, StopsOver,
         Report, Decommission, StopAll
<1>2. ASSUME NEW f \in Forwards, Stop(f) PROVE Held'
  <2>1. frame'.pc = "wait" /\ frame'.acq = None
    BY <1>1, <1>2 DEF Stop, FrameType
  <2> QED BY <1>1, <1>2, <2>1, UninstallHeld DEF Stop
<1>3. ASSUME UNCHANGED <<plane, rec>>, frame'.acq = None,
             frame'.pc \in {"stop", "complete", "report", "terminal", "idle", "stopall"}
      PROVE  Held'
  <2>1. UNCHANGED <<forwards, pending, actor, mu, op, rec>>
    BY <1>3 DEF plane
  <2> QED BY <1>1, <1>3, <2>1, FrameHeld DEF ActorsSame
<1>4. CASE StopReturns \/ StopFails \/ Complete
  <2>1. Stopped \in FrameType /\ Stopped.pc = "stop" /\ Stopped.acq = None
    BY <1>1, StoppedTyped, StoppedFields
  <2>2. frame'.pc \in {"stop", "complete"} /\ frame'.acq = None
    <3>1. CASE StopReturns
      BY <1>1, <2>1, <3>1 DEF StopReturns, FrameType
    <3>2. CASE StopFails
      BY <2>1, <3>2 DEF StopFails, FrameType
    <3>3. CASE Complete
      <4>1. PICK b \in BOOLEAN : frame' = [Stopped EXCEPT !.out[frame.f] = IF b THEN "deleteFailed" ELSE @]
        BY <3>3 DEF Complete
      <4> QED BY <2>1, <4>1 DEF FrameType
    <3> QED BY <1>4, <3>1, <3>2, <3>3
  <2> QED BY <1>3, <1>4, <2>2 DEF StopReturns, StopFails, Complete
<1>5. CASE StopsOver \/ Report \/ Decommission \/ StopAll
  <2>1. frame'.pc \in {"stop", "report", "terminal", "idle", "stopall"} /\ frame'.acq = None
    <3>1. CASE StopsOver
      <4>1. \/ frame' = [frame EXCEPT !.pc = "report"] \/ frame' = IdleFrame
            \/ frame' = [IdleFrame EXCEPT !.pc = "terminal"]
        BY <3>1 DEF StopsOver
      <4> QED BY SMT, <1>1, <4>1 DEF FrameType, IdleFrame
    <3>2. CASE Report \/ Decommission
      BY SMT, <3>2 DEF Report, Decommission, IdleFrame
    <3>3. CASE StopAll
      BY <1>1, <3>3 DEF StopAll, FrameType
    <3> QED BY <1>5, <3>1, <3>2, <3>3
  <2> QED BY <1>3, <1>5, <2>1 DEF StopsOver, Report, Decommission, StopAll
<1> QED BY <1>2, <1>4, <1>5 DEF StopForwards
=============================================================================
