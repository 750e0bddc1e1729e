----------------------------- MODULE Detection ------------------------------
(***************************************************************************)
(* Capability detection and what Forwards make of it: the Detector's pass  *)
(* over the strategies, the profile cached on disk, the route and plan of  *)
(* a Forward, and the verdict on the layers its acquisition observed.      *)
(*                                                                         *)
(* A network stands for its fingerprint.  On "public" the default route's  *)
(* interface has a global address, on "cpe" a private one, on "down" there *)
(* is no default route.  Gateways and STUN servers are external: every     *)
(* attempt at them may succeed or fail.                                    *)
(***************************************************************************)
EXTENDS Naturals, Sequences

LOCAL INSTANCE SequencesExt

CONSTANTS
    AutoOrder,       \* configured order of strategies for auto
    Parallel,        \* attempts the Detector runs at once
    Specs,           \* Forwards: [strategy, udp, port, manual]
    Endpoints,       \* what gateways and STUN report: [global, port]
    MaxTroubles      \* changed networks, aged profiles, failed reads and saves

VARIABLES
    network,         \* what the route table says now
    composed,        \* mechanisms of the present composition
    pass,            \* the detection pass: [pc, print, profile]
    attempt,         \* its attempts: [name -> [st, second]]
    tuples,          \* attempts that hold a temporary tuple
    tempMaps,        \* temporary mappings that are up and in no result's note
    cached,          \* the profile on disk, or NoProfile
    aged,            \* that profile is older than profileMaxAge
    opening,         \* the Forward being opened: [pc, spec, mechs, plan, layers, verdict]
    troubles

detVars == <<network, composed, pass, attempt, tuples, tempMaps, cached, aged,
             opening, troubles>>
passVars == <<pass, attempt, tuples, tempMaps>>

Networks == {"public", "cpe", "down"}
AttemptOrder == <<"direct-v4", "pcp", "nat-pmp", "upnp-igd", "stun-only">>
Attempts == ToSet(AttemptOrder)
Mechanisms == {"pcp", "nat-pmp", "upnp-igd"}

NoProfile == [print |-> "none", passed |-> {}, layer |-> "", default |-> ""]
NoPlan == [strategy |-> "", layer |-> "", second |-> FALSE, strict |-> FALSE]
NoVerdict == [public |-> FALSE, scope |-> "", global |-> FALSE, port |-> 0]
NoSpec == [strategy |-> "", udp |-> FALSE, port |-> 0, manual |-> "none"]
NoRoute == [pc |-> "idle", spec |-> NoSpec, plan |-> NoPlan,
            verdict |-> NoVerdict, layers |-> <<>>, mechs |-> {}]
Fresh(st) == [st |-> st, second |-> FALSE]

\* Assess: the default route's interface has a global address.
Assess(n) == n = "public"

\* DefaultRouteSource: it has an address, private or global.
DefaultRouteSource(n) == n # "down"

\* composeTraversal: adapters exist only where the default route has a source.
Composition(n) == IF DefaultRouteSource(n) THEN Mechanisms ELSE {}

DetInit ==
    /\ network \in Networks
    /\ composed = Composition(network)
    /\ pass = [pc |-> "idle", print |-> "none", profile |-> NoProfile]
    /\ attempt = [a \in Attempts |-> Fresh("absent")]
    /\ tuples = {} /\ tempMaps = {}
    /\ cached = NoProfile /\ aged = FALSE
    /\ opening = NoRoute /\ troubles = 0

Trouble == troubles < MaxTroubles /\ troubles' = troubles + 1

-----------------------------------------------------------------------------
(***************************************************************************)
(* A detection pass.  The Detector is the one of the composition at the    *)
(* start; the fingerprint is read from the route table before any attempt. *)
(***************************************************************************)
RunDetection ==
    /\ pass.pc = "idle"
    /\ pass' = [pc |-> "running", print |-> network, profile |-> NoProfile]
    /\ attempt' = [a \in Attempts |->
          Fresh(IF a \in Mechanisms \ composed THEN "absent" ELSE "todo")]
    /\ UNCHANGED <<network, composed, tuples, tempMaps, cached, aged, opening,
                   troubles>>

Running(a) == attempt[a].st \in {"tuple", "mapped"}

(***************************************************************************)
(* The next attempt may start: any of them below the limit when attempts   *)
(* run in parallel, otherwise the first one left.                          *)
(***************************************************************************)
MayStart(a) ==
    /\ pass.pc = "running" /\ attempt[a].st = "todo"
    /\ IF Parallel > 1
          THEN Len(SelectSeq(AttemptOrder, Running)) < Parallel
          ELSE \A i, k \in 1..Len(AttemptOrder) :
                  i < k /\ AttemptOrder[k] = a =>
                      attempt[AttemptOrder[i]].st \in {"absent", "passed", "failed"}

Ends(a, st) == attempt' = [attempt EXCEPT ![a].st = st]

(***************************************************************************)
(* An attempt that cannot start its work: no global source, no discovery,  *)
(* no temporary tuple, no STUN server that answers.                        *)
(***************************************************************************)
AttemptFails(a) ==
    /\ MayStart(a)
    /\ Ends(a, "failed")
    /\ UNCHANGED <<network, composed, pass, tuples, tempMaps, cached, aged,
                   opening, troubles>>

DirectAttempt ==
    /\ MayStart("direct-v4") /\ Assess(network)
    /\ Ends("direct-v4", "tuple")
    /\ tuples' = tuples \cup {"direct-v4"}
    /\ UNCHANGED <<network, composed, pass, tempMaps, cached, aged, opening,
                   troubles>>

DirectPasses ==
    /\ attempt["direct-v4"].st = "tuple"
    /\ Ends("direct-v4", "passed")
    /\ tuples' = tuples \ {"direct-v4"}
    /\ UNCHANGED <<network, composed, pass, tempMaps, cached, aged, opening,
                   troubles>>

\* Discovery answered (for UPnP with a version) and a temporary tuple is bound.
GatewayAttempt(m) ==
    /\ MayStart(m)
    /\ \E second \in (IF m = "upnp-igd" THEN BOOLEAN ELSE {FALSE}) :
          attempt' = [attempt EXCEPT ![m].st = "tuple", ![m].second = second]
    /\ tuples' = tuples \cup {m}
    /\ UNCHANGED <<network, composed, pass, tempMaps, cached, aged, opening,
                   troubles>>

(***************************************************************************)
(* The temporary mapping: refused, or made with its answer lost, when the  *)
(* tuple goes back and the error is the result's note; or made.            *)
(***************************************************************************)
MapFails(m) ==
    /\ attempt[m].st = "tuple"
    /\ attempt' = [attempt EXCEPT ![m] = Fresh("failed")]
    /\ tuples' = tuples \ {m}
    /\ UNCHANGED <<network, composed, pass, tempMaps, cached, aged, opening,
                   troubles>>

MapSucceeds(m) ==
    /\ attempt[m].st = "tuple"
    /\ Ends(m, "mapped")
    /\ tempMaps' = tempMaps \cup {m}
    /\ UNCHANGED <<network, composed, pass, tuples, cached, aged, opening,
                   troubles>>

\* The mapping is deleted, or the failed delete noted: the result is the same.
GatewayPasses(m) ==
    /\ attempt[m].st = "mapped"
    /\ Ends(m, "passed")
    /\ tempMaps' = tempMaps \ {m}
    /\ tuples' = tuples \ {m}
    /\ UNCHANGED <<network, composed, pass, cached, aged, opening, troubles>>

StunPasses ==
    /\ MayStart("stun-only")
    /\ Ends("stun-only", "passed")
    /\ UNCHANGED <<network, composed, pass, tuples, tempMaps, cached, aged,
                   opening, troubles>>

-----------------------------------------------------------------------------
(***************************************************************************)
(* The aggregation, in the order of the attempts: the first mechanism that *)
(* passed is explicit-gateway's result, later ones only add to its notes.  *)
(***************************************************************************)
Signature(a) ==
    IF a = "upnp-igd" /\ attempt[a].second THEN "upnp-igd:2" ELSE a

\* Mutant of Fold: a later mechanism replaces an earlier one.
FoldLast(acc, a) ==
    IF attempt[a].st # "passed" THEN acc
    ELSE IF a \notin Mechanisms THEN [acc EXCEPT !.passed = @ \cup {a}]
    ELSE [passed |-> acc.passed \cup {"explicit-gateway"}, layer |-> Signature(a)]

Fold(acc, a) ==
    IF attempt[a].st # "passed" THEN acc
    ELSE IF a \notin Mechanisms THEN [acc EXCEPT !.passed = @ \cup {a}]
    ELSE IF acc.layer # "" THEN acc
    ELSE [passed |-> acc.passed \cup {"explicit-gateway"}, layer |-> Signature(a)]

Aggregate == FoldLeft(Fold, [passed |-> {}, layer |-> ""], AttemptOrder)

\* ResolveAuto and resolveAutoStrategy: the first of the order that passed.
ResolveAuto(passed) ==
    LET viable == SelectSeq(AutoOrder, LAMBDA s : s \in passed)
    IN  IF viable = <<>> THEN "" ELSE Head(viable)

FinishPass ==
    /\ pass.pc = "running"
    /\ \A a \in Attempts : attempt[a].st \in {"absent", "passed", "failed"}
    /\ pass' = [pass EXCEPT
                  !.pc = "saving",
                  !.profile = [print   |-> pass.print,
                               passed  |-> Aggregate.passed,
                               layer   |-> Aggregate.layer,
                               default |-> ResolveAuto(Aggregate.passed)]]
    /\ UNCHANGED <<network, composed, attempt, tuples, tempMaps, cached, aged,
                   opening, troubles>>

\* The pass is over: its attempts are forgotten with its result.
EndPass ==
    /\ pass' = [pc |-> "idle", print |-> "none", profile |-> NoProfile]
    /\ attempt' = [a \in Attempts |-> Fresh("absent")]

\* profileStore.Save replaces the file by a rename, or leaves it as it was.
SaveProfile ==
    /\ pass.pc = "saving"
    /\ EndPass
    /\ \/ cached' = pass.profile /\ aged' = FALSE /\ UNCHANGED troubles
       \/ Trouble /\ UNCHANGED <<cached, aged>>
    /\ UNCHANGED <<network, composed, tuples, tempMaps, opening>>

-----------------------------------------------------------------------------
(***************************************************************************)
(* Opening a Forward: resolveForwardRoute, planFor, and the acquisition    *)
(* with the managers of the composition at the start.  A refusal leaves    *)
(* nothing behind.  STUN servers are configured.                           *)
(***************************************************************************)
Refuse == opening' = NoRoute

(***************************************************************************)
(* The strategy auto stands for: UDP is direct and never looks at the      *)
(* profile, TCP needs one of this network that is not too old.             *)
(***************************************************************************)
Current == cached # NoProfile /\ cached.print = network /\ ~aged

Resolved(spec) ==
    IF spec.udp
       THEN (IF spec.strategy \in {"auto", "direct-v4"} THEN "direct-v4" ELSE "")
    ELSE IF spec.strategy # "auto" THEN spec.strategy
    ELSE IF Current THEN ResolveAuto(cached.passed) ELSE ""

ResolveRoute ==
    /\ opening.pc = "idle"
    /\ \E spec \in Specs :
          /\ Resolved(spec) # ""
          /\ opening' = [NoRoute EXCEPT !.pc = "routed", !.spec = spec,
                                      !.mechs = composed,
                                      !.plan.strategy = Resolved(spec)]
    /\ UNCHANGED <<network, composed, passVars, cached, aged, troubles>>

(***************************************************************************)
(* PortControlCapabilityFor: PCP and IGDv2 take an exact port, NAT-PMP and *)
(* IGDv1 take it as a suggestion.                                          *)
(***************************************************************************)
CanRequestExact(layer, second) ==
    layer = "pcp" \/ (layer = "upnp-igd" /\ second)

(***************************************************************************)
(* planFor with explicitGatewayLayer.  For a gateway the profile is loaded *)
(* again, and need only have a fingerprint.                                *)
(***************************************************************************)
LayerOf(signature) == IF signature = "upnp-igd:2" THEN "upnp-igd" ELSE signature

StrictFor(spec, layer, second) == spec.port # 0 /\ CanRequestExact(layer, second)

PlanRoute ==
    /\ opening.pc = "routed"
    /\ LET spec == opening.spec
           layer == LayerOf(cached.layer)
           second == cached.layer = "upnp-igd:2"
       IN  \/ /\ opening.plan.strategy = "explicit-gateway"
              /\ IF "explicit-gateway" \in cached.passed
                    THEN opening' = [opening EXCEPT
                            !.pc = "planned",
                            !.plan = [strategy |-> "explicit-gateway",
                                      layer    |-> layer,
                                      second   |-> second,
                                      strict   |-> StrictFor(spec, layer, second)]]
                    ELSE Refuse
           \/ /\ opening.plan.strategy = "manual-static-v4"
              /\ IF spec.manual # "none"
                    THEN opening' = [opening EXCEPT !.pc = "planned"]
                    ELSE Refuse
           \/ /\ opening.plan.strategy \in {"direct-v4", "stun-only"}
              /\ opening' = [opening EXCEPT !.pc = "planned"]
    /\ UNCHANGED <<network, composed, passVars, cached, aged, troubles>>

\* PlanStrategy, the manager's own check of the plan.
Feasible(plan) ==
    plan.strategy = "explicit-gateway" =>
        /\ plan.layer \in Mechanisms
        /\ plan.strict => CanRequestExact(plan.layer, plan.second)

(***************************************************************************)
(* EvaluateLayers over the chain of layers [kind, global, port].  An       *)
(* observed endpoint is the candidate before a mapped one; under a strict  *)
(* constraint it must have the mapped port.                                *)
(***************************************************************************)
Rewritten(layers, strict) ==
    strict /\ Len(layers) = 2 /\ layers[1].port # layers[2].port

Candidate(layers) == layers[Len(layers)]

EvaluateLayers(layers) ==
    LET c == Candidate(layers) IN
    [public |-> c.global,
     scope  |-> IF c.kind = "manual"
                   THEN (IF c.global THEN "operator" ELSE "non-routable")
                   ELSE (IF c.global THEN "global" ELSE "first-hop"),
     global |-> c.global,
     port   |-> c.port]

Layer(kind, e) == [kind |-> kind, global |-> e.global, port |-> e.port]

(***************************************************************************)
(* The layer chains an acquisition can end with: the direct source, the    *)
(* operator's endpoint, the STUN observation, or the gateway's mapping     *)
(* with or without an observation over it.  A strict mapping is for the    *)
(* requested port or fails in the adapter.                                 *)
(***************************************************************************)
DirectChains ==
    {<<Layer("direct", e)>> : e \in {x \in Endpoints : x.global /\ Assess(network)}}

ManualChains(spec) ==
    {<<Layer("manual", e)>> :
        e \in {x \in Endpoints : x.global = (spec.manual = "global")}}

StunChains ==
    {<<Layer("stun", e)>> : e \in {x \in Endpoints : DefaultRouteSource(network)}}

GatewayChains(plan, spec) ==
    LET mapped == {x \in Endpoints : /\ plan.layer \in opening.mechs
                                     /\ DefaultRouteSource(network)
                                     /\ plan.strict => x.port = spec.port}
    IN  {<<Layer("gateway", e)>> : e \in mapped} \cup
        {<<Layer("gateway", e), Layer("stun", o)>> : e \in mapped, o \in Endpoints}

\* newForwardActorResolved: the acquisition of the resolved strategy.
Chains(plan, spec) ==
    CASE plan.strategy = "direct-v4"        -> DirectChains
      [] plan.strategy = "manual-static-v4" -> ManualChains(spec)
      [] plan.strategy = "stun-only"        -> StunChains
      [] plan.strategy = "explicit-gateway" -> GatewayChains(plan, spec)
      [] OTHER -> {}

AcquireRoute ==
    /\ opening.pc = "planned"
    /\ IF ~Feasible(opening.plan)
          THEN opening' = [opening EXCEPT !.pc = "unplannable"]
          ELSE \/ Refuse
               \/ \E layers \in Chains(opening.plan, opening.spec) :
                     IF Rewritten(layers, opening.plan.strict)
                        THEN Refuse
                        ELSE opening' = [opening EXCEPT
                                         !.pc = "held", !.layers = layers,
                                         !.verdict = EvaluateLayers(layers)]
    /\ UNCHANGED <<network, composed, passVars, cached, aged, troubles>>

ReleaseRoute ==
    /\ opening.pc = "held"
    /\ Refuse
    /\ UNCHANGED <<network, composed, passVars, cached, aged, troubles>>

-----------------------------------------------------------------------------
(* The host: the route table changes, the composition follows it later     *)
(* (rebuildTraversal), profiles age.                                       *)

ChangeNetwork ==
    /\ Trouble
    /\ network' \in Networks \ {network}
    /\ UNCHANGED <<composed, passVars, cached, aged, opening>>

RebuildTraversal ==
    /\ composed # Composition(network)
    /\ composed' = Composition(network)
    /\ UNCHANGED <<network, passVars, cached, aged, opening, troubles>>

AgeProfile ==
    /\ cached # NoProfile /\ ~aged /\ Trouble
    /\ aged' = TRUE
    /\ UNCHANGED <<network, composed, passVars, cached, opening>>

DetNext ==
    \/ RunDetection \/ FinishPass \/ SaveProfile
    \/ \E a \in Attempts : AttemptFails(a)
    \/ DirectAttempt \/ DirectPasses \/ StunPasses
    \/ \E m \in Mechanisms :
          GatewayAttempt(m) \/ MapFails(m) \/ MapSucceeds(m) \/ GatewayPasses(m)
    \/ ResolveRoute \/ PlanRoute \/ AcquireRoute \/ ReleaseRoute
    \/ ChangeNetwork \/ RebuildTraversal \/ AgeProfile

DetSpec == DetInit /\ [][DetNext]_detVars

-----------------------------------------------------------------------------
(* The variables keep their types, and no more attempts run at once than   *)
(* the request allows (the Detector's semaphore).                          *)
DetTypeOK ==
    /\ network \in Networks /\ composed \subseteq Mechanisms
    /\ pass.pc \in {"idle", "running", "saving"}
    /\ \A a \in Attempts :
          attempt[a].st \in {"absent", "todo", "tuple", "mapped", "passed", "failed"}
    /\ opening.pc \in {"idle", "routed", "planned", "unplannable", "held"}
    /\ Len(SelectSeq(AttemptOrder, Running)) <= (IF Parallel > 1 THEN Parallel ELSE 1)

(* A pass gives back what it took: a temporary tuple is held only by an    *)
(* attempt under way, and a temporary mapping is up only while its attempt *)
(* has it, or a result notes it (directAttempt, gatewayAttempt and their   *)
(* deferred releases).                                                     *)
TemporariesReturned ==
    /\ tuples = {a \in Attempts : Running(a)}
    /\ tempMaps = {m \in Mechanisms : attempt[m].st = "mapped"}

(* Whatever order the attempts ran in, the profile to save says what they  *)
(* found: explicit-gateway passed exactly if a mechanism did, under the    *)
(* signature of the first one that did, and its default strategy is the    *)
(* one resolveAutoStrategy would choose (Detector.Run's aggregation).      *)
ProfileIsHonest ==
    pass.pc = "saving" =>
        LET found == {a \in Attempts : attempt[a].st = "passed"}
            gateways == found \cap Mechanisms
            profile == pass.profile
            rank(m) == CHOOSE i \in 1..Len(AttemptOrder) : AttemptOrder[i] = m
        IN  /\ ("explicit-gateway" \in profile.passed) <=> gateways # {}
            /\ profile.passed \ {"explicit-gateway"} = found \ Mechanisms
            /\ gateways # {} =>
                  \E m \in gateways :
                     /\ \A k \in gateways : rank(m) <= rank(k)
                     /\ LayerOf(profile.layer) = m
                     /\ (profile.layer = "upnp-igd:2") <=>
                            (m = "upnp-igd" /\ attempt[m].second)
            /\ profile.default = ResolveAuto(profile.passed)

(* A route that resolves can be acquired: the plan made from the profile   *)
(* is never one the manager refuses for a port its mechanism cannot        *)
(* promise, although the two are checked in different packages from        *)
(* different data (planFor and PlanStrategy).                              *)
PlansAreFeasible == opening.pc # "unplannable"

(* What a Forward publishes is what was observed last on its own chain: a  *)
(* candidate is public only if that very endpoint is global, and a pinned  *)
(* port its mechanism can promise is the published one (EvaluateLayers).   *)
VerdictIsHonest ==
    opening.pc = "held" =>
        LET last == opening.layers[Len(opening.layers)] IN
        /\ opening.verdict.public =>
              last.global /\ opening.verdict.scope \in {"global", "operator"}
        /\ opening.verdict.port = last.port
        /\ opening.plan.strict => opening.verdict.port = opening.spec.port

(* From a detection pass to a published endpoint nothing is claimed that   *)
(* was not found, and nothing borrowed is kept: temporaries go back, the   *)
(* profile says what the attempts found, a resolved route can be acquired  *)
(* and its verdict is what was observed last (Run, planFor,                *)
(* EvaluateLayers).                                                        *)
DetectionInv ==
    /\ DetTypeOK /\ TemporariesReturned /\ ProfileIsHonest
    /\ PlansAreFeasible /\ VerdictIsHonest
=============================================================================
