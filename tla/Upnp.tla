-------------------------------- MODULE Upnp --------------------------------
(***************************************************************************)
(* The UPnP IGD adapter (internal/traversal/upnp): discovery, Map, Renew   *)
(* and Delete of the Agent's Forwards against the port tables of one or    *)
(* more gateways that other hosts use too.                                 *)
(*                                                                         *)
(* All Forwards of the Agent share one adapter, whose resolved gateway     *)
(* every discovery replaces.  The gateways are external: an IGDv2 reserves *)
(* a free port of its choice; an IGDv1 refuses a port of another host,     *)
(* overwrites one of the same host, and may keep something else than it    *)
(* was asked for; either may mangle every description it stores.  Any      *)
(* answer may be lost.                                                     *)
(***************************************************************************)
EXTENDS Naturals

CONSTANTS
    Gateways,        \* internet gateway devices that answer discovery
    Callers,         \* Forwards of the Agent, each with its own internal port
    PublicPorts,     \* external ports, positive
    Wanted,          \* port each Forward requests; 0 leaves it to the gateway
    StrictCallers,   \* those whose plan is strict about it
    MaxTries,        \* maxCandidateAttempts
    MaxUpsets        \* entries that expire or are taken by another host

VARIABLES
    device,          \* each gateway's kind: [second, mangles]
    igd,             \* the gateways' tables: [gateway -> [port -> entry]]
    delegate,        \* the adapter's resolved gateway, or NoGateway
    stage,           \* where each caller is
    call,            \* its call: [kind, at, port, tries]
    grant,           \* the mapping it holds: [at, port]; port 0 is none
    dropped,         \* the entry of its mapping was taken from it
    outdated,        \* the entry it is deleting changed after it was read
    upsets

upnpVars == <<device, igd, delegate, stage, call, grant, dropped, outdated,
              upsets>>

NoGateway == "no gateway"
NoGrant == [at |-> NoGateway, port |-> 0]
NoCall == [kind |-> "none", at |-> NoGateway, port |-> 0, tries |-> 0]

(***************************************************************************)
(* An entry: whose it is, whether its description reads back as written,   *)
(* and whether an error told the caller that it may have been left behind. *)
(***************************************************************************)
Entry(who, intact, told) == [by |-> who, intact |-> intact, told |-> told]
Free == Entry("free", TRUE, FALSE)
Foreign == Entry("other", TRUE, FALSE)

UpnpInit ==
    /\ device \in [Gateways -> [second : BOOLEAN, mangles : BOOLEAN]]
    /\ igd = [g \in Gateways |-> [p \in PublicPorts |-> Free]]
    /\ delegate = NoGateway
    /\ stage = [c \in Callers |-> "idle"]
    /\ call = [c \in Callers |-> NoCall]
    /\ grant = [c \in Callers |-> NoGrant]
    /\ dropped = [c \in Callers |-> FALSE]
    /\ outdated = [c \in Callers |-> FALSE]
    /\ upsets = 0

At(g, p) == igd[g][p]

\* The entry gateway g makes for c.
Made(c, g, told) == Entry(c, ~device[g].mangles, told)

(***************************************************************************)
(* Entry p of gateway g becomes e by the hand of who.                      *)
(***************************************************************************)
Replace(who, g, p, e) ==
    /\ igd' = [igd EXCEPT ![g][p] = e]
    /\ dropped' = [x \in Callers |->
          /\ e.by # x \/ grant[x].port \notin {0, p}
          /\ \/ dropped[x]
             \/ x # who /\ At(g, p).by = x /\ grant[x] = [at |-> g, port |-> p]]
    /\ outdated' = [x \in Callers |->
          \/ outdated[x]
          \/ /\ x # who /\ stage[x] = "deleting"
             /\ call[x].at = g /\ call[x].port = p]

LeaveTable == UNCHANGED <<igd, dropped, outdated>>

Goto(c, s) == stage' = [stage EXCEPT ![c] = s]

(***************************************************************************)
(* A call that fails leaves a holder of a mapping with it (Renew) and any  *)
(* other caller with nothing.                                              *)
(***************************************************************************)
CallFails(c) ==
    /\ Goto(c, IF call[c].kind = "renew" THEN "held" ELSE "idle")
    /\ grant' = [grant EXCEPT ![c] = IF call[c].kind = "renew" THEN @ ELSE NoGrant]
    /\ call' = [call EXCEPT ![c] = NoCall]

\* The error names what may have been left behind at the entry.
FailTelling(c, g, p) ==
    /\ CallFails(c)
    /\ IF At(g, p).by = c
          THEN Replace(c, g, p, [At(g, p) EXCEPT !.told = TRUE])
          ELSE LeaveTable

-----------------------------------------------------------------------------
(* Discover, and the start of Map, Renew and Delete.  Each reads the       *)
(* adapter's resolved gateway when it starts.                              *)

Discover(c) ==
    /\ stage[c] = "idle"
    /\ \E g \in Gateways : delegate' = g
    /\ Goto(c, "resolved")
    /\ LeaveTable
    /\ UNCHANGED <<device, call, grant, upsets>>

Start(c, from, to, kind, port) ==
    /\ stage[c] = from
    /\ delegate # NoGateway
    /\ Goto(c, to)
    /\ call' = [call EXCEPT ![c] =
                  [kind |-> kind, at |-> delegate, port |-> port, tries |-> 0]]
    /\ LeaveTable
    /\ UNCHANGED <<device, delegate, grant, upsets>>

Map(c) == Start(c, "resolved", "adding", "map", Wanted[c])
Renew(c) == Start(c, "held", "adding", "renew", grant[c].port)
Delete(c) == Start(c, "held", "querying", "delete", grant[c].port)

-----------------------------------------------------------------------------
(***************************************************************************)
(* The adapter's reading of a granted port: a strict request that got      *)
(* another port, or a renewal that moved, deletes the entry and fails.     *)
(* The plan is made from a profile, whatever the gateway is by now.        *)
(***************************************************************************)
Strict(c) == c \in StrictCallers /\ Wanted[c] # 0

Stray(c, p) ==
    \/ call[c].kind = "map" /\ Strict(c) /\ p # Wanted[c]
    \/ call[c].kind = "renew" /\ p # grant[c].port

\* Mutant of Settle: the entry at the wrong port is left where it is.
SettleLeaving(c, p) ==
    IF Stray(c, p)
       THEN CallFails(c)
       ELSE /\ Goto(c, "held")
            /\ grant' = [grant EXCEPT ![c] = [at |-> call[c].at, port |-> p]]
            /\ call' = [call EXCEPT ![c] = NoCall]

Settle(c, p) ==
    IF Stray(c, p)
       THEN /\ Goto(c, "querying")
            /\ call' = [call EXCEPT ![c].port = p, ![c].at = delegate]
            /\ UNCHANGED grant
       ELSE /\ Goto(c, "held")
            /\ grant' = [grant EXCEPT ![c] = [at |-> call[c].at, port |-> p]]
            /\ call' = [call EXCEPT ![c] = NoCall]

(***************************************************************************)
(* Client.Map on IGDv2: one AddAnyPortMapping, whose answer names the      *)
(* reserved port.  A re-add of the caller's own entry may keep it.         *)
(***************************************************************************)
AddAny(c) ==
    /\ stage[c] = "adding" /\ device[call[c].at].second
    /\ LET g == call[c].at
           open == {p \in PublicPorts :
                      \/ At(g, p) = Free
                      \/ p = call[c].port /\ At(g, p).by = c}
       IN  \/ /\ CallFails(c) /\ LeaveTable
           \/ \E p \in open :
                 /\ Replace(c, g, p, Made(c, g, FALSE))
                 /\ Settle(c, p)
           \/ \E p \in open :      \* the answer is lost
                 /\ Replace(c, g, p, Made(c, g, TRUE))
                 /\ CallFails(c)
    /\ UNCHANGED <<device, delegate, upsets>>

(***************************************************************************)
(* Client.Map on IGDv1: one AddPortMapping for the candidate, which is the *)
(* requested port on the first try and random after that.                  *)
(***************************************************************************)
Candidates(c) ==
    IF call[c].tries = 0 /\ call[c].port # 0 THEN {call[c].port} ELSE PublicPorts

Conflict(c) ==
    IF call[c].tries + 1 < MaxTries
       THEN /\ call' = [call EXCEPT ![c].tries = @ + 1]
            /\ UNCHANGED <<stage, grant>>
       ELSE CallFails(c)

Added(c, p) ==
    /\ Goto(c, "verifying")
    /\ call' = [call EXCEPT ![c].port = p]
    /\ UNCHANGED grant

AddExact(c) ==
    /\ stage[c] = "adding" /\ ~device[call[c].at].second
    /\ LET g == call[c].at IN
       \E p \in Candidates(c) :
          \/ /\ CallFails(c) /\ LeaveTable
          \/ /\ At(g, p).by = "other"
             /\ Conflict(c) /\ LeaveTable
          \/ /\ Added(c, p) /\ LeaveTable      \* accepted, something else kept
          \/ /\ At(g, p).by # "other"
             /\ \/ /\ Replace(c, g, p, Made(c, g, FALSE))
                   /\ Added(c, p)
                \/ /\ Replace(c, g, p, Made(c, g, TRUE))
                   /\ CallFails(c)             \* the answer is lost
    /\ UNCHANGED <<device, delegate, upsets>>

(***************************************************************************)
(* The read-back of an IGDv1 add: adopt what matches, delete a mangled     *)
(* entry of our own, leave anything else alone.                            *)
(***************************************************************************)
Verify(c) ==
    /\ stage[c] = "verifying"
    /\ LET g == call[c].at
           p == call[c].port
           e == At(g, p)
       IN  \/ FailTelling(c, g, p)             \* the query failed
           \/ /\ e.by = c /\ e.intact
              /\ Settle(c, p) /\ LeaveTable
           \/ /\ e.by = c /\ ~e.intact
              /\ Goto(c, "deleting")
              /\ outdated' = [outdated EXCEPT ![c] = FALSE]
              /\ UNCHANGED <<igd, dropped, call, grant>>
           \/ /\ e.by # c
              /\ CallFails(c) /\ LeaveTable
    /\ UNCHANGED <<device, delegate, upsets>>

-----------------------------------------------------------------------------

(***************************************************************************)
(* Client.Delete: query, compare, delete.  A missing entry counts as gone. *)
(***************************************************************************)
Matches(c, e) == e.by = c /\ e.intact

QueryEntry(c) ==
    /\ stage[c] = "querying"
    /\ LET g == call[c].at
           p == call[c].port
           e == At(g, p)
       IN  \/ FailTelling(c, g, p)             \* the query failed
           \/ /\ e = Free
              /\ CallFails(c) /\ LeaveTable
           \/ /\ e # Free /\ ~Matches(c, e)
              /\ FailTelling(c, g, p)          \* ErrForeignMapping
           \/ /\ e # Free /\ Matches(c, e)
              /\ Goto(c, "deleting")
              /\ outdated' = [outdated EXCEPT ![c] = FALSE]
              /\ UNCHANGED <<igd, dropped, call, grant>>
    /\ UNCHANGED <<device, delegate, upsets>>

DeleteEntry(c) ==
    /\ stage[c] = "deleting"
    /\ LET g == call[c].at
           p == call[c].port
       IN  \/ Replace(c, g, p, Free) /\ CallFails(c)
           \/ FailTelling(c, g, p)             \* the delete failed
    /\ UNCHANGED <<device, delegate, upsets>>

-----------------------------------------------------------------------------
(* The gateway's other users and its leases (external).                    *)

Upset(g, p, e) ==
    /\ upsets < MaxUpsets
    /\ upsets' = upsets + 1
    /\ Replace("other", g, p, e)
    /\ UNCHANGED <<device, delegate, stage, call, grant>>

Expire(g, p) == At(g, p) # Free /\ Upset(g, p, Free)
TakePort(g, p) == At(g, p) = Free /\ Upset(g, p, Foreign)

UpnpNext ==
    \/ \E c \in Callers :
          \/ Discover(c) \/ Map(c) \/ Renew(c) \/ Delete(c)
          \/ AddAny(c) \/ AddExact(c) \/ Verify(c)
          \/ QueryEntry(c) \/ DeleteEntry(c)
    \/ \E g \in Gateways, p \in PublicPorts : Expire(g, p) \/ TakePort(g, p)

UpnpSpec == UpnpInit /\ [][UpnpNext]_upnpVars

-----------------------------------------------------------------------------
(* The variables keep their types, a caller is in a call exactly while it  *)
(* has one, and it never tries more candidates than maxCandidateAttempts.  *)
UpnpTypeOK ==
    /\ delegate \in Gateways \cup {NoGateway}
    /\ \A g \in Gateways, p \in PublicPorts :
          At(g, p).by \in Callers \cup {"free", "other"}
    /\ \A c \in Callers :
          /\ stage[c] \in {"idle", "resolved", "adding", "verifying",
                           "querying", "deleting", "held"}
          /\ (call[c] = NoCall) <=> stage[c] \in {"idle", "resolved", "held"}
          /\ call[c].tries < MaxTries
          /\ stage[c] = "held" => grant[c].port \in PublicPorts

(* Nothing leaks silently: an entry of the Agent at a gateway belongs to a *)
(* mapping some caller holds or to a call still under way, unless the call *)
(* that left it ended in an error (strict policy, renewal elsewhere,       *)
(* verification and Delete, adapter.go and client.go).                     *)
EntriesAccounted ==
    \A g \in Gateways, p \in PublicPorts, c \in Callers :
        At(g, p).by = c /\ ~At(g, p).told =>
            \/ grant[c] = [at |-> g, port |-> p]
            \/ call[c].at = g /\ call[c].port = p

(* Success is not ownership: a mapping a caller holds is one its gateway   *)
(* had entered for it under that very port, and still has unless the lease *)
(* ran out or another add took it (Map's read-back, Renew's comparison).   *)
HeldIsBacked ==
    \A c \in Callers :
        stage[c] = "held" /\ ~dropped[c] => At(grant[c].at, grant[c].port).by = c

(* Query-then-delete: a delete is only sent for an entry that was the      *)
(* caller's own when it was read, so another user's entry can be hit only  *)
(* if it moved in between (the window Delete's comment names).             *)
DeletesOwnEntry ==
    \A c \in Callers :
        stage[c] = "deleting" /\ ~outdated[c] => At(call[c].at, call[c].port).by = c

(* The tables of the gateway and the Agent agree: every entry of the Agent *)
(* has a holder, every mapping held is entered, and only the Agent's own   *)
(* entries are deleted (Map, Renew and Delete of client.go).               *)
UpnpInv == UpnpTypeOK /\ EntriesAccounted /\ HeldIsBacked /\ DeletesOwnEntry
=============================================================================
