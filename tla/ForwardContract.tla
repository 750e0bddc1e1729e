--------------------------- MODULE ForwardContract ---------------------------
(***************************************************************************)
(* What the Agent promises about a Forward, with snapshots, goroutines and *)
(* crashes left out: the revision it serves never goes back, a deletion is *)
(* final, and once the deletion is complete no listener is open for the    *)
(* Forward, then or ever after (docs/state-model.md, 3.1 and 4).           *)
(***************************************************************************)
EXTENDS Naturals
CONSTANTS Forwards, Revisions

VARIABLES rev,    \* the revision each Forward serves, 0 when it serves none
          fate,   \* "live", "deleted" once that is durable, "gone" when complete
          open    \* whether a listener that served the Forward is still open

Init ==
  /\ rev = [f \in Forwards |-> 0]
  /\ fate = [f \in Forwards |-> "live"]
  /\ open = [f \in Forwards |-> FALSE]

\* Listeners come and go while the Forward is not gone.
Rest(f) ==
  /\ rev'[f] = rev[f] /\ fate'[f] = fate[f]
  /\ fate[f] = "gone" => ~open'[f]

Serve(f) ==
  /\ fate[f] = "live" /\ fate'[f] = "live"
  /\ rev'[f] \in Revisions /\ rev'[f] >= rev[f]

Delete(f) ==
  /\ fate[f] = "live" /\ fate'[f] = "deleted"
  /\ rev'[f] = 0

Finish(f) ==
  /\ fate[f] = "deleted" /\ fate'[f] = "gone"
  /\ rev'[f] = 0 /\ ~open'[f]

\* One snapshot decides about several Forwards at once.
Next ==
  /\ rev' \in [Forwards -> Revisions \cup {0}]
  /\ fate' \in [Forwards -> {"live", "deleted", "gone"}]
  /\ open' \in [Forwards -> BOOLEAN]
  /\ \A f \in Forwards : Rest(f) \/ Serve(f) \/ Delete(f) \/ Finish(f)

Spec == Init /\ [][Next]_<<rev, fate, open>>
=============================================================================
