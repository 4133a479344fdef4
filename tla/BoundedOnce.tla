----------------------------- MODULE BoundedOnce -----------------------------
(***************************************************************************)
(* What the home agent promises about signed commands, with no journal, no *)
(* clock and no crash: a command is claimed at most once per action, asked *)
(* of its device at most once, and, when it is bounded, ended exactly once *)
(* before any other command may claim the same target.                     *)
(***************************************************************************)
CONSTANTS Envelopes, ActionOf, TargetOf, Bounded

VARIABLE stage      \* "new", "claimed", "requested" or "ended", per envelope

Init == stage = [e \in Envelopes |-> "new"]

Unfinished(e) == e \in Bounded /\ stage[e] \in {"claimed", "requested"}

\* Store.reserve
Claim(e) ==
    /\ stage[e] = "new"
    /\ \A f \in Envelopes : stage[f] # "new" => ActionOf[f] # ActionOf[e]
    /\ \A f \in Envelopes : Unfinished(f) => TargetOf[f] # TargetOf[e]
    /\ stage' = [stage EXCEPT ![e] = "claimed"]

\* The one opening request of Devices.__call__
Request(e) ==
    /\ stage[e] = "claimed"
    /\ stage' = [stage EXCEPT ![e] = "requested"]

\* Store.complete(reverting=True) after a matched ending; an ending may be
\* due before the opening was ever requested.
End(e) ==
    /\ Unfinished(e)
    /\ stage' = [stage EXCEPT ![e] = "ended"]

Next == \E e \in Envelopes : Claim(e) \/ Request(e) \/ End(e)

Spec == Init /\ [][Next]_stage
=============================================================================
