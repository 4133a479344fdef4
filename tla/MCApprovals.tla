----------------------------- MODULE MCApprovals -----------------------------
(* A small instance of Approvals for TLC. *)
EXTENDS Approvals, TLC

CONSTANTS m1, m2, a1, a2, unlock, i1, i2

F(p, q, m, fs) == [paused |-> p, quiet |-> q, met |-> m, factors |-> fs]

R(mode, quorum, cap) ==
    [mode |-> mode, quorum |-> quorum, requesters |-> {"adult"},
     approvers |-> {"adult"}, channels |-> {"app", "alexa"}, cap |-> cap, ttl |-> 1]

ByOne == [a \in Actions |-> m1]

\* The cap: two actions of m1 that fit the daily cap one at a time and not
\* together.  The bounded a1 is asked of everyone under version 1 and of any
\* adult under version 2; a2 runs by itself unless it meets the cap exactly,
\* which only a person may allow.  The house only grows riskier, and is paused.
\* The door: one unlock bound to the visitor at the door, asked of all adults.
\* Every vote is a passkey signature, the requester confirms with one, and m2
\* gains and loses role, account and passkey.
TheCost == a1 :> 1 @@ a2 :> 2 @@ unlock :> 0
TheBase == a1 :> 1 @@ a2 :> 0 @@ unlock :> 1
ByItself == R("auto", "any", 2)
DoorRule == [R("ask", "all_adults", 1) EXCEPT !.channels = {"app"}, !.ttl = 2]
Ruled(rule) == [a \in Actions |-> CASE a = a1 -> rule [] a = a2 -> ByItself [] OTHER -> DoorRule]
TheRule == <<Ruled(R("ask", "all_adults", 2)), Ruled(R("auto", "any", 2))>>
CapFacts == {F(FALSE, FALSE, TRUE, {}), F(FALSE, FALSE, TRUE, {"asleep"}),
             F(TRUE, FALSE, TRUE, {"asleep", "stale", "bounds"})}
DoorFacts == {F(FALSE, TRUE, FALSE, {})}
TheFacts == CapFacts \cup DoorFacts

\* The two stories are told apart by their facts, and neither meets the other:
\* with the cap m2 is no adult, does not change, and nobody rings.
AtTheDoor == facts \in DoorFacts
Told == IF AtTheDoor THEN facts' \in DoorFacts /\ policy' = policy /\ proposed' \subseteq {unlock}
        ELSE facts' \in CapFacts /\ proposed' \subseteq {a1, a2}
             /\ facts.factors \subseteq facts'.factors
             /\ UNCHANGED <<role, linked, revoked, press>>
MCInit == Init /\ (AtTheDoor \/ role[m2] = "teen")
MCSpec == MCInit /\ [][Next /\ Told]_vars

IdSymmetry == Permutations(Ids)
=============================================================================
