--------------------------- MODULE MCPublication ---------------------------
(* Bounded instances of Publication. *)
EXTENDS Publication

CONSTANTS h1, h2, h3, p1, s1, door, heat, k1, k2

MCRules == [k \in {k1, k2} |-> [c \in {door, heat} |->
              IF k = k2 /\ c = door THEN "never" ELSE "ask"]]
MCRules1 == [k \in {k1, k2} |-> [c \in {door} |-> IF k = k2 THEN "never" ELSE "ask"]]
=============================================================================
