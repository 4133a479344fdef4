----------------------------- MODULE MCContacts -----------------------------
(* Small instance of Contacts: one contact, a link of each kind, one case.  *)
EXTENDS Contacts

CONSTANTS c1, app, email, k1

MCContactOf == [x \in Links \cup Cases |-> c1]
MCKind == [l \in Links |-> IF l = app THEN "app" ELSE "email"]
MCTtl == [k \in Kinds |-> IF k = "app" THEN 1 ELSE 2]
MCInviteTtl == [k \in Kinds |-> 2]
MCCaps == {[window |-> 1, limit |-> 2, each |-> TRUE], [window |-> 3, limit |-> 3, each |-> FALSE]}
=============================================================================
