---------------------------- MODULE HouseholdProofs ----------------------------
(***************************************************************************)
(* What the household's tools keep for every set of principals, keys and   *)
(* settings: a call takes effect once, however it is retried and whichever *)
(* way its parts are approved; nothing is recorded that was made from what *)
(* changed since; a warning's text is read by the model once; and the      *)
(* audit chain verifies, and is the only thing that does.                  *)
(*                                                                         *)
(* The invariant has a part for each group of tables, and each part is     *)
(* disturbed by the actions of its own component only.                     *)
(***************************************************************************)
EXTENDS Household, SequenceTheorems, TLAPS

\* A call with no receipt did nothing; a part that waits for a vote has not been
\* carried out, and until a profile was granted nothing of it has.
CallsKnow ==
    /\ \A x \in Principals \X Keys : receipts[x] = None =>
          /\ \A q \in Parts : done[x][q] = 0
          /\ \A a \in approvals : a.of # x
    /\ \A a \in approvals :
          /\ done[a.of][a.part] = 0
          /\ a.expands => /\ a.part = "whole" /\ \A q \in Parts : done[a.of][q] = 0
                          /\ \A b \in approvals : b.of = a.of => b = a
    /\ \A a, b \in approvals : a.of = b.of /\ a.part = b.part => a = b

\* Only the newest request is open, and only while there is no plan.
RequestsKnow ==
    /\ \A i \in DOMAIN requests : Pending(i) => i = Len(requests) /\ plan = None
    /\ plan # None => plan.facts = plan.over

\* A case was read only if a worker took it up, and by the one that did.
ReadingsKnow ==
    /\ \A c \in 1 .. MaxCases : inferences[c] > 0 =>
          c \in DOMAIN cases /\ cases[c].status # "pending"
    /\ extractor # None =>
          /\ extractor.case \in DOMAIN cases /\ cases[extractor.case].status # "pending"
          /\ extractor.found = None => inferences[extractor.case] = 0

\* A proposal was made over a version there is, if no longer the newest.
BaseIsPast ==
    \A i \in DOMAIN proposals : proposals[i].base <= Len(preference[proposals[i].member])

\* The rows of a log that nobody touched.
HashOf(i) == IF i = 0 THEN ZERO ELSE <<i, i - 1, {}>>
Genuine(i) == [seq |-> i, body |-> "event", prev |-> HashOf(i - 1), curr |-> HashOf(i),
               signature |-> HashOf(i)]
ChainIntact ==
    /\ pointer.seq \in Nat
    /\ log = [i \in 1 .. pointer.seq |-> Genuine(i)]
    /\ pointer = [seq |-> pointer.seq, hash |-> HashOf(pointer.seq)]

Inv ==
    /\ TypeOK
    /\ CallsKnow /\ KeyOnce
    /\ RequestsKnow /\ BaseIsPast /\ NoLostPreference
    /\ ReadingsKnow /\ InferredOnce
    /\ ChainIntact

-----------------------------------------------------------------------------
(* Calls.                                                                  *)

Wheres == Principals \X Keys

\* A call under a new key leaves its receipt and touches no other.
LEMMA CallFacts ==
    ASSUME TypeOK, CallsKnow, NEW p \in Principals, NEW k \in Keys, NEW r \in Requests,
           NEW answer \in {"recorded", "execute", "ask", "deny", "preparing", "assessed", "checking"},
           call(p, k, r, answer)
    PROVE  /\ <<p, k>> \in Wheres
           /\ receipts' \in [Wheres -> Receipt \cup {None}]
           /\ receipts[<<p, k>>] = None /\ receipts'[<<p, k>>] # None
           /\ \A x \in Wheres : x # <<p, k>> => receipts'[x] = receipts[x]
           /\ \A q \in Parts : done[<<p, k>>][q] = 0
           /\ \A a \in approvals : a.of # <<p, k>>
           /\ calls' \in 0 .. MaxCalls
<1>1. [request |-> r, answer |-> answer] \in Receipt
      BY DEF Receipt
<1>2. <<p, k>> \in Wheres
      BY DEF Wheres
<1>3. receipts' = [receipts EXCEPT ![<<p, k>>] = [request |-> r, answer |-> answer]]
      BY DEF call, Recorded
<1>4. /\ receipts' \in [Wheres -> Receipt \cup {None}] /\ receipts'[<<p, k>>] # None
      /\ \A x \in Wheres : x # <<p, k>> => receipts'[x] = receipts[x]
      BY <1>1, <1>2, <1>3, ConstantsAssumption DEF TypeOK, Wheres
<1>5. receipts[<<p, k>>] = None
      BY DEF call
<1>6. (\A q \in Parts : done[<<p, k>>][q] = 0) /\ \A a \in approvals : a.of # <<p, k>>
      BY <1>2, <1>5 DEF CallsKnow, Wheres
<1>7. calls' \in 0 .. MaxCalls
      BY ConstantsAssumption DEF call, TypeOK
<1>8. QED
      BY <1>2, <1>4, <1>5, <1>6, <1>7

\* The call's own effect.
LEMMA EffectStep ==
    ASSUME TypeOK, CallsKnow, KeyOnce, NEW x \in Wheres, receipts[x] = None,
           UNCHANGED done \/ Effect(x), UNCHANGED approvals,
           \A y \in Wheres : y # x => receipts'[y] = receipts[y], receipts'[x] # None
    PROVE  /\ CallsKnow' /\ KeyOnce' /\ done' \in [Wheres -> [Parts -> Nat]]
           /\ approvals' \subseteq Approval
<1>1. \A q \in Parts : done[x][q] = 0
      BY DEF CallsKnow, Wheres
<1>2. \A a \in approvals : a.of # x
      BY DEF CallsKnow, Wheres
<1>3. /\ done' \in [Wheres -> [Parts -> Nat]]
      /\ \A y \in Wheres : y # x => done'[y] = done[y]
      /\ \A q \in Parts : done'[x][q] <= 1
      <2>1. CASE UNCHANGED done
            BY <1>1, <2>1 DEF TypeOK, Wheres
      <2>2. CASE Effect(x)
            <3>1. done' = [done EXCEPT ![x] = [done[x] EXCEPT !["whole"] = done[x]["whole"] + 1]]
                  BY <2>2 DEF Effect
            <3>2. "whole" \in Parts
                  BY DEF Parts
            <3>3. done[x] \in [Parts -> Nat] /\ done[x]["whole"] = 0
                  BY <1>1, <3>2 DEF TypeOK, Wheres
            <3>4. PICK f : f = [done[x] EXCEPT !["whole"] = done[x]["whole"] + 1]
                  OBVIOUS
            <3>5. f \in [Parts -> Nat] /\ \A q \in Parts : f[q] <= 1
                  BY <1>1, <3>2, <3>3, <3>4
            <3>6. done' = [done EXCEPT ![x] = f]
                  BY <3>1, <3>4
            <3>7. QED
                  BY <3>5, <3>6 DEF TypeOK, Wheres
      <2>3. QED
            BY <2>1, <2>2
<1>4. \A a \in approvals : a.of \in Wheres /\ a.of # x /\ done'[a.of] = done[a.of]
      BY <1>2, <1>3 DEF TypeOK, Approval, Wheres
<1>5. CallsKnow'
      BY <1>3, <1>4 DEF CallsKnow, Wheres
<1>6. KeyOnce'
      BY <1>3 DEF KeyOnce, Wheres
<1>7. QED
      BY <1>3, <1>5, <1>6 DEF TypeOK

\* A part decided: what was executed had not been before, and what is asked for
\* is none of it.
LEMMA DecidedStep ==
    ASSUME TypeOK, CallsKnow, KeyOnce, NEW a \in Approval,
           NEW decision, NEW executed \in SUBSET Settings, NEW asked \in SUBSET Settings,
           NEW left \in SUBSET approvals, Decided(a, decision, executed, asked, left),
           done[a.of][a.part] = 0,
           a.expands => /\ a.part = "whole" /\ \A q \in Parts : done[a.of][q] = 0
                        /\ \A b \in left : b.of # a.of,
           \A b \in left : b.of = a.of => b.part # a.part /\ ~b.expands,
           \A y \in Wheres : receipts'[y] = None => receipts[y] = None /\ y # a.of
    PROVE  /\ CallsKnow' /\ KeyOnce' /\ done' \in [Wheres -> [Parts -> Nat]]
           /\ approvals' \subseteq Approval
<1> DEFINE parts == IF decision = "execute" THEN {a.part} \cup executed ELSE {}
           new == (IF decision = "ask" THEN {a} ELSE {})
                     \cup {[of |-> a.of, part |-> q, expands |-> FALSE] : q \in asked}
<1>1. /\ a.of \in Wheres /\ a.part \in Parts /\ done[a.of] \in [Parts -> Nat]
      /\ \A q \in Settings : q \in Parts /\ q # "whole"
      BY ConstantsAssumption DEF Approval, TypeOK, Wheres, Parts
<1>2. /\ executed \cup asked # {} => decision = "execute" /\ a.expands
      /\ executed \cap asked = {} /\ approvals' = left \cup new
      BY DEF Decided
<1>3. \A q \in parts : q \in Parts /\ done[a.of][q] = 0
      BY <1>1, <1>2
<1>4. PICK f : f = [q \in Parts |-> IF q \in parts THEN done[a.of][q] + 1 ELSE done[a.of][q]]
      OBVIOUS
<1>5. /\ f \in [Parts -> Nat]
      /\ \A q \in Parts : q \in parts => f[q] = 1
      /\ \A q \in Parts : q \notin parts => f[q] = done[a.of][q]
      BY <1>1, <1>3, <1>4
<1>6. done' = [done EXCEPT ![a.of] = f]
      BY <1>4 DEF Decided
<1>7. /\ done' \in [Wheres -> [Parts -> Nat]] /\ done'[a.of] = f
      /\ \A y \in Wheres : y # a.of => done'[y] = done[y]
      BY <1>1, <1>5, <1>6 DEF TypeOK, Wheres
<1>8. \A n \in new : /\ n \in Approval /\ n.of = a.of
                     /\ n.part \in Parts \ parts
                     /\ n = a \/ (n.part \in asked /\ ~n.expands /\ a.expands)
      <2>1. ASSUME NEW q \in asked
            PROVE  /\ [of |-> a.of, part |-> q, expands |-> FALSE] \in Approval
                   /\ q \in Parts \ parts /\ a.expands
            BY <1>1, <1>2 DEF Approval, Wheres
      <2>2. decision = "ask" => parts = {}
            OBVIOUS
      <2>3. QED
            BY <1>1, <2>1, <2>2
<1>9. \A b \in left : b \in Approval /\ b.of \in Wheres /\ b.part \in Parts
      BY DEF TypeOK, Approval, Wheres
<1>10. \A b \in left : b.of = a.of => b.part \notin parts /\ ~a.expands
       BY <1>2
<1>11. \A b \in approvals' : done'[b.of][b.part] = 0
       <2>1. ASSUME NEW b \in left
             PROVE  done'[b.of][b.part] = 0
             BY <1>5, <1>7, <1>9, <1>10 DEF CallsKnow
       <2>2. ASSUME NEW n \in new
             PROVE  done'[n.of][n.part] = 0
             BY <1>1, <1>2, <1>5, <1>7, <1>8
       <2>3. QED
             BY <1>2, <2>1, <2>2
<1>12. ASSUME NEW b \in approvals', NEW c \in approvals', b.of = c.of, b.part = c.part
       PROVE  b = c
       <2>1. CASE b \in left /\ c \in left
             BY <1>12, <2>1 DEF CallsKnow
       <2>2. CASE b \in new /\ c \in new
             <3>1. CASE decision = "ask"
                   BY <1>2, <2>2, <3>1
             <3>2. CASE decision # "ask"
                   <4>1. PICK q \in asked : b = [of |-> a.of, part |-> q, expands |-> FALSE]
                         BY <2>2, <3>2
                   <4>2. PICK u \in asked : c = [of |-> a.of, part |-> u, expands |-> FALSE]
                         BY <2>2, <3>2
                   <4>3. q = u
                         BY <1>12, <4>1, <4>2
                   <4>4. QED
                         BY <4>1, <4>2, <4>3
             <3>3. QED
                   BY <3>1, <3>2
       <2>3. CASE (b \in left /\ c \in new) \/ (b \in new /\ c \in left)
             BY <1>8, <1>10, <1>12, <2>3
       <2>4. QED
             BY <1>2, <2>1, <2>2, <2>3
<1>13. ASSUME NEW b \in approvals', b.expands
       PROVE  /\ b.part = "whole" /\ \A q \in Parts : done'[b.of][q] = 0
              /\ \A c \in approvals' : c.of = b.of => c = b
       <2>1. CASE b \in left
             <3>1. b.of # a.of
                   BY <1>13, <2>1
             <3>2. QED
                   BY <1>2, <1>7, <1>8, <1>9, <1>13, <2>1, <3>1 DEF CallsKnow
       <2>2. CASE b \in new
             <3>1. b = a /\ decision = "ask" /\ new = {a} /\ parts = {}
                   BY <1>2, <1>8, <1>13, <2>2
             <3>2. QED
                   BY <1>1, <1>2, <1>5, <1>7, <1>13, <3>1
       <2>3. QED
             BY <1>2, <2>1, <2>2
<1>14. ASSUME NEW y \in Wheres, receipts'[y] = None
       PROVE  /\ \A q \in Parts : done'[y][q] = 0
              /\ \A b \in approvals' : b.of # y
       BY <1>2, <1>7, <1>8, <1>14 DEF CallsKnow, Wheres
<1>15. CallsKnow'
       BY <1>11, <1>12, <1>13, <1>14 DEF CallsKnow, Wheres
<1>16. KeyOnce'
       <2>1. \A q \in Parts : f[q] <= 1
             BY <1>1, <1>5 DEF KeyOnce, Wheres
       <2>2. QED
             BY <1>7, <2>1 DEF KeyOnce, Wheres
<1>17. approvals' \subseteq Approval
       BY <1>2, <1>8, <1>9
<1>18. QED
       BY <1>7, <1>15, <1>16, <1>17

\* Whatever the call does.
LEMMA CallStep ==
    ASSUME TypeOK, CallsKnow, KeyOnce, Call
    PROVE  /\ CallsKnow' /\ KeyOnce' /\ done' \in [Wheres -> [Parts -> Nat]]
           /\ approvals' \subseteq Approval /\ receipts' \in [Wheres -> Receipt \cup {None}]
           /\ calls' \in 0 .. MaxCalls
<1> DEFINE Goal == /\ CallsKnow' /\ KeyOnce' /\ done' \in [Wheres -> [Parts -> Nat]]
                   /\ approvals' \subseteq Approval
                   /\ receipts' \in [Wheres -> Receipt \cup {None}]
                   /\ calls' \in 0 .. MaxCalls
<1> SUFFICES ASSUME NEW p \in Principals, NEW k \in Keys,
                    \/ \E tool \in {"rule", "permission"} : Bookkeep(p, k, tool)
                    \/ \E d \in Decisions : Act(p, k, d)
                    \/ \E d \in Decisions, x, y \in SUBSET Settings : Profile(p, k, d, x, y)
                    \/ \E a \in approvals, yes \in BOOLEAN, d \in Decisions, x, y \in SUBSET Settings :
                          Vote(p, k, a, yes, d, x, y)
                    \/ \E d \in {"execute", "deny"} : Revise(p, k, d)
                    \/ \E o \in Objectives : Plan(p, k, o)
                    \/ \E found \in SUBSET Signals : Assess(p, k, found)
                    \/ \E c \in DOMAIN cases : Verify(p, k, c)
             PROVE  Goal
    BY DEF Call
<1> PICK x : x = <<p, k>>
    OBVIOUS
<1>1. \A tool \in {"rule", "device", "profile", "constraint", "assess", "permission"} :
         [tool |-> tool] \in Requests
      BY DEF Requests
<1>2. ASSUME NEW r \in Requests,
             NEW answer \in {"recorded", "execute", "ask", "deny", "preparing", "assessed", "checking"},
             call(p, k, r, answer), UNCHANGED approvals, UNCHANGED done \/ Effect(x)
      PROVE  Goal
      <2>1. /\ x \in Wheres /\ receipts[x] = None /\ receipts'[x] # None
            /\ \A y \in Wheres : y # x => receipts'[y] = receipts[y]
            /\ receipts' \in [Wheres -> Receipt \cup {None}] /\ calls' \in 0 .. MaxCalls
            BY <1>2, CallFacts
      <2>2. QED
            BY <1>2, <2>1, EffectStep
<1>3. ASSUME NEW r \in Requests, NEW d \in Decisions, call(p, k, r, d),
             NEW e \in BOOLEAN, NEW y \in SUBSET Settings, NEW z \in SUBSET Settings,
             Decided([of |-> x, part |-> "whole", expands |-> e], d, y, z, approvals)
      PROVE  Goal
      <2>1. /\ x \in Wheres /\ receipts[x] = None /\ receipts'[x] # None
            /\ \A w \in Wheres : w # x => receipts'[w] = receipts[w]
            /\ receipts' \in [Wheres -> Receipt \cup {None}] /\ calls' \in 0 .. MaxCalls
            /\ \A q \in Parts : done[x][q] = 0
            /\ \A a \in approvals : a.of # x
            BY <1>3, CallFacts DEF Decisions
      <2>2. PICK a : a = [of |-> x, part |-> "whole", expands |-> e]
            OBVIOUS
      <2>3. a \in Approval /\ a.of = x /\ a.part = "whole" /\ a.part \in Parts
            BY <2>1, <2>2 DEF Approval, Parts, Wheres
      <2>4. Decided(a, d, y, z, approvals)
            BY <1>3, <2>2
      <2>5. /\ done[a.of][a.part] = 0 /\ \A q \in Parts : done[a.of][q] = 0
            /\ \A b \in approvals : b.of # a.of
            /\ \A w \in Wheres : receipts'[w] = None => receipts[w] = None /\ w # a.of
            BY <2>1, <2>3
      <2>6. CallsKnow' /\ KeyOnce' /\ done' \in [Wheres -> [Parts -> Nat]] /\ approvals' \subseteq Approval
            BY <2>3, <2>4, <2>5, DecidedStep
      <2>7. QED
            BY <2>1, <2>6
<1>4. ASSUME NEW tool \in {"rule", "permission"}, Bookkeep(p, k, tool)
      PROVE  Goal
      <2>1. [tool |-> tool] \in Requests
            BY <1>1
      <2>2. call(p, k, [tool |-> tool], "recorded") /\ UNCHANGED approvals
            BY <1>4 DEF Bookkeep
      <2>3. UNCHANGED done \/ Effect(x)
            BY <1>4 DEF Bookkeep
      <2>4. QED
            BY <1>2, <2>1, <2>2, <2>3
<1>5. ASSUME NEW d \in Decisions, Act(p, k, d)
      PROVE  Goal
      <2>1. [tool |-> "device"] \in Requests /\ call(p, k, [tool |-> "device"], d)
            BY <1>1, <1>5 DEF Act
      <2>2. Decided([of |-> x, part |-> "whole", expands |-> FALSE], d, {}, {}, approvals)
            BY <1>5 DEF Act
      <2>3. FALSE \in BOOLEAN /\ {} \in SUBSET Settings
            OBVIOUS
      <2>4. QED
            BY <1>3, <2>1, <2>2, <2>3
<1>6. ASSUME NEW d \in Decisions, NEW y \in SUBSET Settings, NEW z \in SUBSET Settings,
             Profile(p, k, d, y, z)
      PROVE  Goal
      BY <1>1, <1>3, <1>6 DEF Profile
<1>7. ASSUME NEW a \in approvals, NEW yes \in BOOLEAN, NEW d \in Decisions,
             NEW y \in SUBSET Settings, NEW z \in SUBSET Settings, Vote(p, k, a, yes, d, y, z)
      PROVE  Goal
      <2>1. a \in Approval /\ a.of \in Wheres /\ a.part \in Parts
            BY DEF TypeOK, Approval, Wheres
      <2>2. PICK r : r = [tool |-> "approve", of |-> a.of, part |-> a.part, approved |-> yes]
            OBVIOUS
      <2>3. r \in Requests /\ call(p, k, r, d) /\ Decided(a, d, y, z, approvals \ {a})
            BY <1>7, <2>1, <2>2 DEF Vote, Voted, Requests, Wheres
      <2>4. /\ x \in Wheres /\ receipts[x] = None /\ receipts'[x] # None
            /\ \A w \in Wheres : w # x => receipts'[w] = receipts[w]
            /\ receipts' \in [Wheres -> Receipt \cup {None}] /\ calls' \in 0 .. MaxCalls
            BY <2>3, CallFacts DEF Decisions
      <2>5. /\ done[a.of][a.part] = 0 /\ receipts[a.of] # None
            /\ a.expands => /\ a.part = "whole" /\ \A q \in Parts : done[a.of][q] = 0
                            /\ \A b \in approvals \ {a} : b.of # a.of
            /\ \A b \in approvals \ {a} : b.of = a.of => b.part # a.part /\ ~b.expands
            BY <2>1 DEF CallsKnow, Wheres
      <2>6. \A w \in Wheres : receipts'[w] = None => receipts[w] = None /\ w # a.of
            BY <2>4, <2>5
      <2>7. QED
            BY <2>1, <2>3, <2>4, <2>5, <2>6, DecidedStep
<1>8. ASSUME NEW d \in {"execute", "deny"}, Revise(p, k, d)
      PROVE  Goal
      BY <1>1, <1>2, <1>8 DEF Revise
<1>9. ASSUME NEW o \in Objectives, Plan(p, k, o)
      PROVE  Goal
      <2>1. [tool |-> "plan", objective |-> o] \in Requests
            BY DEF Requests
      <2>2. QED
            BY <1>2, <1>9, <2>1 DEF Plan
<1>10. ASSUME NEW found \in SUBSET Signals, Assess(p, k, found)
       PROVE  Goal
       BY <1>1, <1>2, <1>10 DEF Assess
<1>11. ASSUME NEW c \in DOMAIN cases, Verify(p, k, c)
       PROVE  Goal
       <2>1. c \in 1 .. MaxCases
             BY ConstantsAssumption DEF TypeOK
       <2>2. [tool |-> "verify", case |-> c] \in Requests
             BY <2>1 DEF Requests
       <2>3. QED
             BY <1>2, <1>11, <2>2 DEF Verify
<1>12. QED
       BY <1>4, <1>5, <1>6, <1>7, <1>8, <1>9, <1>10, <1>11
-----------------------------------------------------------------------------
(* The audit chain.                                                        *)

LEMMA GenuineType ==
    /\ \A i \in Nat : HashOf(i) \in Digest
    /\ \A i \in Nat \ {0} : Genuine(i) \in AuditRow /\ Genuine(i) # None
<1>1. \A i \in Nat : HashOf(i) \in Digest
      BY DEF HashOf, ZERO, Digest
<1>2. \A i \in Nat \ {0} : Genuine(i) \in AuditRow
      BY <1>1 DEF Genuine, AuditRow
<1>3. QED
      BY <1>1, <1>2, ConstantsAssumption

\* What is appended continues the chain.
LEMMA AppendStep ==
    ASSUME ChainIntact, NEW n \in {1, 2}, append_many(n)
    PROVE  ChainIntact'
<1> DEFINE N == pointer.seq
           last == pointer.hash
           Rec(g) == [i \in 0 .. n |-> IF i = 0 THEN last ELSE Hash(N + i, "event", g[i - 1])]
           previous == CHOOSE g : g = Rec(g)
           added == [i \in 1 .. n |-> Row(N + i, "event", previous[i - 1])]
<1>1. N \in Nat /\ last = HashOf(N)
      BY DEF ChainIntact
<1>2. \A i \in Nat \ {0} : Hash(i, "event", HashOf(i - 1)) = HashOf(i)
      BY DEF Hash, HashOf, ZERO
<1>3. \A i \in 0 .. n : previous[i] = HashOf(N + i)
      <2> DEFINE known == [i \in 0 .. n |-> HashOf(N + i)]
      <2>1. known = Rec(known)
            <3>1. \A i \in 0 .. n : (IF i = 0 THEN last ELSE Hash(N + i, "event", known[i - 1])) = HashOf(N + i)
                  BY <1>1, <1>2
            <3>2. QED
                  BY <3>1
      <2>2. previous = Rec(previous)
            <3> HIDE DEF Rec, known
            <3>1. QED
                  BY <2>1
      <2> HIDE DEF previous
      <2>3. \A i \in 0 .. n : previous[i] =
               IF i = 0 THEN last ELSE Hash(N + i, "event", previous[i - 1])
            <3> HIDE DEF N, last
            <3>1. QED
                  BY <2>2
      <2>4. previous[0] = HashOf(N)
            BY <1>1, <2>3
      <2>5. previous[1] = HashOf(N + 1)
            <3>1. previous[1] = Hash(N + 1, "event", HashOf(N))
                  BY <1>1, <2>3, <2>4
            <3>2. QED
                  BY <1>1, <1>2, <3>1
      <2>6. n = 2 => previous[2] = HashOf(N + 2)
            <3>1. n = 2 => previous[2] = Hash(N + 2, "event", HashOf(N + 1))
                  BY <1>1, <2>3, <2>5
            <3>2. QED
                  BY <1>1, <1>2, <3>1
      <2>7. QED
            BY <1>1, <2>4, <2>5, <2>6
<1>4. /\ log' = log \o added
      /\ pointer' = [seq |-> N + n, hash |-> previous[n]]
      BY Zenon DEF append_many
<1> HIDE DEF previous
<1>5. \A i \in 1 .. n : added[i] = Genuine(N + i)
      BY <1>1, <1>2, <1>3 DEF Row, Genuine
<1>6. log' = [i \in 1 .. N + n |-> Genuine(i)]
      <2> DEFINE G == {Genuine(i) : i \in Nat}
      <2>1. log = [i \in 1 .. N |-> Genuine(i)]
            BY DEF ChainIntact
      <2>2. log \in Seq(G) /\ Len(log) = N
            BY <1>1, <2>1
      <2>3. added = [i \in 1 .. n |-> Genuine(N + i)]
            BY <1>5
      <2>4. added \in Seq(G) /\ Len(added) = n
            BY <1>1, <2>3
      <2> HIDE DEF added
      <2>5. PICK both : both = log \o added
            OBVIOUS
      <2>6. /\ both \in Seq(G) /\ Len(both) = N + n
            /\ \A i \in 1 .. N + n : both[i] = IF i <= N THEN log[i] ELSE added[i - N]
            <3> HIDE DEF N, G
            <3>1. QED
                  BY <2>2, <2>4, <2>5, ConcatProperties
      <2>7. \A i \in 1 .. N + n : both[i] = Genuine(i)
            <3>1. \A i \in 1 .. N : log[i] = Genuine(i)
                  BY <2>1
            <3>2. \A i \in 1 .. n : added[i] = Genuine(N + i)
                  BY <2>3
            <3>3. \A i \in 1 .. N + n : i > N => i - N \in 1 .. n /\ N + (i - N) = i
                  BY <1>1
            <3>4. \A i \in 1 .. N + n : i <= N => i \in 1 .. N
                  BY <1>1
            <3> HIDE DEF N
            <3>5. ASSUME NEW i \in 1 .. N + n
                  PROVE  both[i] = Genuine(i)
                  <4> PICK j : j = i - N
                      OBVIOUS
                  <4>1. i <= N => both[i] = Genuine(i)
                        BY <2>6, <3>1, <3>4
                  <4>2. i > N => both[i] = Genuine(N + j) /\ N + j = i
                        BY <1>1, <2>6, <3>2, <3>3
                  <4>3. QED
                        BY <1>1, <4>1, <4>2
            <3>6. QED
                  BY <3>5
      <2>8. both = [i \in 1 .. N + n |-> Genuine(i)]
            <3>1. both = [i \in 1 .. Len(both) |-> both[i]]
                  BY <2>6
            <3> HIDE DEF N
            <3>2. QED
                  BY <2>6, <2>7, <3>1
      <2>9. QED
            BY <1>4, <2>5, <2>8
<1>7. pointer' = [seq |-> N + n, hash |-> HashOf(N + n)]
      BY <1>1, <1>3, <1>4
<1>8. QED
      BY <1>1, <1>6, <1>7 DEF ChainIntact
-----------------------------------------------------------------------------
(* The plan requests.                                                      *)

\* A request whose status changes, or whose objective does.
LEMMA RevisedRequest ==
    ASSUME TypeOK, NEW i \in DOMAIN requests, NEW e \in Request,
           requests' = [requests EXCEPT ![i] = e]
    PROVE  /\ requests' \in Seq(Request) /\ Len(requests') = Len(requests)
           /\ DOMAIN requests' = DOMAIN requests
           /\ requests'[i] = e
           /\ \A j \in DOMAIN requests : j # i => requests'[j] = requests[j]
<1>1. requests \in Seq(Request) /\ i \in 1 .. Len(requests)
      BY DEF TypeOK
<1>2. DOMAIN requests = 1 .. Len(requests)
      BY <1>1
<1>3. /\ requests' \in Seq(Request) /\ Len(requests') = Len(requests)
      /\ \A j \in 1 .. Len(requests) : requests'[j] = IF j = i THEN e ELSE requests[j]
      BY <1>1, ExceptSeq
<1>4. DOMAIN requests' = 1 .. Len(requests)
      BY <1>3
<1>5. QED
      BY <1>1, <1>2, <1>3, <1>4

\* A tool call asks for a plan only while there is none.
LEMMA PlanStep ==
    ASSUME TypeOK, RequestsKnow, NEW p, NEW k, NEW o \in Objectives, Plan(p, k, o)
    PROVE  requests' \in Seq(Request) /\ RequestsKnow' /\ UNCHANGED <<plan, facts>>
<1>1. UNCHANGED <<plan, facts>>
      BY DEF Plan
<1>2. CASE plan # None
      BY <1>1, <1>2 DEF Plan, TypeOK, RequestsKnow, Pending
<1>3. CASE plan = None /\ Pending(Len(requests))
      <2>1. Len(requests) \in DOMAIN requests /\ requests[Len(requests)] \in Request
            BY <1>3, ElementOfSeq DEF Pending, TypeOK
      <2>2. PICK e : e = [requests[Len(requests)] EXCEPT !.objective = o]
            OBVIOUS
      <2>3. e \in Request
            BY <2>1, <2>2 DEF Request
      <2>4. requests' = [requests EXCEPT ![Len(requests)] = e]
            BY <1>3, <2>2 DEF Plan
      <2>5. /\ requests' \in Seq(Request) /\ Len(requests') = Len(requests)
            /\ DOMAIN requests' = DOMAIN requests
            /\ \A j \in DOMAIN requests : j # Len(requests) => requests'[j] = requests[j]
            BY <2>1, <2>3, <2>4, RevisedRequest
      <2>6. QED
            BY <1>1, <1>3, <2>5 DEF RequestsKnow, Pending
<1>4. CASE plan = None /\ ~Pending(Len(requests))
      <2>1. PICK e : e = [objective |-> o, status |-> "pending"]
            OBVIOUS
      <2>2. e \in Request /\ requests' = Append(requests, e) /\ requests \in Seq(Request)
            BY <1>4, <2>1 DEF Plan, Request, TypeOK
      <2>3. /\ requests' \in Seq(Request) /\ Len(requests') = Len(requests) + 1
            /\ \A j \in 1 .. Len(requests) : requests'[j] = requests[j]
            BY <2>2, AppendProperties
      <2>4. DOMAIN requests' = 1 .. Len(requests) + 1 /\ DOMAIN requests = 1 .. Len(requests)
            BY <2>2, <2>3
      <2>5. \A i \in DOMAIN requests : ~Pending(i)
            BY <1>4 DEF RequestsKnow
      <2>6. \A i \in 1 .. Len(requests) : requests'[i].status # "pending"
            BY <2>3, <2>4, <2>5 DEF Pending
      <2>7. \A i \in DOMAIN requests' : requests'[i].status = "pending" => i = Len(requests')
            BY <2>2, <2>3, <2>4, <2>6
      <2>8. QED
            BY <1>1, <1>4, <2>3, <2>7 DEF RequestsKnow, Pending
<1>5. QED
      BY <1>2, <1>3, <1>4

\* The worker publishes a plan only for the open request, which it closes.
LEMMA FinishStep ==
    ASSUME TypeOK, RequestsKnow, Publish \/ Fail
    PROVE  /\ requests' \in Seq(Request) /\ RequestsKnow'
           /\ plan' \in Planned \cup {None} /\ facts' = facts /\ preparer' = None
<1> DEFINE i == preparer.request
<1>1. PICK s \in {"ready", "failed"} :
         /\ requests' = [requests EXCEPT ![i].status = s]
         /\ facts' = facts /\ preparer' = None
      BY DEF Publish, Fail, Finished
<1>2. preparer \in Preparation /\ Pending(i)
      BY DEF Publish, Fail, Current, CurrentRequest, TypeOK
<1>3. i \in DOMAIN requests /\ i = Len(requests) /\ requests[i] \in Request /\ plan = None
      BY <1>2, ElementOfSeq DEF Pending, RequestsKnow, TypeOK
<1>4. PICK e : e = [requests[i] EXCEPT !.status = s]
      OBVIOUS
<1>5. e \in Request /\ e.status = s
      BY <1>3, <1>4 DEF Request
<1>6. /\ requests' \in Seq(Request) /\ Len(requests') = Len(requests)
      /\ DOMAIN requests' = DOMAIN requests /\ requests'[i] = e
      /\ \A j \in DOMAIN requests : j # i => requests'[j] = requests[j]
      BY <1>1, <1>3, <1>4, <1>5, RevisedRequest
<1>7. \A j \in DOMAIN requests' : requests'[j].status # "pending"
      <2>1. \A j \in DOMAIN requests : j # i => requests[j].status # "pending"
            BY <1>3 DEF RequestsKnow, Pending
      <2>2. QED
            BY <1>5, <1>6, <2>1
<1>8. plan' \in Planned \cup {None} /\ (plan' # None => plan'.facts = plan'.over)
      <2>1. CASE Publish
            <3>1. preparer.objective \in Objectives /\ preparer.facts \in Nat /\ facts \in Nat
                  BY <1>2 DEF Preparation, TypeOK
            <3>2. /\ plan' = [objective |-> preparer.objective, facts |-> preparer.facts, over |-> facts]
                  /\ preparer.facts = facts
                  BY <2>1 DEF Publish, Current
            <3>3. QED
                  BY <3>1, <3>2 DEF Planned
      <2>2. CASE Fail
            BY <1>3, <2>2 DEF Fail
      <2>3. QED
            BY <2>1, <2>2
<1>9. QED
      BY <1>1, <1>6, <1>7, <1>8 DEF RequestsKnow, Pending

-----------------------------------------------------------------------------
(* The warning checks.                                                     *)

\* A case to which something was added.
LEMMA RevisedCase ==
    ASSUME TypeOK, NEW c \in DOMAIN cases, NEW e \in Case, cases' = [cases EXCEPT ![c] = e]
    PROVE  /\ cases' \in Seq(Case) /\ Len(cases') = Len(cases)
           /\ DOMAIN cases' = DOMAIN cases /\ cases'[c] = e
           /\ \A j \in DOMAIN cases : j # c => cases'[j] = cases[j]
<1>1. cases \in Seq(Case) /\ c \in 1 .. Len(cases)
      BY DEF TypeOK
<1>2. DOMAIN cases = 1 .. Len(cases)
      BY <1>1
<1>3. /\ cases' \in Seq(Case) /\ Len(cases') = Len(cases)
      /\ \A j \in 1 .. Len(cases) : cases'[j] = IF j = c THEN e ELSE cases[j]
      BY <1>1, ExceptSeq
<1>4. DOMAIN cases' = 1 .. Len(cases)
      BY <1>3
<1>5. QED
      BY <1>1, <1>2, <1>3, <1>4

LEMMA PublishedCase ==
    ASSUME TypeOK, NEW c \in DOMAIN cases, NEW status \in {"running", "complete", "fallback"},
           NEW found \in SUBSET Signals, cases' = publish(c, status, found)
    PROVE  /\ cases' \in Seq(Case) /\ Len(cases') = Len(cases)
           /\ DOMAIN cases' = DOMAIN cases /\ cases'[c].status = status
           /\ \A j \in DOMAIN cases : j # c => cases'[j] = cases[j]
<1>1. cases[c] \in Case
      BY ElementOfSeq DEF TypeOK
<1>2. PICK e : e = [cases[c] EXCEPT !.status = status, !.signals = @ \cup found]
      OBVIOUS
<1>3. e \in Case /\ e.status = status
      BY <1>1, <1>2 DEF Case
<1>4. cases' = [cases EXCEPT ![c] = e]
      BY <1>1, <1>2 DEF publish, TypeOK, Case
<1>5. QED
      BY <1>3, <1>4, RevisedCase

\* Tool calls add cases and contact checks, of which no text was read yet.
LEMMA CaseCallStep ==
    ASSUME TypeOK, ReadingsKnow, NEW p, NEW k, UNCHANGED <<extractor, inferences>>,
           \/ \E found \in SUBSET Signals : Assess(p, k, found)
           \/ \E c \in DOMAIN cases : Verify(p, k, c)
    PROVE  cases' \in Seq(Case) /\ Len(cases') <= MaxCases /\ ReadingsKnow'
<1>1. CASE \E found \in SUBSET Signals : Assess(p, k, found)
      <2>1. PICK found \in SUBSET Signals : Assess(p, k, found)
            BY <1>1
      <2>2. PICK e : e = [status |-> "pending", signals |-> found, contacted |-> FALSE]
            OBVIOUS
      <2>3. /\ e \in Case /\ cases' = Append(cases, e) /\ cases \in Seq(Case)
            /\ Len(cases) < MaxCases /\ Len(cases) \in Nat
            BY <2>1, <2>2 DEF Assess, Case, TypeOK
      <2>4. /\ cases' \in Seq(Case) /\ Len(cases') = Len(cases) + 1
            /\ \A j \in 1 .. Len(cases) : cases'[j] = cases[j]
            BY <2>3, AppendProperties
      <2>5. DOMAIN cases = 1 .. Len(cases) /\ DOMAIN cases' = 1 .. Len(cases) + 1
            BY <2>3, <2>4
      <2>6. ReadingsKnow'
            BY <2>4, <2>5 DEF ReadingsKnow
      <2>7. QED
            BY ConstantsAssumption, <2>3, <2>4, <2>6
<1>2. CASE \E c \in DOMAIN cases : Verify(p, k, c)
      <2>1. PICK c \in DOMAIN cases : cases' = [cases EXCEPT ![c].contacted = TRUE]
            BY <1>2 DEF Verify
      <2>2. cases[c] \in Case
            BY ElementOfSeq DEF TypeOK
      <2>3. PICK e : e = [cases[c] EXCEPT !.contacted = TRUE]
            OBVIOUS
      <2>4. e \in Case /\ e.status = cases[c].status /\ cases' = [cases EXCEPT ![c] = e]
            BY <2>1, <2>2, <2>3 DEF Case
      <2>5. /\ cases' \in Seq(Case) /\ Len(cases') = Len(cases)
            /\ DOMAIN cases' = DOMAIN cases
            /\ \A j \in DOMAIN cases : cases'[j].status = cases[j].status
            BY <2>4, RevisedCase
      <2>6. QED
            BY <2>5 DEF ReadingsKnow, TypeOK
<1>3. QED
      BY <1>1, <1>2

\* The worker reads a case only if it found it pending.
LEMMA ExtractionStep ==
    ASSUME TypeOK, ReadingsKnow, InferredOnce, Extraction
    PROVE  /\ cases' \in Seq(Case) /\ Len(cases') <= MaxCases
           /\ extractor' \in Reading \cup {None} /\ inferences' \in [1 .. MaxCases -> Nat]
           /\ ReadingsKnow' /\ InferredOnce'
<1>1. CASE \E c \in 1 .. MaxCases, s \in {"running", "fallback"} : Extract(c, s)
      <2>1. PICK c \in 1 .. MaxCases, s \in {"running", "fallback"} : Extract(c, s)
            BY <1>1
      <2>2. /\ extractor = None /\ c \in DOMAIN cases /\ UNCHANGED inferences
            /\ cases[c].status \in {"pending", "running"}
            /\ cases' = publish(c, s, {}) /\ s \in Attempts(c)
            /\ extractor' = IF s = "running" THEN [case |-> c, found |-> None] ELSE None
            BY <2>1 DEF Extract, Oldest, waiting
      <2>3. s = "running" => cases[c].status = "pending"
            BY <2>2 DEF Attempts
      <2>5. /\ cases' \in Seq(Case) /\ Len(cases') = Len(cases)
            /\ DOMAIN cases' = DOMAIN cases /\ cases'[c].status = s
            /\ \A j \in DOMAIN cases : j # c => cases'[j] = cases[j]
            <3>1. cases' = publish(c, s, {}) /\ {} \in SUBSET Signals
                  BY <2>2
            <3>2. QED
                  BY <2>2, <3>1, PublishedCase
      <2>6. /\ extractor' \in Reading \cup {None}
            /\ extractor' # None => /\ s = "running" /\ extractor'.case = c
                                    /\ extractor'.found = None
            BY <2>2 DEF Reading
      <2>7. s = "running" => inferences[c] = 0
            BY <2>2, <2>3 DEF ReadingsKnow, TypeOK
      <2>8. ReadingsKnow'
            BY <2>2, <2>5, <2>6, <2>7 DEF ReadingsKnow
      <2>9. QED
            BY <2>2, <2>5, <2>6, <2>8 DEF TypeOK, InferredOnce
<1>2. CASE \E found \in Answers : Infer(found)
      <2>1. PICK found \in Answers : Infer(found)
            BY <1>2
      <2>2. extractor \in Reading /\ extractor.found = None /\ UNCHANGED cases
            BY <2>1 DEF Infer, TypeOK
      <2>3. PICK e : e = [extractor EXCEPT !.found = found]
            OBVIOUS
      <2>4. /\ e \in Reading /\ e.case = extractor.case /\ e.found # None /\ extractor' = e
            /\ extractor.case \in 1 .. MaxCases
            BY <2>1, <2>2, <2>3, ConstantsAssumption DEF Infer, Reading
      <2>5. inferences' = [inferences EXCEPT ![extractor.case] = @ + 1]
            BY <2>1 DEF Infer
      <2>6. /\ inferences[extractor.case] = 0 /\ extractor.case \in DOMAIN cases
            /\ cases[extractor.case].status # "pending"
            BY <2>1, <2>2 DEF Infer, ReadingsKnow
      <2>7. /\ inferences' \in [1 .. MaxCases -> Nat]
            /\ \A c \in 1 .. MaxCases : inferences'[c] =
                  IF c = extractor.case THEN 1 ELSE inferences[c]
            BY <2>4, <2>5, <2>6 DEF TypeOK
      <2>8. ReadingsKnow'
            BY <2>2, <2>4, <2>6, <2>7 DEF ReadingsKnow
      <2>9. InferredOnce'
            BY <2>7 DEF InferredOnce
      <2>10. QED
            BY <2>2, <2>4, <2>7, <2>8, <2>9 DEF TypeOK
<1>3. CASE Extracted
      <2>1. /\ extractor \in Reading /\ extractor.found \in Answers /\ UNCHANGED inferences
            /\ cases' = publish(extractor.case, extractor.found.status, extractor.found.signals)
            /\ extractor' = None /\ extractor.case \in DOMAIN cases
            BY <1>3 DEF Extracted, TypeOK, Reading, ReadingsKnow
      <2>2. /\ extractor.found.status \in {"complete", "fallback"}
            /\ extractor.found.signals \in SUBSET Signals
            BY <2>1 DEF Answers
      <2>3. PICK c, s, g : c = extractor.case /\ s = extractor.found.status /\ g = extractor.found.signals
            OBVIOUS
      <2>4. /\ cases' \in Seq(Case) /\ Len(cases') = Len(cases)
            /\ DOMAIN cases' = DOMAIN cases /\ cases'[c].status = s
            /\ \A j \in DOMAIN cases : j # c => cases'[j] = cases[j]
            <3>1. /\ cases' = publish(c, s, g) /\ c \in DOMAIN cases
                  /\ s \in {"running", "complete", "fallback"} /\ g \in SUBSET Signals
                  BY <2>1, <2>2, <2>3
            <3>2. QED
                  BY <3>1, PublishedCase
      <2>5. ReadingsKnow'
            BY <2>1, <2>2, <2>3, <2>4 DEF ReadingsKnow
      <2>6. QED
            BY <2>1, <2>4, <2>5 DEF TypeOK, InferredOnce
<1>4. QED
      BY <1>1, <1>2, <1>3 DEF Extraction
-----------------------------------------------------------------------------
(* Memory.                                                                 *)

\* An accepted change is made over the newest version, and is the next one.
LEMMA MemoryStep ==
    ASSUME TypeOK, BaseIsPast, NoLostPreference, Memory
    PROVE  /\ proposals' \in Seq(Proposal) /\ preference' \in [Members -> Seq(Candidates)]
           /\ BaseIsPast' /\ NoLostPreference'
<1>1. /\ proposals \in Seq(Proposal) /\ preference \in [Members -> Seq(Candidates)]
      /\ DOMAIN proposals = 1 .. Len(proposals) /\ Len(proposals) \in Nat
      /\ \A i \in DOMAIN proposals : proposals[i] \in Proposal
      BY ElementOfSeq DEF TypeOK
<1>2. CASE \E m \in Members, value \in Candidates : Propose(m, value)
      <2>1. PICK m \in Members, value \in Candidates : Propose(m, value)
            BY <1>2
      <2>2. PICK e : e = [member |-> m, candidate |-> value, base |-> Len(preference[m]),
                          status |-> "pending"]
            OBVIOUS
      <2>3. /\ e \in Proposal /\ e.status = "pending" /\ proposals' = Append(proposals, e)
            /\ e.base = Len(preference[e.member]) /\ preference' = preference
            BY <1>1, <2>1, <2>2 DEF Propose, Proposal
      <2>4. /\ proposals' \in Seq(Proposal) /\ Len(proposals') = Len(proposals) + 1
            /\ \A j \in 1 .. Len(proposals) : proposals'[j] = proposals[j]
            /\ proposals'[Len(proposals) + 1] = e
            BY <1>1, <2>3, AppendProperties
      <2>5. \A j \in DOMAIN proposals' :
               (j \in DOMAIN proposals /\ proposals'[j] = proposals[j]) \/ proposals'[j] = e
            BY <1>1, <2>4
      <2>6. BaseIsPast'
            <3>1. ASSUME NEW j \in DOMAIN proposals'
                  PROVE  proposals'[j].base <= Len(preference'[proposals'[j].member])
                  <4>1. CASE j \in DOMAIN proposals /\ proposals'[j] = proposals[j]
                        BY <2>3, <4>1 DEF BaseIsPast
                  <4>2. CASE proposals'[j] = e
                        <5>1. Len(preference[e.member]) \in Nat
                              BY <1>1, <2>3 DEF Proposal
                        <5>2. QED
                              BY <2>3, <4>2, <5>1
                  <4>3. QED
                        BY <2>5, <4>1, <4>2
            <3>2. QED
                  BY <3>1 DEF BaseIsPast
      <2>7. \A j \in DOMAIN proposals' : Changing(j)' =>
               j \in DOMAIN proposals /\ proposals'[j] = proposals[j] /\ Changing(j)
            BY <2>3, <2>5 DEF Changing, ValueAt
      <2>8. NoLostPreference'
            BY <2>3, <2>7 DEF NoLostPreference
      <2>9. QED
            BY <1>1, <2>3, <2>4, <2>6, <2>8
<1>3. ASSUME NEW i \in DOMAIN proposals, NEW s \in {"accepted", "rejected"},
             proposals[i].status = "pending",
             proposals' = [proposals EXCEPT ![i].status = s],
             s = "accepted" => Acceptable(i) /\ put(proposals[i].member, proposals[i].candidate),
             s = "rejected" => preference' = preference
      PROVE  /\ proposals' \in Seq(Proposal) /\ preference' \in [Members -> Seq(Candidates)]
             /\ BaseIsPast' /\ NoLostPreference'
      <2> DEFINE m == proposals[i].member
                 c == proposals[i].candidate
                 n == Len(preference[m])
      <2>1. PICK e : e = [proposals[i] EXCEPT !.status = s]
            OBVIOUS
      <2>2. /\ e \in Proposal /\ e.status = s /\ e.base = proposals[i].base
            /\ e.member = m /\ e.candidate = c
            /\ proposals' = [proposals EXCEPT ![i] = e]
            BY <1>1, <1>3, <2>1 DEF Proposal
      <2>3. /\ proposals' \in Seq(Proposal) /\ Len(proposals') = Len(proposals)
            /\ \A j \in 1 .. Len(proposals) : proposals'[j] = IF j = i THEN e ELSE proposals[j]
            BY <1>1, <2>2, ExceptSeq
      <2>4. /\ DOMAIN proposals' = DOMAIN proposals
            /\ proposals'[i] = e /\ \A j \in DOMAIN proposals : j # i => proposals'[j] = proposals[j]
            BY <1>1, <2>3
      <2>5. /\ \A j \in DOMAIN proposals :
                  /\ proposals[j].base \in Nat /\ proposals[j].member \in Members
                  /\ proposals[j].base <= Len(preference[proposals[j].member])
            /\ m \in Members /\ c \in Candidates /\ n \in Nat
            BY <1>1 DEF Proposal, BaseIsPast
      <2> HIDE DEF m, c, n
      <2>6. \/ preference' = preference /\ (s = "accepted" => c = ValueAt(m, n))
            \/ /\ s = "accepted" /\ c # ValueAt(m, n)
               /\ preference' = [preference EXCEPT ![m] = Append(preference[m], c)]
            BY <1>3 DEF put, m, c, n
      <2>7. s = "accepted" => e.base = n
            BY <1>3, <2>2 DEF Acceptable, m, n
      <2>8. /\ preference' \in [Members -> Seq(Candidates)]
            /\ \A q \in Members : /\ Len(preference'[q]) \in Nat
                                  /\ Len(preference[q]) <= Len(preference'[q])
                                  /\ \A v \in 1 .. Len(preference[q]) :
                                        preference'[q][v] = preference[q][v]
            <3>1. CASE preference' = preference
                  BY <1>1, <3>1
            <3>2. CASE preference' = [preference EXCEPT ![m] = Append(preference[m], c)]
                  <4>1. /\ Append(preference[m], c) \in Seq(Candidates)
                        /\ Len(Append(preference[m], c)) = n + 1
                        /\ \A v \in 1 .. n : Append(preference[m], c)[v] = preference[m][v]
                        BY <1>1, <2>5, AppendProperties DEF n
                  <4>2. QED
                        BY <1>1, <2>5, <3>2, <4>1 DEF n
            <3>3. QED
                  BY <2>6, <3>1, <3>2
      <2>9. \A q \in Members : \A v \in 0 .. Len(preference[q]) : ValueAt(q, v)' = ValueAt(q, v)
            BY <1>1, <2>8 DEF ValueAt
      <2>10. \A j \in DOMAIN proposals : j # i => (Changing(j)' <=> Changing(j))
            <3>1. ASSUME NEW j \in DOMAIN proposals, j # i
                  PROVE  Changing(j)' <=> Changing(j)
                  <4>1. /\ proposals'[j] = proposals[j]
                        /\ proposals[j].base \in 0 .. Len(preference[proposals[j].member])
                        BY <1>1, <2>4, <2>5, <3>1
                  <4>2. ValueAt(proposals[j].member, proposals[j].base)'
                           = ValueAt(proposals[j].member, proposals[j].base)
                        BY <2>5, <2>9, <3>1, <4>1
                  <4>3. QED
                        BY <4>1, <4>2 DEF Changing
            <3>2. QED
                  BY <3>1
      <2>11. Changing(i)' => /\ e.base = n /\ n < Len(preference'[m])
                             /\ preference'[m][n + 1] = c
            <3>1. SUFFICES ASSUME Changing(i)'
                           PROVE  /\ e.base = n /\ n < Len(preference'[m])
                                  /\ preference'[m][n + 1] = c
                  OBVIOUS
            <3>2. /\ s = "accepted" /\ e.base = n
                  /\ c # (IF n = 0 THEN None ELSE preference'[m][n])
                  BY <2>2, <2>4, <2>7, <3>1 DEF Changing, ValueAt
            <3>3. preference' = [preference EXCEPT ![m] = Append(preference[m], c)]
                  BY <2>6, <3>2 DEF ValueAt
            <3>4. preference'[m] = Append(preference[m], c)
                  BY <1>1, <2>5, <3>3
            <3>5. QED
                  BY <1>1, <2>5, <3>2, <3>4, AppendProperties DEF n
      <2>12. BaseIsPast'
            <3>1. ASSUME NEW j \in DOMAIN proposals
                  PROVE  proposals'[j].base <= Len(preference'[proposals'[j].member])
                  <4>1. /\ proposals'[j].base = proposals[j].base
                        /\ proposals'[j].member = proposals[j].member
                        BY <2>2, <2>4 DEF m
                  <4>2. /\ Len(preference[proposals[j].member]) \in Nat
                        /\ Len(preference'[proposals[j].member]) \in Nat
                        /\ Len(preference[proposals[j].member])
                              <= Len(preference'[proposals[j].member])
                        BY <1>1, <2>5, <2>8
                  <4>3. QED
                        BY <2>5, <4>1, <4>2
            <3>2. QED
                  BY <2>4, <3>1 DEF BaseIsPast
      <2>13. \A j \in DOMAIN proposals' : Changing(j)' =>
                /\ proposals'[j].base < Len(preference'[proposals'[j].member])
                /\ preference'[proposals'[j].member][proposals'[j].base + 1] = proposals'[j].candidate
            <3>1. ASSUME NEW j \in DOMAIN proposals, Changing(j)', j # i
                  PROVE  /\ proposals'[j].base < Len(preference'[proposals'[j].member])
                         /\ preference'[proposals'[j].member][proposals'[j].base + 1]
                               = proposals'[j].candidate
                  <4> DEFINE q == proposals[j].member
                             b == proposals[j].base
                  <4>1. /\ proposals'[j] = proposals[j] /\ Changing(j)
                        /\ b \in Nat /\ q \in Members
                        BY <2>4, <2>5, <2>10, <3>1
                  <4>2. b < Len(preference[q]) /\ preference[q][b + 1] = proposals[j].candidate
                        BY <4>1 DEF NoLostPreference
                  <4> HIDE DEF q, b
                  <4>3. Len(preference[q]) \in Nat
                        BY <1>1, <4>1
                  <4>4. b < Len(preference'[q]) /\ preference'[q][b + 1] = preference[q][b + 1]
                        BY <2>8, <4>1, <4>2, <4>3
                  <4>5. QED
                        BY <4>1, <4>2, <4>4 DEF q, b
            <3>2. QED
                  BY <2>2, <2>4, <2>11, <3>1
      <2>14. \A j, l \in DOMAIN proposals' :
                /\ Changing(j)' /\ Changing(l)'
                /\ proposals'[j].member = proposals'[l].member
                /\ proposals'[j].base = proposals'[l].base
                => j = l
            <3>1. ASSUME NEW j \in DOMAIN proposals, j # i, Changing(j)', Changing(i)',
                         proposals'[j].member = e.member, proposals'[j].base = e.base
                  PROVE  FALSE
                  <4>1. /\ Changing(j) /\ proposals[j].member = m /\ proposals[j].base = n
                        BY <2>2, <2>4, <2>10, <2>11, <3>1
                  <4>2. n < Len(preference[m])
                        BY <4>1 DEF NoLostPreference
                  <4>3. QED
                        BY <2>5, <4>2 DEF n
            <3>2. ASSUME NEW j \in DOMAIN proposals, NEW l \in DOMAIN proposals, j # i, l # i,
                         Changing(j)', Changing(l)',
                         proposals'[j].member = proposals'[l].member,
                         proposals'[j].base = proposals'[l].base
                  PROVE  j = l
                  <4>1. /\ Changing(j) /\ Changing(l)
                        /\ proposals'[j] = proposals[j] /\ proposals'[l] = proposals[l]
                        BY <2>4, <2>10, <3>2
                  <4>2. QED
                        BY <3>2, <4>1 DEF NoLostPreference
            <3>3. QED
                  BY <2>4, <3>1, <3>2
      <2>15. NoLostPreference'
            BY <2>13, <2>14 DEF NoLostPreference
      <2>16. QED
            BY <2>3, <2>8, <2>12, <2>15
<1>4. CASE \E i \in 1 .. MaxProposals : Accept(i)
      <2>1. PICK i \in DOMAIN proposals : Accept(i)
            BY <1>4 DEF Accept
      <2>2. /\ proposals[i].status = "pending"
            /\ proposals' = [proposals EXCEPT ![i].status = "accepted"]
            /\ Acceptable(i) /\ put(proposals[i].member, proposals[i].candidate)
            BY <2>1 DEF Accept, Acceptable
      <2>3. QED
            BY <1>3, <2>2
<1>5. CASE \E i \in 1 .. MaxProposals : Reject(i)
      <2>1. PICK i \in DOMAIN proposals : Reject(i)
            BY <1>5 DEF Reject
      <2>2. /\ proposals[i].status = "pending" /\ preference' = preference
            /\ proposals' = [proposals EXCEPT ![i].status = "rejected"]
            BY <2>1 DEF Reject
      <2>3. QED
            BY <1>3, <2>2
<1>6. QED
      BY <1>2, <1>4, <1>5 DEF Memory

-----------------------------------------------------------------------------
(* Every action disturbs one group of tables, and the audit chain.         *)

LEMMA Initially == Init => Inv
<1> SUFFICES ASSUME Init
             PROVE  Inv
    OBVIOUS
<1>1. TypeOK
      <2>1. /\ requests \in Seq(Request) /\ cases \in Seq(Case) /\ proposals \in Seq(Proposal)
            /\ Len(cases) = 0 /\ log \in Seq(AuditRow) /\ Len(log) = 0
            BY DEF Init
      <2>2. QED
            BY <2>1, ConstantsAssumption DEF Init, TypeOK
<1>2. CallsKnow /\ KeyOnce
      BY DEF Init, CallsKnow, KeyOnce
<1>3. RequestsKnow /\ BaseIsPast /\ NoLostPreference
      BY DEF Init, RequestsKnow, Pending, BaseIsPast, NoLostPreference
<1>4. ReadingsKnow /\ InferredOnce
      BY DEF Init, ReadingsKnow, InferredOnce
<1>5. ChainIntact
      <2>1. log = [i \in 1 .. 0 |-> Genuine(i)]
            BY DEF Init
      <2>2. QED
            BY <2>1 DEF Init, ChainIntact, HashOf
<1>6. QED
      BY <1>1, <1>2, <1>3, <1>4, <1>5 DEF Inv

LEMMA Step ==
    ASSUME Inv, [Next]_vars
    PROVE  Inv'
<1> USE DEF Inv
<1> DEFINE LedgerKept == UNCHANGED <<receipts, done, approvals>>
           PlanningKept == UNCHANGED <<requests, plan>>
           ProtectKept == UNCHANGED <<cases, extractor, inferences>>
           MemoryKept == UNCHANGED <<proposals, preference>>
<1>1. LedgerKept => /\ CallsKnow' /\ KeyOnce' /\ approvals' \subseteq Approval
                    /\ receipts' \in [Principals \X Keys -> Receipt \cup {None}]
                    /\ done' \in [Principals \X Keys -> [Parts -> Nat]]
      BY DEF TypeOK, CallsKnow, KeyOnce
<1>2. PlanningKept => RequestsKnow' /\ requests' \in Seq(Request) /\ plan' \in Planned \cup {None}
      BY DEF TypeOK, RequestsKnow, Pending
<1>3. ProtectKept => /\ ReadingsKnow' /\ InferredOnce' /\ cases' \in Seq(Case)
                     /\ Len(cases') <= MaxCases /\ extractor' \in Reading \cup {None}
                     /\ inferences' \in [1 .. MaxCases -> Nat]
      BY DEF TypeOK, ReadingsKnow, InferredOnce
<1>4. MemoryKept => /\ BaseIsPast' /\ NoLostPreference'
                    /\ proposals' \in Seq(Proposal) /\ preference' \in [Members -> Seq(Candidates)]
      BY DEF TypeOK, BaseIsPast, NoLostPreference, Changing, ValueAt
<1>5. (\E n \in {1, 2} : append_many(n)) \/ UNCHANGED <<log, pointer>>
         => ChainIntact'
      <2>1. UNCHANGED <<log, pointer>> => ChainIntact'
            BY DEF ChainIntact
      <2>2. QED
            BY <2>1, AppendStep
<1>6. ChainIntact' => log' \in Seq(AuditRow) /\ pointer'.seq = Len(log')
      <2> SUFFICES ASSUME ChainIntact'
                   PROVE  log' \in Seq(AuditRow) /\ pointer'.seq = Len(log')
          OBVIOUS
      <2>1. PICK n \in Nat : n = pointer'.seq
            BY DEF ChainIntact
      <2>2. log' = [i \in 1 .. n |-> Genuine(i)]
            BY <2>1 DEF ChainIntact
      <2>3. \A i \in 1 .. n : Genuine(i) \in AuditRow
            BY GenuineType
      <2>4. QED
            BY <2>1, <2>2, <2>3
<1>7. CASE Call
      <2>1. PICK p \in Principals, k \in Keys :
               \/ \E tool \in {"rule", "permission"} : Bookkeep(p, k, tool)
               \/ \E d \in Decisions : Act(p, k, d)
               \/ \E d \in Decisions, x, y \in SUBSET Settings : Profile(p, k, d, x, y)
               \/ \E a \in approvals, yes \in BOOLEAN, d \in Decisions, x, y \in SUBSET Settings :
                     Vote(p, k, a, yes, d, x, y)
               \/ \E d \in {"execute", "deny"} : Revise(p, k, d)
               \/ \E o \in Objectives : Plan(p, k, o)
               \/ \E found \in SUBSET Signals : Assess(p, k, found)
               \/ \E c \in DOMAIN cases : Verify(p, k, c)
            BY <1>7 DEF Call
      <2>2. /\ \E r, answer : call(p, k, r, answer)
            /\ facts' \in {facts, facts + 1}
            BY <2>1 DEF Bookkeep, Act, Profile, Vote, Revise, Plan, Assess, Verify
      <2>3. /\ UNCHANGED <<preparer, extractor, inferences, proposals, preference, crashes>>
            /\ append_many(2)
            BY <2>2 DEF call, memory
      <2>4. PlanningKept \/ \E o \in Objectives : Plan(p, k, o)
            BY <2>1 DEF Bookkeep, Act, Profile, Vote, Revise, Assess, Verify
      <2>5. requests' \in Seq(Request) /\ RequestsKnow' /\ plan' \in Planned \cup {None}
            <3>1. CASE \E o \in Objectives : Plan(p, k, o)
                  BY <3>1, PlanStep DEF TypeOK
            <3>2. QED
                  BY <1>2, <2>4, <3>1
      <2>6. \/ UNCHANGED cases
            \/ \E found \in SUBSET Signals : Assess(p, k, found)
            \/ \E c \in DOMAIN cases : Verify(p, k, c)
            BY <2>1 DEF Bookkeep, Act, Profile, Vote, Revise, Plan
      <2>7. /\ cases' \in Seq(Case) /\ Len(cases') <= MaxCases /\ ReadingsKnow'
            <3>1. CASE UNCHANGED cases
                  BY <1>3, <2>3, <3>1
            <3>2. CASE ~UNCHANGED cases
                  BY <2>3, <2>6, <3>2, CaseCallStep
            <3>3. QED
                  BY <3>1, <3>2
      <2>8. /\ CallsKnow' /\ KeyOnce' /\ approvals' \subseteq Approval
            /\ receipts' \in [Principals \X Keys -> Receipt \cup {None}]
            /\ done' \in [Principals \X Keys -> [Parts -> Nat]]
            /\ calls' \in 0 .. MaxCalls
            BY <1>7, CallStep DEF Wheres
      <2>9. InferredOnce' /\ ChainIntact' /\ MemoryKept
            BY <1>5, <2>3 DEF InferredOnce
      <2>10. TypeOK'
            BY <1>4, <1>6, <2>2, <2>3, <2>5, <2>7, <2>8, <2>9 DEF TypeOK
      <2>11. QED
            BY <1>4, <2>5, <2>7, <2>8, <2>9, <2>10
<1>8. CASE Change \/ PlanEnds
      <2>1. LedgerKept /\ ProtectKept /\ MemoryKept /\ append_many(1)
            BY <1>8 DEF Change, PlanEnds, ledger, protect, memory
      <2>2. /\ UNCHANGED <<requests, preparer, crashes>> /\ facts' \in Nat
            /\ plan' = plan \/ plan' = None
            /\ calls' \in 0 .. MaxCalls
            <3>1. /\ UNCHANGED <<requests, preparer, crashes>> /\ facts' \in {facts, facts + 1}
                  /\ plan' = plan \/ plan' = None
                  /\ calls' = calls \/ (calls < MaxCalls /\ calls' = calls + 1)
                  BY <1>8 DEF Change, PlanEnds
            <3>2. facts \in Nat /\ calls \in 0 .. MaxCalls /\ MaxCalls \in Nat
                  BY ConstantsAssumption DEF TypeOK
            <3>3. QED
                  BY <3>1, <3>2
      <2>3. RequestsKnow'
            BY <2>2 DEF RequestsKnow, Pending
      <2>4. ChainIntact'
            BY <1>5, <2>1
      <2>5. TypeOK'
            BY <1>1, <1>3, <1>4, <1>6, <2>1, <2>2, <2>4 DEF TypeOK
      <2>6. QED
            BY <1>1, <1>3, <1>4, <2>1, <2>3, <2>4, <2>5
<1>9. CASE Preparing
      <2>1. LedgerKept /\ ProtectKept /\ MemoryKept /\ UNCHANGED <<facts, calls, crashes>>
            BY <1>9 DEF Preparing, Prepare, Publish, Fail, Discard, Finished, ledger, protect, memory
      <2>2. append_many(2) \/ UNCHANGED <<log, pointer>>
            BY <1>9 DEF Preparing, Prepare, Publish, Fail, Discard, Finished, audit
      <2>3. /\ requests' \in Seq(Request) /\ RequestsKnow' /\ plan' \in Planned \cup {None}
            /\ preparer' \in Preparation \cup {None}
            <3>1. CASE \E i \in DOMAIN requests : Prepare(i)
                  <4>1. PICK i \in DOMAIN requests : Prepare(i)
                        BY <3>1
                  <4>2. requests[i] \in Request /\ i \in Nat /\ facts \in Nat
                        BY ElementOfSeq DEF TypeOK
                  <4>3. preparer' \in Preparation
                        BY <4>1, <4>2 DEF Prepare, Preparation, Request
                  <4>4. PlanningKept
                        BY <4>1 DEF Prepare
                  <4>5. QED
                        BY <1>2, <4>3, <4>4
            <3>2. CASE Publish \/ Fail
                  BY <3>2, FinishStep
            <3>3. CASE Discard
                  BY <1>2, <3>3 DEF Discard
            <3>4. QED
                  BY <1>9, <3>1, <3>2, <3>3 DEF Preparing
      <2>4. ChainIntact'
            BY <1>5, <2>2
      <2>5. TypeOK'
            BY <1>1, <1>3, <1>4, <1>6, <2>1, <2>3, <2>4 DEF TypeOK
      <2>6. QED
            BY <1>1, <1>3, <1>4, <2>1, <2>3, <2>4, <2>5
<1>10. CASE Extraction
      <2>1. LedgerKept /\ PlanningKept /\ MemoryKept /\ UNCHANGED <<facts, preparer, calls, crashes>>
            BY <1>10 DEF Extraction, Extract, Infer, Extracted, ledger, planning, memory
      <2>2. append_many(2) \/ UNCHANGED <<log, pointer>>
            BY <1>10 DEF Extraction, Extract, Infer, Extracted, audit
      <2>3. /\ cases' \in Seq(Case) /\ Len(cases') <= MaxCases
            /\ extractor' \in Reading \cup {None} /\ inferences' \in [1 .. MaxCases -> Nat]
            /\ ReadingsKnow' /\ InferredOnce'
            BY <1>10, ExtractionStep
      <2>4. ChainIntact'
            BY <1>5, <2>2
      <2>5. TypeOK'
            BY <1>1, <1>2, <1>4, <1>6, <2>1, <2>3, <2>4 DEF TypeOK
      <2>6. QED
            BY <1>1, <1>2, <1>4, <2>1, <2>3, <2>4, <2>5
<1>11. CASE Memory
      <2>1. /\ LedgerKept /\ PlanningKept /\ ProtectKept /\ UNCHANGED <<preparer, crashes>>
            /\ append_many(2) /\ facts' \in Nat /\ calls' \in 0 .. MaxCalls
            <3>1. /\ LedgerKept /\ PlanningKept /\ ProtectKept /\ UNCHANGED <<preparer, crashes>>
                  /\ append_many(2) /\ facts' \in {facts, facts + 1}
                  /\ calls' = calls \/ (calls < MaxCalls /\ calls' = calls + 1)
                  BY <1>11 DEF Memory, Propose, Accept, Reject, ledger, planning, protect
            <3>2. QED
                  BY <3>1, ConstantsAssumption DEF TypeOK
      <2>2. /\ proposals' \in Seq(Proposal) /\ preference' \in [Members -> Seq(Candidates)]
            /\ BaseIsPast' /\ NoLostPreference'
            BY <1>11, MemoryStep
      <2>3. ChainIntact'
            BY <1>5, <2>1
      <2>4. TypeOK'
            BY <1>1, <1>2, <1>3, <1>6, <2>1, <2>2, <2>3 DEF TypeOK
      <2>5. QED
            BY <1>1, <1>2, <1>3, <2>1, <2>2, <2>3, <2>4
<1>12. CASE Crash
      <2>1. /\ LedgerKept /\ PlanningKept /\ MemoryKept /\ UNCHANGED <<facts, calls, log, pointer>>
            /\ preparer' = None /\ extractor' = None /\ UNCHANGED <<cases, inferences>>
            /\ crashes' \in 0 .. MaxCrashes
            BY <1>12, ConstantsAssumption DEF Crash, ledger, memory, audit, TypeOK
      <2>2. ReadingsKnow' /\ InferredOnce' /\ ChainIntact'
            BY <1>5, <2>1 DEF ReadingsKnow, InferredOnce
      <2>3. TypeOK'
            BY <1>1, <1>2, <1>4, <1>6, <2>1, <2>2 DEF TypeOK
      <2>4. QED
            BY <1>1, <1>2, <1>4, <2>1, <2>2, <2>3
<1>13. CASE UNCHANGED vars
      <2>1. /\ LedgerKept /\ PlanningKept /\ ProtectKept /\ MemoryKept
            /\ UNCHANGED <<facts, preparer, calls, crashes, log, pointer>>
            BY <1>13 DEF vars
      <2>2. ChainIntact'
            BY <1>5, <2>1
      <2>3. TypeOK'
            BY <1>1, <1>2, <1>3, <1>4, <1>6, <2>1, <2>2 DEF TypeOK
      <2>4. QED
            BY <1>1, <1>2, <1>3, <1>4, <2>1, <2>2, <2>3
<1>14. QED
       BY <1>7, <1>8, <1>9, <1>10, <1>11, <1>12, <1>13 DEF Next

-----------------------------------------------------------------------------
(* What every behaviour keeps.                                             *)

\* The parts of the invariant hold together.
THEOREM Invariant == Spec => []Inv
BY Initially, Step, PTL DEF Spec

\* Every variable keeps its type, and the pointer counts the rows of the log.
THEOREM TypeCorrect == Spec => []TypeOK
<1>1. Inv => TypeOK
      BY DEF Inv
<1>2. QED
      BY <1>1, Invariant, PTL

\* A call under one key takes effect once, however often it is sent, and of a
\* profile no setting is applied twice whichever way its parts are approved.
THEOREM CallsTakeEffectOnce == Spec => []KeyOnce
<1>1. Inv => KeyOnce
      BY DEF Inv
<1>2. QED
      BY <1>1, Invariant, PTL

\* A plan recorded was computed for the facts and the priority of that moment,
\* and of the proposals over one version of a preference at most one changed it.
THEOREM StaleWorkIsDropped == Spec => []NothingStaleKept
<1>1. Inv => NothingStaleKept
      <2>1. Inv => PlanIsCurrent
            BY DEF Inv, RequestsKnow, PlanIsCurrent, Pending
      <2>2. QED
            BY <2>1 DEF Inv, NothingStaleKept
<1>2. QED
      BY <1>1, Invariant, PTL

\* No crash makes a worker give a text to the model a second time.
THEOREM TextIsReadOnce == Spec => []InferredOnce
<1>1. Inv => InferredOnce
      BY DEF Inv
<1>2. QED
      BY <1>1, Invariant, PTL

-----------------------------------------------------------------------------
(* What the audit chain is evidence of.                                    *)

\* The rows of the log, and the ones made from them.
Forged(i) == {[Genuine(i) EXCEPT !.body = "altered"],
              [Genuine(i) EXCEPT !.body = "altered",
                                 !.curr = Hash(Genuine(i).seq, "altered", Genuine(i).prev)]}

\* The next row is the one that follows in the log.
LEMMA GenuineFollows ==
    ASSUME NEW i \in Nat \ {0}, NEW j \in Nat \ {0}
    PROVE  feed(Genuine(j), Genuine(i)) <=> j = i + 1
<1>1. Genuine(i) # None
      BY GenuineType
<1>2. HashOf(j) = Hash(j, "event", HashOf(j - 1))
      BY DEF Hash, HashOf, ZERO
<1>3. HashOf(j - 1) = HashOf(i) => j - 1 = i
      BY DEF HashOf, ZERO
<1>4. HashOf(0) = ZERO
      BY DEF HashOf
<1>5. QED
      BY <1>1, <1>2, <1>3, <1>4 DEF feed, Genuine

LEMMA GenuineStarts ==
    ASSUME NEW i \in Nat \ {0}
    PROVE  feed(Genuine(i), None)
<1>1. HashOf(i) = Hash(i, "event", HashOf(i - 1)) /\ HashOf(0) = ZERO
      BY DEF Hash, HashOf, ZERO
<1>2. QED
      BY <1>1 DEF feed, Genuine

\* A row altered has another hash, and nobody signed that one.
LEMMA ForgedFails ==
    ASSUME NEW i \in Nat \ {0}, NEW r \in Forged(i), NEW last
    PROVE  ~feed(r, last) /\ r.body = "altered"
<1>1. HashOf(i) # Hash(i, "altered", HashOf(i - 1))
      BY DEF Hash, HashOf, ZERO
<1>2. PICK g : g = Genuine(i)
      OBVIOUS
<1>3. g.seq = i /\ g.prev = HashOf(i - 1) /\ g.curr = HashOf(i) /\ g.signature = HashOf(i)
      BY <1>2 DEF Genuine
<1>4. \/ r = [g EXCEPT !.body = "altered"]
      \/ r = [g EXCEPT !.body = "altered", !.curr = Hash(g.seq, "altered", g.prev)]
      BY <1>2 DEF Forged
<1>5. CASE r = [g EXCEPT !.body = "altered"]
      BY <1>1, <1>2, <1>5 DEF feed, Genuine
<1>6. CASE r = [g EXCEPT !.body = "altered", !.curr = Hash(g.seq, "altered", g.prev)]
      BY <1>1, <1>2, <1>6 DEF feed, Genuine
<1>7. QED
      BY <1>4, <1>5, <1>6

LEMMA ChainVerifies ==
    ASSUME ChainIntact
    PROVE  verify_database(log, pointer)
<1>1. PICK n \in Nat : n = pointer.seq
      BY DEF ChainIntact
<1>2. /\ Len(log) = n /\ DOMAIN log = 1 .. n /\ (log = <<>> <=> n = 0)
      /\ \A i \in 1 .. n : log[i] = Genuine(i)
      BY <1>1 DEF ChainIntact
<1>3. Fed(log)
      <2>1. ASSUME NEW i \in 1 .. n
            PROVE  feed(log[i], IF i = 1 THEN None ELSE log[i - 1])
            <3>1. CASE i = 1
                  BY <1>2, <3>1, GenuineStarts
            <3>2. CASE i # 1
                  <4>1. PICK j : j = i - 1
                        OBVIOUS
                  <4>2. j \in 1 .. n /\ j \in Nat \ {0} /\ i \in Nat \ {0} /\ i = j + 1
                        BY <3>2, <4>1
                  <4>3. feed(Genuine(i), Genuine(j))
                        BY <4>2, GenuineFollows
                  <4>4. QED
                        BY <1>2, <3>2, <4>1, <4>2, <4>3
            <3>3. QED
                  BY <3>1, <3>2
      <2>2. QED
            BY <1>2, <2>1 DEF Fed
<1>4. n > 0 => log[1].seq = 1 /\ log[n].curr = HashOf(n)
      BY <1>2 DEF Genuine
<1>5. pointer = [seq |-> Len(log), hash |-> IF log = <<>> THEN ZERO ELSE log[Len(log)].curr]
      <2>1. n = 0 => HashOf(n) = ZERO /\ log = <<>>
            BY <1>2 DEF HashOf
      <2>2. pointer = [seq |-> n, hash |-> HashOf(n)]
            BY <1>1 DEF ChainIntact
      <2>3. n > 0 => log # <<>>
            BY <1>2
      <2>4. n = 0 \/ n > 0
            OBVIOUS
      <2>5. QED
            BY <1>2, <1>4, <2>1, <2>2, <2>3, <2>4
<1>6. QED
      BY <1>2, <1>3, <1>4, <1>5 DEF verify_database

LEMMA RunOfOne ==
    ASSUME NEW S, NEW s \in Seq(S), NEW i \in 0 .. Len(s) - 1
    PROVE  SubSeq(s, i + 1, i + 1) = <<s[i + 1]>>
<1>1. s[i + 1] \in S
      BY ElementOfSeq
<1>2. PICK t : t = SubSeq(s, i + 1, i + 1)
      OBVIOUS
<1>3. PICK m : m = i + 1
      OBVIOUS
<1>4. m \in Int /\ \A j \in m .. m : s[j] \in S
      BY <1>1, <1>3
<1>5. t \in Seq(S) /\ Len(t) = m - m + 1 /\ \A j \in 1 .. m - m + 1 : t[j] = s[m + j - 1]
      BY <1>2, <1>3, <1>4, SubSeqProperties
<1>6. t \in Seq(S) /\ Len(t) = 1 /\ t[1] = s[m]
      BY <1>4, <1>5
<1>7. PICK e \in S : e = s[m]
      BY <1>1, <1>3
<1>8. t = <<e>>
      BY <1>6, <1>7
<1>9. QED
      BY <1>2, <1>3, <1>7, <1>8

LEMMA RunOfTwo ==
    ASSUME NEW S, NEW s \in Seq(S), NEW i \in 0 .. Len(s) - 2
    PROVE  SubSeq(s, i + 1, i + 2) = <<s[i + 1], s[i + 2]>>
<1>1. s[i + 1] \in S /\ s[i + 2] \in S
      BY ElementOfSeq
<1>2. PICK t : t = SubSeq(s, i + 1, i + 2)
      OBVIOUS
<1>3. PICK m, l : m = i + 1 /\ l = i + 2
      OBVIOUS
<1>4. m \in Int /\ l \in Int /\ l = m + 1 /\ \A j \in m .. l : s[j] \in S
      BY <1>1, <1>3
<1>5. t \in Seq(S) /\ Len(t) = l - m + 1 /\ \A j \in 1 .. l - m + 1 : t[j] = s[m + j - 1]
      BY <1>2, <1>3, <1>4, SubSeqProperties
<1>6. t \in Seq(S) /\ Len(t) = 2 /\ t[1] = s[m] /\ t[2] = s[l]
      BY <1>4, <1>5
<1>7. PICK e \in S, f \in S : e = s[m] /\ f = s[l]
      BY <1>1, <1>3
<1>8. t = <<e, f>>
      BY <1>6, <1>7
<1>9. QED
      BY <1>2, <1>3, <1>7, <1>8

LEMMA ChainConvicts ==
    ASSUME ChainIntact, NEW d \in Documents
    PROVE  verify_file(d) <=>
              \E i \in 0 .. Len(log) - Len(d) : d = SubSeq(log, i + 1, i + Len(d))
<1>1. PICK n \in Nat : n = pointer.seq
      BY DEF ChainIntact
<1>2. /\ Len(log) = n /\ DOMAIN log = 1 .. n
      /\ \A i \in 1 .. n : log[i] = Genuine(i)
      BY <1>1 DEF ChainIntact
<1> DEFINE Real(r) == \E i \in 1 .. n : r = Genuine(i)
           Fake(r) == \E i \in 1 .. n : r \in Forged(i)
           Row1(r) == Real(r) \/ Fake(r)
<1>3. \/ d = <<>>
      \/ \E r : Row1(r) /\ d = <<r>>
      \/ \E r, s : Row1(r) /\ Row1(s) /\ d = <<r, s>>
      <2> DEFINE last == {log[i] : i \in {j \in DOMAIN log : j > Len(log) - 2}}
                 rows == last \cup UNION {Altered(r) : r \in last}
      <2>1. \A r \in last : Real(r)
            BY <1>2
      <2>2. \A r \in rows : Row1(r)
            <3>1. ASSUME NEW r \in last, NEW s \in Altered(r)
                  PROVE  Fake(s)
                  <4>1. PICK i \in 1 .. n : r = Genuine(i)
                        BY <2>1
                  <4>2. s \in Forged(i)
                        BY <4>1 DEF Altered, Forged
                  <4>3. QED
                        BY <4>2
            <3>2. QED
                  BY <2>1, <3>1
      <2>3. d \in {<<>>} \cup {<<r>> : r \in rows} \cup {<<r, s>> : r \in rows, s \in rows}
            BY DEF Documents
      <2> HIDE DEF rows, Row1
      <2>4. QED
            BY <2>2, <2>3
<1>4. \A i \in 1 .. n : Genuine(i).body = "event"
      BY DEF Genuine
<1>5. \A r : Fake(r) => r.body = "altered" /\ \A last : ~feed(r, last)
      BY ForgedFails
<1>5a. log \in Seq(AuditRow)
       <2>1. \A i \in 1 .. n : Genuine(i) \in AuditRow
             BY GenuineType
       <2>2. log = [i \in 1 .. n |-> Genuine(i)]
             BY <1>1 DEF ChainIntact
       <2>3. QED
             BY <2>1, <2>2
<1>6. CASE d = <<>>
      <2>1. verify_file(d)
            BY <1>6 DEF verify_file, Fed
      <2>2. 0 \in 0 .. Len(log) - Len(d) /\ d = SubSeq(log, 0 + 1, 0 + Len(d))
            BY <1>2, <1>6
      <2>3. QED
            BY <2>1, <2>2
<1>7. ASSUME NEW r, Row1(r), d = <<r>>
      PROVE  verify_file(d) <=>
                \E i \in 0 .. Len(log) - Len(d) : d = SubSeq(log, i + 1, i + Len(d))
      <2>1. verify_file(d) <=> feed(r, None)
            BY <1>7 DEF verify_file, Fed
      <2>2. Len(d) = 1 /\ d[1] = r
            BY <1>7
      <2>3. \A i \in 0 .. n - 1 : SubSeq(log, i + 1, i + 1) = <<log[i + 1]>>
            BY <1>2, <1>5a, RunOfOne
      <2>4. CASE Real(r)
            <3>1. PICK i \in 1 .. n : r = Genuine(i)
                  BY <2>4
            <3>2. PICK j \in 0 .. n - 1 : j + 1 = i
                  OBVIOUS
            <3>3. d = SubSeq(log, j + 1, j + 1)
                  BY <1>2, <1>7, <2>3, <3>1, <3>2
            <3>4. feed(r, None)
                  BY <3>1, GenuineStarts
            <3>5. QED
                  BY <1>2, <2>1, <2>2, <3>2, <3>3, <3>4
      <2>5. CASE Fake(r)
            <3>1. ~feed(r, None) /\ r.body = "altered"
                  BY <1>5, <2>5
            <3>2. ASSUME NEW i \in 0 .. n - 1, d = SubSeq(log, i + 1, i + 1)
                  PROVE  FALSE
                  <4>1. i + 1 \in 1 .. n /\ d = <<log[i + 1]>>
                        BY <2>3, <3>2
                  <4>2. r = Genuine(i + 1)
                        BY <1>2, <2>2, <4>1
                  <4>3. QED
                        BY <1>4, <3>1, <4>1, <4>2
            <3>3. QED
                  BY <1>2, <2>1, <2>2, <3>1, <3>2
      <2>6. QED
            BY <1>7, <2>4, <2>5
<1>8. ASSUME NEW r, NEW s, Row1(r), Row1(s), d = <<r, s>>
      PROVE  verify_file(d) <=>
                \E i \in 0 .. Len(log) - Len(d) : d = SubSeq(log, i + 1, i + Len(d))
      <2>1. verify_file(d) <=> feed(r, None) /\ feed(s, r)
            BY <1>8 DEF verify_file, Fed
      <2>2. Len(d) = 2 /\ d[1] = r /\ d[2] = s
            BY <1>8
      <2>3. \A i \in 0 .. n - 2 : SubSeq(log, i + 1, i + 2) = <<log[i + 1], log[i + 2]>>
            BY <1>2, <1>5a, RunOfTwo
      <2>4. CASE Real(r) /\ Real(s)
            <3>1. PICK i \in 1 .. n, j \in 1 .. n : r = Genuine(i) /\ s = Genuine(j)
                  BY <2>4
            <3>2. verify_file(d) <=> j = i + 1
                  BY <2>1, <3>1, GenuineStarts, GenuineFollows
            <3>3. ASSUME j = i + 1
                  PROVE  \E l \in 0 .. n - 2 : d = SubSeq(log, l + 1, l + 2)
                  <4>1. PICK l \in 0 .. n - 2 : l + 1 = i /\ l + 2 = j
                        BY <3>3
                  <4>2. d = SubSeq(log, l + 1, l + 2)
                        BY <1>2, <1>8, <2>3, <3>1, <4>1
                  <4>3. QED
                        BY <4>2
            <3>4. ASSUME NEW l \in 0 .. n - 2, d = SubSeq(log, l + 1, l + 2)
                  PROVE  j = i + 1
                  <4>1. d = <<log[l + 1], log[l + 2]>> /\ l + 1 \in 1 .. n /\ l + 2 \in 1 .. n
                        BY <2>3, <3>4
                  <4>2. Genuine(i) = Genuine(l + 1) /\ Genuine(j) = Genuine(l + 2)
                        BY <1>2, <2>2, <3>1, <4>1
                  <4>3. i = l + 1 /\ j = l + 2
                        BY <4>2 DEF Genuine
                  <4>4. QED
                        BY <4>3
            <3>5. QED
                  BY <1>2, <2>2, <3>2, <3>3, <3>4
      <2>5. CASE Fake(r) \/ Fake(s)
            <3>1. ~verify_file(d) /\ (r.body = "altered" \/ s.body = "altered")
                  BY <1>5, <2>1, <2>5
            <3>2. ASSUME NEW i \in 0 .. n - 2, d = SubSeq(log, i + 1, i + 2)
                  PROVE  FALSE
                  <4>1. i + 1 \in 1 .. n /\ i + 2 \in 1 .. n /\ d = <<log[i + 1], log[i + 2]>>
                        BY <2>3, <3>2
                  <4>2. r = Genuine(i + 1) /\ s = Genuine(i + 2)
                        BY <1>2, <2>2, <4>1
                  <4>3. QED
                        BY <1>4, <3>1, <4>1, <4>2
            <3>3. QED
                  BY <1>2, <2>2, <3>1, <3>2
      <2>6. QED
            BY <1>8, <2>4, <2>5
<1>9. QED
      BY <1>3, <1>6, <1>7, <1>8

\* The chain verifies after every transaction, and of the documents made from its
\* newest rows by dropping, repeating or altering some the unbroken ones alone do.
THEOREM ChainConvincesOnlyWhole == Spec => []ChainIsEvidence
<1>1. Inv => ChainIsEvidence
      BY ChainVerifies, ChainConvicts DEF Inv, ChainIsEvidence
<1>2. QED
      BY <1>1, Invariant, PTL
=============================================================================
