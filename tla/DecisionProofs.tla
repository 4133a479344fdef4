--------------------------- MODULE DecisionProofs ---------------------------
(***************************************************************************)
(* Proofs about the two decisions of the system: what may be done          *)
(* (Approvals) and when it is done (Energy).                               *)
(*                                                                         *)
(* First the decision pipeline, for every household, constitution history, *)
(* set of facts and time to live.  What each operation may do to the       *)
(* approvals table is established once (the ...Moves lemmas); the          *)
(* invariants and the action properties follow from it.                    *)
(*                                                                         *)
(* Then the planner and the twin, for every household, horizon, device,    *)
(* price, input, request and answer of the solver.  A recursive function   *)
(* on an interval (a course, a trim, a passage) is what its equation says, *)
(* because a step from every value to another can be iterated (Iterates,   *)
(* Descends); what holds along it is proved by counting (Rising, Falling). *)
(***************************************************************************)
EXTENDS Approvals, Energy, FiniteSetTheorems, WellFoundedInduction, TLAPS

USE DEF None, NoPress, Live

-----------------------------------------------------------------------------
(* Sums over finite sets.  MapThenSumSet is a recursive function over the    *)
(* subsets of a set; that it exists, that the order of adding does not      *)
(* matter and what it gives is proved from the well-foundedness of strict    *)
(* inclusion among finite sets.                                             *)

\* g adds up f over every subset of S, one chosen element after the other.
Chosen(s) == CHOOSE x \in s : TRUE
Adds(g, f, S) == g = [s \in SUBSET S |-> IF s = {} THEN 0 ELSE f[Chosen(s)] + g[s \ {Chosen(s)}]]
SumOn(f, S) == (CHOOSE g : Adds(g, f, S))[S]

\* Induction over a finite set, for what can be written as a set of subsets.
LEMMA FiniteInduction ==
    ASSUME NEW S, IsFiniteSet(S), NEW T,
           \A s \in SUBSET S : (\A u \in SUBSET s : u # s => u \in T) => s \in T
    PROVE  \A s \in SUBSET S : s \in T
<1> DEFINE bad == {s \in SUBSET S : s \notin T}
<1> SUFFICES ASSUME bad # {} PROVE FALSE
    OBVIOUS
<1>1. IsWellFoundedOn(StrictSubsetOrdering(S), SUBSET S)
      <2>1. IsWellFoundedOn(StrictSubsetOrdering(S), FiniteSubsetsOf(S))
            BY FS_StrictSubsetOrderingWellFounded
      <2>2. FiniteSubsetsOf(S) = SUBSET S
            BY FS_FiniteSubsetsOfFinite
      <2>3. QED
            BY <2>1, <2>2, Zenon
<1>2. bad \subseteq SUBSET S
      OBVIOUS
<1>3. PICK m \in bad : \A y \in bad : ~(<<y, m>> \in StrictSubsetOrdering(S))
      <2> HIDE DEF bad
      <2>1. QED
            BY <1>1, <1>2, WFMin
<1>4. \A u \in SUBSET m : u # m => u \in T
      <2> SUFFICES ASSUME NEW u \in SUBSET m, u # m, u \notin T PROVE FALSE
          OBVIOUS
      <2>1. <<u, m>> \in StrictSubsetOrdering(S)
            BY DEF StrictSubsetOrdering
      <2>2. QED
            BY <1>3, <2>1
<1>5. QED
      BY <1>4

\* What is chosen from a set is an element of it.
LEMMA ChosenIn == ASSUME NEW s, s # {} PROVE Chosen(s) \in s
BY DEF Chosen

\* Two ways of adding up agree on the subsets both know.
LEMMA AddsAgree ==
    ASSUME NEW A, NEW B, IsFiniteSet(A), NEW f, NEW g, NEW h, Adds(g, f, A), Adds(h, f, B)
    PROVE  \A s \in SUBSET A : s \in SUBSET B => g[s] = h[s]
<1> DEFINE T == {s \in SUBSET A : s \in SUBSET B => g[s] = h[s]}
<1>1. ASSUME NEW s \in SUBSET A, \A u \in SUBSET s : u # s => u \in T, s \in SUBSET B
      PROVE  g[s] = h[s]
      <2>1. CASE s = {}
            BY <2>1 DEF Adds
      <2>2. CASE s # {}
            <3>1. PICK c \in s : c = Chosen(s)
                  BY <2>2, ChosenIn
            <3>2. g[s \ {c}] = h[s \ {c}]
                  BY <1>1, <3>1
            <3>3. g[s] = f[c] + g[s \ {c}]
                  BY <2>2, <3>1 DEF Adds
            <3>4. h[s] = f[c] + h[s \ {c}]
                  BY <1>1, <2>2, <3>1 DEF Adds
            <3>5. QED
                  BY <3>2, <3>3, <3>4
      <2>3. QED
            BY <2>1, <2>2
<1>2. \A s \in SUBSET A : (\A u \in SUBSET s : u # s => u \in T) => s \in T
      BY <1>1
<1>3. \A s \in SUBSET A : s \in T
      <2> HIDE DEF T
      <2>1. QED
            BY <1>2, FiniteInduction
<1>4. QED
      BY <1>3

\* Every finite set can be added up.
LEMMA AddsExists ==
    ASSUME NEW S, IsFiniteSet(S), NEW f
    PROVE  \E g : Adds(g, f, S)
<1> DEFINE T == {s \in SUBSET S : \E g : Adds(g, f, s)}
<1>1. ASSUME NEW s \in SUBSET S, \A u \in SUBSET s : u # s => u \in T
      PROVE  \E g : Adds(g, f, s)
      <2>0. \A u \in SUBSET s : IsFiniteSet(u)
            BY FS_Subset
      <2>1. \A u \in SUBSET s : u # s => Adds(CHOOSE g : Adds(g, f, u), f, u)
            BY <1>1
      <2> DEFINE part(u) == SumOn(f, u)
                 value(u) == IF u = {} THEN 0 ELSE f[Chosen(u)] + part(u \ {Chosen(u)})
                 whole == [u \in SUBSET s |-> value(u)]
      <2>2. ASSUME NEW u \in SUBSET s, u # s
            PROVE  part(u) = value(u)
            <3>1. PICK g : g = CHOOSE k : Adds(k, f, u)
                  OBVIOUS
            <3>2. Adds(g, f, u) /\ part(u) = g[u]
                  BY <2>1, <2>2, <3>1 DEF SumOn
            <3>3. CASE u = {}
                  BY <3>2, <3>3 DEF Adds
            <3>4. CASE u # {}
                  <4>1. PICK c \in u : c = Chosen(u)
                        BY <3>4, ChosenIn
                  <4>2. g[u] = f[c] + g[u \ {c}]
                        BY <3>2, <3>4, <4>1 DEF Adds
                  <4>3. PICK w : w = u \ {c}
                        OBVIOUS
                  <4>4. w \in SUBSET s /\ w # s /\ w \in SUBSET u
                        BY <2>2, <4>1, <4>3
                  <4>5. PICK h : h = CHOOSE k : Adds(k, f, w)
                        OBVIOUS
                  <4>6. Adds(h, f, w) /\ part(w) = h[w]
                        BY <2>1, <4>4, <4>5 DEF SumOn
                  <4>7. g[w] = h[w]
                        BY <2>0, <3>2, <4>4, <4>6, AddsAgree
                  <4>8. QED
                        BY <3>2, <3>4, <4>1, <4>2, <4>3, <4>6, <4>7
            <3>5. QED
                  BY <3>3, <3>4
      <2>3. ASSUME NEW u \in SUBSET s, u # {}
            PROVE  value(u) = f[Chosen(u)] + whole[u \ {Chosen(u)}]
            <3>1. PICK c \in u : c = Chosen(u)
                  BY <2>3, ChosenIn
            <3>2. PICK w : w = u \ {c}
                  OBVIOUS
            <3>3. w \in SUBSET s /\ c \in s /\ c \notin w
                  BY <3>1, <3>2
            <3>4. part(w) = value(w)
                  BY <2>2, <3>3
            <3>5. whole[w] = value(w)
                  BY <3>3
            <3> HIDE DEF part, whole
            <3>6. QED
                  BY <2>3, <3>1, <3>2, <3>4, <3>5
      <2>4. \A u \in SUBSET s : value(u) = IF u = {} THEN 0 ELSE f[Chosen(u)] + whole[u \ {Chosen(u)}]
            BY <2>3
      <2>5. Adds(whole, f, s)
            <3> HIDE DEF value
            <3>1. QED
                  BY <2>4 DEF Adds
      <2>6. QED
            BY <2>5
<1>2. \A s \in SUBSET S : (\A u \in SUBSET s : u # s => u \in T) => s \in T
      BY <1>1
<1>3. \A s \in SUBSET S : s \in T
      <2> HIDE DEF T
      <2>1. QED
            BY <1>2, FiniteInduction
<1>4. QED
      BY <1>3

\* SumOn is what any way of adding up gives.
LEMMA SumAdds ==
    ASSUME NEW S, IsFiniteSet(S), NEW f, NEW g, Adds(g, f, S)
    PROVE  \A s \in SUBSET S : g[s] = SumOn(f, s)
<1> SUFFICES ASSUME NEW s \in SUBSET S PROVE g[s] = SumOn(f, s)
    OBVIOUS
<1>1. IsFiniteSet(s)
      BY FS_Subset
<1>2. PICK h : h = CHOOSE k : Adds(k, f, s)
      OBVIOUS
<1>3. Adds(h, f, s)
      BY <1>1, <1>2, AddsExists
<1>4. g[s] = h[s]
      BY <1>1, <1>3, AddsAgree
<1>5. QED
      BY <1>2, <1>4 DEF SumOn

\* The sum over nothing, and over a set and its chosen element.
LEMMA SumEmpty == ASSUME NEW f PROVE SumOn(f, {}) = 0
<1>1. PICK g : Adds(g, f, {})
      BY AddsExists, FS_EmptySet
<1>2. g[{}] = SumOn(f, {})
      BY <1>1, SumAdds, FS_EmptySet
<1>3. QED
      BY <1>1, <1>2 DEF Adds

LEMMA SumChosen ==
    ASSUME NEW S, IsFiniteSet(S), NEW f, S # {}
    PROVE  SumOn(f, S) = f[Chosen(S)] + SumOn(f, S \ {Chosen(S)})
<1>1. PICK g : Adds(g, f, S)
      BY AddsExists
<1>2. g[S] = f[Chosen(S)] + g[S \ {Chosen(S)}]
      BY <1>1 DEF Adds
<1>3. QED
      BY <1>1, <1>2, SumAdds

\* What is added up is a number.
LEMMA SumType ==
    ASSUME NEW S, IsFiniteSet(S), NEW f, \A x \in S : f[x] \in Nat
    PROVE  \A s \in SUBSET S : SumOn(f, s) \in Nat
<1> DEFINE T == {s \in SUBSET S : SumOn(f, s) \in Nat}
<1>1. ASSUME NEW s \in SUBSET S, \A u \in SUBSET s : u # s => u \in T
      PROVE  SumOn(f, s) \in Nat
      <2>1. CASE s = {}
            BY <2>1, SumEmpty
      <2>2. CASE s # {}
            <3>1. Chosen(s) \in s
                  BY <2>2, ChosenIn
            <3>2. SumOn(f, s) = f[Chosen(s)] + SumOn(f, s \ {Chosen(s)})
                  BY <2>2, SumChosen, FS_Subset
            <3>3. SumOn(f, s \ {Chosen(s)}) \in Nat
                  BY <1>1, <3>1
            <3>4. QED
                  BY <3>1, <3>2, <3>3
      <2>3. QED
            BY <2>1, <2>2
<1>2. \A s \in SUBSET S : (\A u \in SUBSET s : u # s => u \in T) => s \in T
      BY <1>1
<1>3. \A s \in SUBSET S : s \in T
      <2> HIDE DEF T
      <2>1. QED
            BY <1>2, FiniteInduction
<1>4. QED
      BY <1>3

\* Any element can be taken out of a sum.
LEMMA SumTake ==
    ASSUME NEW S, IsFiniteSet(S), NEW f, \A x \in S : f[x] \in Nat
    PROVE  \A s \in SUBSET S : \A x \in s : SumOn(f, s) = f[x] + SumOn(f, s \ {x})
<1> DEFINE T == {s \in SUBSET S : \A x \in s : SumOn(f, s) = f[x] + SumOn(f, s \ {x})}
<1>0. \A s \in SUBSET S : IsFiniteSet(s) /\ SumOn(f, s) \in Nat
      BY FS_Subset, SumType
<1>1. ASSUME NEW s \in SUBSET S, \A u \in SUBSET s : u # s => u \in T, NEW x \in s
      PROVE  SumOn(f, s) = f[x] + SumOn(f, s \ {x})
      <2>1. PICK c \in s : c = Chosen(s)
            BY ChosenIn
      <2>2. SumOn(f, s) = f[c] + SumOn(f, s \ {c})
            BY <1>0, <2>1, SumChosen
      <2>3. CASE x = c
            BY <2>2, <2>3
      <2>4. CASE x # c
            <3>1. s \ {c} \in T /\ s \ {x} \in T
                  BY <1>1
            <3>2. PICK r \in SUBSET S : r = (s \ {c}) \ {x} /\ r = (s \ {x}) \ {c}
                  OBVIOUS
            <3>3. SumOn(f, s \ {c}) = f[x] + SumOn(f, r)
                  BY <2>4, <3>1, <3>2
            <3>4. SumOn(f, s \ {x}) = f[c] + SumOn(f, r)
                  BY <2>4, <3>1, <3>2
            <3>5. f[x] \in Nat /\ f[c] \in Nat /\ SumOn(f, r) \in Nat
                  BY <1>0
            <3>6. QED
                  BY <2>2, <3>3, <3>4, <3>5
      <2>5. QED
            BY <2>3, <2>4
<1>2. \A s \in SUBSET S : (\A u \in SUBSET s : u # s => u \in T) => s \in T
      BY <1>1
<1>3. \A s \in SUBSET S : s \in T
      <2> HIDE DEF T
      <2>1. QED
            BY <1>2, FiniteInduction
<1>4. QED
      BY <1>3

\* Only the values on the set count.
LEMMA SumSame ==
    ASSUME NEW S, IsFiniteSet(S), NEW f, NEW h, \A x \in S : f[x] = h[x]
    PROVE  SumOn(f, S) = SumOn(h, S)
<1> DEFINE T == {s \in SUBSET S : SumOn(f, s) = SumOn(h, s)}
<1>1. ASSUME NEW s \in SUBSET S, \A u \in SUBSET s : u # s => u \in T
      PROVE  SumOn(f, s) = SumOn(h, s)
      <2>1. CASE s = {}
            BY <2>1, SumEmpty
      <2>2. CASE s # {}
            <3>1. PICK c \in s : c = Chosen(s)
                  BY <2>2, ChosenIn
            <3>2. SumOn(f, s) = f[c] + SumOn(f, s \ {c}) /\ SumOn(h, s) = h[c] + SumOn(h, s \ {c})
                  BY <2>2, <3>1, SumChosen, FS_Subset
            <3>3. QED
                  BY <1>1, <3>1, <3>2
      <2>3. QED
            BY <2>1, <2>2
<1>2. \A s \in SUBSET S : (\A u \in SUBSET s : u # s => u \in T) => s \in T
      BY <1>1
<1>3. \A s \in SUBSET S : s \in T
      <2> HIDE DEF T
      <2>1. QED
            BY <1>2, FiniteInduction
<1>4. QED
      BY <1>3
\* A finite set that is not empty has an element of the largest value.
LEMMA LargestExists ==
    ASSUME NEW S, IsFiniteSet(S), NEW f, \A x \in S : f[x] \in Nat
    PROVE  \A s \in SUBSET S : s # {} => \E x \in s : \A y \in s : f[x] >= f[y]
<1> DEFINE T == {s \in SUBSET S : s # {} => \E x \in s : \A y \in s : f[x] >= f[y]}
<1>1. ASSUME NEW s \in SUBSET S, \A u \in SUBSET s : u # s => u \in T, s # {}
      PROVE  \E x \in s : \A y \in s : f[x] >= f[y]
      <2>1. PICK c \in s : TRUE
            BY <1>1
      <2>2. CASE s = {c}
            BY <2>2
      <2>3. CASE s # {c}
            <3>0. s \ {c} \in SUBSET s /\ s \ {c} # s /\ s \ {c} # {}
                  BY <2>1, <2>3
            <3>1. PICK x \in s \ {c} : \A y \in s \ {c} : f[x] >= f[y]
                  BY <1>1, <3>0
            <3>2. \A y \in s : f[y] \in Nat
                  OBVIOUS
            <3>3. CASE f[x] >= f[c]
                  BY <3>1, <3>3
            <3>4. CASE ~(f[x] >= f[c])
                  BY <2>1, <3>1, <3>2, <3>4
            <3>5. QED
                  BY <3>3, <3>4
      <2>4. QED
            BY <2>2, <2>3
<1>2. \A s \in SUBSET S : (\A u \in SUBSET s : u # s => u \in T) => s \in T
      BY <1>1
<1>3. \A s \in SUBSET S : s \in T
      <2> HIDE DEF T
      <2>1. QED
            BY <1>2, FiniteInduction
<1>4. QED
      BY <1>3

-----------------------------------------------------------------------------
(* Types of what an assessment computes.                                   *)

\* The risk score saturates: it is a band whatever the number of factors.
LEMMA ScoreType ==
    ASSUME TypeOK, NEW a \in Actions
    PROVE  Score(a) \in Bands
<1>1. facts.factors \in SUBSET Factors
      BY ConstantsAssumption DEF TypeOK
<1>2. IsFiniteSet(facts.factors)
      BY <1>1, FS_Subset, ConstantsAssumption
<1>3. Cardinality(facts.factors) \in Nat
      BY <1>2, FS_CardinalityType
<1>4. Base[a] \in 0..3
      BY ConstantsAssumption DEF Bands
<1>5. QED
      BY <1>3, <1>4 DEF Score, Bands, CRITICAL

\* One assessment yields well-typed gates, and no risk detail without a gate.
LEMMA GatesType ==
    ASSUME TypeOK, NEW a \in Actions, NEW cost
    PROVE  /\ GatesOf(a, cost) \in PlainGates
           /\ GatesOf(a, cost).names = {} => GatesOf(a, cost) = NoGates
<1>1. Score(a) \in Bands
      BY ScoreType
<1>2. facts.factors \in SUBSET Factors /\ (~facts.met) \in BOOLEAN
      BY ConstantsAssumption DEF TypeOK
<1>3. NoGates \in PlainGates
      BY DEF NoGates, PlainGates, Bands
<1>4. QED
      BY <1>1, <1>2, <1>3 DEF GatesOf, PlainGates, NoGates

\* The gates of an operation, opening and ending, are well typed.
LEMMA OperationGatesType ==
    ASSUME TypeOK, NEW a \in Actions
    PROVE  OperationGates(a) \in Gates
<1>1. NoGates \in PlainGates
      BY DEF NoGates, PlainGates, Bands
<1>2. QED
      BY <1>1, GatesType DEF OperationGates, Gates

\* What an approval is bound to is well typed, with or without a visitor.
LEMMA BindingType ==
    ASSUME TypeOK, NEW a \in Actions
    PROVE  BindingOf(a) \in Binding /\ AskBinding(a) \in Binding
<1>1. ResolvedRequester(a) \in Roles
      BY ConstantsAssumption DEF ResolvedRequester, TypeOK
<1>2. OperationGates(a) \in Gates
      BY OperationGatesType
<1>3. BindingOf(a) \in Binding
      BY <1>1, <1>2, ConstantsAssumption DEF BindingOf, Binding, TypeOK
<1>4. AskBinding(a) \in Binding
      <2> DEFINE p == IF a \in Visitor /\ ringing THEN press ELSE NoPress
      <2>1. p \in 0..MaxPress
            BY ConstantsAssumption DEF TypeOK
      <2>2. AskBinding(a) = [BindingOf(a) EXCEPT !.press = p]
            BY DEF AskBinding
      <2> HIDE DEF p
      <2>3. QED
            BY <1>3, <2>1, <2>2 DEF Binding
<1>5. QED
      BY <1>3, <1>4

-----------------------------------------------------------------------------
(* What may happen to one row of the approvals table.                      *)

\* No approval is bound to a press that has not happened.
PressHappened == \A i \in Ids : approvals[i].binding.press <= press

\* What ask() binds, for a new approval or in place of an old one, is well
\* typed and names no later press.
LEMMA BoundToThePast ==
    ASSUME TypeOK, PressHappened, NEW a \in Actions
    PROVE  /\ AskBinding(a) \in Binding /\ AskBinding(a).press <= press
           /\ \A i \in Ids : /\ AskAgainBinding(a, i) \in Binding
                            /\ AskAgainBinding(a, i).press <= press
<1>1. AskBinding(a) \in Binding /\ AskBinding(a).press <= press
      <2>1. AskBinding(a).press = press \/ AskBinding(a).press = 0
            BY DEF AskBinding, BindingOf
      <2>2. QED
            BY <2>1, BindingType DEF TypeOK
<1>2. ASSUME NEW i \in Ids
      PROVE  AskAgainBinding(a, i) \in Binding /\ AskAgainBinding(a, i).press <= press
      <2> DEFINE bound == approvals[i].binding.press
      <2>1. bound \in 0..MaxPress /\ bound <= press
            BY DEF TypeOK, Approval, Binding, PressHappened
      <2>2. AskAgainBinding(a, i) = IF bound = NoPress THEN AskBinding(a)
                                    ELSE [BindingOf(a) EXCEPT !.press = bound]
            BY DEF AskAgainBinding
      <2> HIDE DEF bound
      <2>3. QED
            BY <1>1, <2>1, <2>2, BindingType DEF Binding
<1>3. QED
      BY <1>1, <1>2

\* The row changes its status and nothing else.
Restated(i, s) == approvals'[i] = [approvals[i] EXCEPT !.status = s]

\* ask() takes an unused id.
Opened(i) ==
    /\ approvals[i].status = "free"
    /\ approvals'[i].status = "pending" /\ approvals'[i].action \in Actions
    /\ approvals'[i].binding.press <= press

\* The whole life of a row: opened once, closed once.
RowMoves(i) ==
    \/ approvals'[i] = approvals[i]
    \/ Opened(i)
    \/ Restated(i, "expired") /\ approvals[i].status \in {"pending", "approved", "rejected", "expired"}
    \/ Restated(i, "redeemed") /\ approvals[i].status \in Live
    \/ /\ approvals[i].status \in Live
       /\ \E s \in {"pending", "approved", "rejected"} : Restated(i, s)

\* A row that was never opened names no action.
FreeIsBlank == \A i \in Ids : approvals[i].status = "free" => approvals[i].action = None

\* A status update keeps the table's type and touches one row only.
LEMMA SetStatusMoves ==
    ASSUME approvals \in [Ids -> Approval], NEW i \in Ids, NEW s \in Statuses,
           approvals' = SetStatus(approvals, i, s)
    PROVE  /\ approvals' \in [Ids -> Approval]
           /\ Restated(i, s)
           /\ \A j \in Ids : j # i => approvals'[j] = approvals[j]
<1>1. [approvals[i] EXCEPT !.status = s] \in Approval
      BY DEF Approval
<1>2. QED
      BY <1>1 DEF SetStatus, Restated

\* ask(): what it leaves in the table, whichever table it starts from.
LEMMA AskForMoves ==
    ASSUME TypeOK, NEW a \in Actions, NEW table \in [Ids -> Approval],
           NEW new \in Binding, new.press <= press, AskFor(a, new, table)
    PROVE  /\ approvals' \in [Ids -> Approval]
           /\ \A j \in Ids :
                \/ approvals'[j] = table[j]
                \/ /\ table[j].status \in Live
                   /\ approvals'[j] = [table[j] EXCEPT !.status = "expired"]
                \/ /\ table[j].status = "free"
                   /\ approvals'[j].status = "pending" /\ approvals'[j].action = a
                   /\ approvals'[j].binding.press <= press
           /\ \/ approvals' = table
              \/ \E i \in Ids : \A j \in Ids :
                    j # i => ~(approvals'[j].action = a /\ approvals'[j].status \in Live)
<1> DEFINE open == {i \in Ids : table[i].action = a /\ table[i].status \in Live}
           stale == {i \in open : \/ now >= table[i].expires
                                  \/ ~Compatible(table[i].binding, new)}
           swept == [i \in Ids |-> IF i \in stale
                                   THEN [table[i] EXCEPT !.status = "expired"]
                                   ELSE table[i]]
           rec == [status |-> "pending", action |-> a, binding |-> new,
                   expires |-> now + RuleOf(a).ttl]
<1>2. rec \in Approval
      <2>1. RuleOf(a).ttl \in Nat
            BY ConstantsAssumption DEF RuleOf, TypeOK, RuleSpace
      <2>2. QED
            BY <2>1 DEF Approval, Statuses, TypeOK
<1>3. swept \in [Ids -> Approval]
      <2>1. \A i \in Ids : [table[i] EXCEPT !.status = "expired"] \in Approval
            BY DEF Approval, Statuses
      <2>2. QED
            BY <2>1
<1>4. CASE open \ stale # {}
      BY <1>4 DEF AskFor
<1>5. CASE open \ stale = {}
      <2>1. PICK i \in Ids : /\ table[i].status = "free"
                             /\ approvals' = [swept EXCEPT ![i] = rec]
            BY <1>5 DEF AskFor
      <2>2. approvals' \in [Ids -> Approval] /\ approvals'[i] = rec
            BY <1>2, <1>3, <2>1
      <2>3. \A j \in Ids : j # i => approvals'[j] = swept[j]
            BY <2>1, <1>3
      <2>4. \A j \in Ids : j # i =>
               \/ approvals'[j] = table[j] /\ j \notin open
               \/ /\ table[j].status \in Live
                  /\ approvals'[j] = [table[j] EXCEPT !.status = "expired"]
            BY <1>5, <2>3
      <2>5. \A j \in Ids : j # i => ~(approvals'[j].action = a /\ approvals'[j].status \in Live)
            BY <2>4 DEF Approval
      <2>6. /\ approvals'[i].status = "pending" /\ approvals'[i].action = a
            /\ approvals'[i].binding.press <= press
            BY <2>2
      <2> HIDE DEF open, stale, swept, rec
      <2>7. QED
            BY <2>1, <2>2, <2>4, <2>5, <2>6
<1>6. QED
      BY <1>4, <1>5

\* The status a vote gives an approval.
LEMMA VoteMoves ==
    ASSUME TypeOK, NEW i \in Ids, NEW m \in Members, NEW v \in Ballot,
           NEW bundle \in Policies, VoteOn(i, m, v, bundle)
    PROVE  /\ approvals[i].status \in Live
           /\ \E s \in {"pending", "approved", "rejected"} :
                 /\ approvals' = SetStatus(approvals, i, s)
                 /\ v.cast = "reject" => s = "rejected"
           /\ votes[i][m].cast = "no vote"
           /\ votes' = [votes EXCEPT ![i] = [votes[i] EXCEPT ![m] = v]]
           /\ UNCHANGED <<now, house, rows>>
<1> DEFINE a == approvals[i].action
           ok == Satisfied(Rule[bundle][a], a, [votes[i] EXCEPT ![m] = v])
           s == CASE v.cast = "reject" -> "rejected"
                  [] v.cast = "approve" /\ ok -> "approved"
                  [] OTHER -> "pending"
<1>1. approvals' = SetStatus(approvals, i, s)
      BY DEF VoteOn
<1>2. s \in {"pending", "approved", "rejected"} /\ (v.cast = "reject" => s = "rejected")
      <2> HIDE DEF ok
      <2> QED BY DEF Ballot
<1>3. approvals[i].status \in Live
      BY DEF VoteOn, OpenToVotes
<1>4. /\ votes[i][m].cast = "no vote"
      /\ votes' = [votes EXCEPT ![i] = [votes[i] EXCEPT ![m] = v]]
      /\ UNCHANGED <<now, house, rows>>
      BY DEF VoteOn
<1> HIDE DEF s
<1>5. QED
      BY <1>1, <1>2, <1>3, <1>4

\* Every step moves every row along its life and keeps the table well typed.
LEMMA TableMoves ==
    ASSUME TypeOK, FreeIsBlank, PressHappened, [Next]_vars
    PROVE  approvals' \in [Ids -> Approval] /\ \A j \in Ids : RowMoves(j)
<1> USE DEF TypeOK
<1>1. CASE UNCHANGED approvals
      BY <1>1 DEF RowMoves
<1>2. ASSUME NEW a \in Actions, NEW told \in BOOLEAN, Propose(a, told)
      PROVE  approvals' \in [Ids -> Approval] /\ \A j \in Ids : RowMoves(j)
      <2>1. AskFor(a, AskBinding(a), approvals)
            BY <1>2 DEF Propose
      <2>2. QED
            <3>1. AskBinding(a) \in Binding /\ AskBinding(a).press <= press
                  BY BoundToThePast
            <3>2. approvals \in [Ids -> Approval]
                  OBVIOUS
            <3> HIDE DEF TypeOK
            <3>3. /\ approvals' \in [Ids -> Approval]
                  /\ \A j \in Ids :
                        \/ approvals'[j] = approvals[j]
                        \/ /\ approvals[j].status \in Live
                           /\ approvals'[j] = [approvals[j] EXCEPT !.status = "expired"]
                        \/ /\ approvals[j].status = "free"
                           /\ approvals'[j].status = "pending" /\ approvals'[j].action = a
                           /\ approvals'[j].binding.press <= press
                  BY <2>1, <3>1, <3>2, AskForMoves
            <3>4. QED
                  BY <3>3 DEF RowMoves, Opened, Restated
<1>3. ASSUME NEW a \in Actions, NEW i \in Ids, NEW told \in BOOLEAN,
             RedeemIncompatible(a, i, told)
      PROVE  approvals' \in [Ids -> Approval] /\ \A j \in Ids : RowMoves(j)
      <2> DEFINE table == SetStatus(approvals, i, "expired")
      <2> DEFINE new == AskAgainBinding(a, i)
      <2>1. AskFor(a, new, table) /\ approvals[i].status \in Live
            BY <1>3 DEF RedeemIncompatible, Presented
      <2>2. /\ table \in [Ids -> Approval]
            /\ table[i] = [approvals[i] EXCEPT !.status = "expired"]
            /\ \A j \in Ids : j # i => table[j] = approvals[j]
            BY DEF SetStatus, Approval, Statuses
      <2>3. table[i].status = "expired"
            BY <2>2 DEF Approval
      <2> HIDE DEF table
      <2>8. /\ approvals' \in [Ids -> Approval]
            /\ \A j \in Ids :
                \/ approvals'[j] = table[j]
                \/ /\ table[j].status \in Live
                   /\ approvals'[j] = [table[j] EXCEPT !.status = "expired"]
                \/ /\ table[j].status = "free"
                   /\ approvals'[j].status = "pending" /\ approvals'[j].action = a
                   /\ approvals'[j].binding.press <= press
            <3>1. table \in [Ids -> Approval] /\ AskFor(a, new, table)
                  BY <2>1, <2>2
            <3>2. new \in Binding /\ new.press <= press
                  BY BoundToThePast
            <3> HIDE DEF TypeOK, new
            <3>3. QED
                  BY <3>1, <3>2, AskForMoves
      <2>4. approvals' \in [Ids -> Approval] /\ approvals'[i] = table[i]
            BY <2>3, <2>8
      <2>5. \A j \in Ids : j # i => RowMoves(j)
            BY <2>2, <2>8 DEF RowMoves, Opened, Restated
      <2>6. RowMoves(i)
            BY <2>1, <2>2, <2>4 DEF RowMoves, Restated
      <2>7. QED
            BY <2>4, <2>5, <2>6
<1>4. ASSUME NEW a \in Actions, NEW i \in Ids, RedeemExpired(a, i)
      PROVE  approvals' \in [Ids -> Approval] /\ \A j \in Ids : RowMoves(j)
      <2>1. approvals[i].status \in {"pending", "approved", "rejected", "expired"}
            BY <1>4, ConstantsAssumption DEF RedeemExpired, FreeIsBlank, Approval, Statuses
      <2>2. approvals' = SetStatus(approvals, i, "expired")
            BY <1>4 DEF RedeemExpired
      <2>3. QED
            BY <2>1, <2>2, SetStatusMoves DEF RowMoves, Statuses
<1>5. ASSUME NEW a \in Actions, NEW i \in Ids \cup {None}, NEW told \in BOOLEAN,
             NEW lag \in Lag, RedeemGrant(a, i, told, lag) \/ RedeemLate(a, i, told, lag)
      PROVE  approvals' \in [Ids -> Approval] /\ \A j \in Ids : RowMoves(j)
      <2>1. CASE i = None
            <3>1. approvals' = approvals
                  BY <1>5, <2>1 DEF RedeemGrant, RedeemLate, InTime
            <3>2. QED
                  BY <1>1, <3>1
      <2>2. CASE i # None
            <3>1. i \in Ids /\ approvals[i].status \in Live
                  BY <1>5, <2>2 DEF RedeemGrant, RedeemLate, Authorized, Presented
            <3>2. PICK s \in {"redeemed", "expired"} : approvals' = SetStatus(approvals, i, s)
                  BY <1>5, <2>2 DEF RedeemGrant, RedeemLate
            <3>3. QED
                  BY <3>1, <3>2, SetStatusMoves DEF RowMoves, Statuses
      <2>3. QED
            BY <2>1, <2>2
<1>6. ASSUME NEW i \in Ids, NEW m \in Members, NEW v \in Ballot, NEW bundle \in 1..policy,
             VoteOn(i, m, v, bundle)
      PROVE  approvals' \in [Ids -> Approval] /\ \A j \in Ids : RowMoves(j)
      <2>1. bundle \in Policies
            BY ConstantsAssumption DEF Policies
      <2>2. PICK s \in {"pending", "approved", "rejected"} :
               approvals' = SetStatus(approvals, i, s) /\ approvals[i].status \in Live
            BY <1>6, <2>1, VoteMoves
      <2>3. QED
            BY <2>2, SetStatusMoves DEF RowMoves, Statuses
<1>7. ASSUME NEW i \in Ids, VoteLate(i)
      PROVE  approvals' \in [Ids -> Approval] /\ \A j \in Ids : RowMoves(j)
      <2>1. approvals[i].status \in {"pending", "approved", "rejected", "expired"}
            BY <1>7 DEF VoteLate, Approval, Statuses
      <2>2. approvals' = SetStatus(approvals, i, "expired")
            BY <1>7 DEF VoteLate
      <2>3. QED
            BY <2>1, <2>2, SetStatusMoves DEF RowMoves, Statuses
<1>8. CASE Household \/ UNCHANGED vars \/ \E a \in Actions : Refuse(a) \/ ClaimExecution(a)
      BY <1>1, <1>8 DEF Household, Tick, ChangeFacts, ActivatePolicy, ChangeRole, ChangeLink,
             RevokePasskey, RingDoorbell, vars, Refuse, ClaimExecution
<1>9. CASE \E a \in Actions, i \in Ids \cup {None}, told \in BOOLEAN : Enqueue(a, i, told)
      BY <1>1, <1>9 DEF Enqueue
<1>10. QED
      BY <1>2, <1>3, <1>4, <1>5, <1>6, <1>7, <1>8, <1>9 DEF Next, Pipeline

\* What a move means for a row, by the status it had.
LEMMA RowFacts ==
    ASSUME TypeOK, NEW i \in Ids, RowMoves(i)
    PROVE  /\ approvals[i].status \in {"redeemed", "expired"} => approvals'[i] = approvals[i]
           /\ approvals[i].status = "rejected" => approvals'[i].status \in {"rejected", "expired"}
           /\ approvals[i].status = "free" => approvals'[i] = approvals[i] \/ Opened(i)
           /\ approvals'[i].status = "free" => approvals'[i] = approvals[i]
           /\ ~Opened(i) => /\ approvals'[i].action = approvals[i].action
                            /\ approvals'[i].binding = approvals[i].binding
                            /\ approvals'[i].expires = approvals[i].expires
           /\ approvals'[i].status \in Live => Opened(i) \/ approvals[i].status \in Live
BY DEF TypeOK, Approval, RowMoves, Restated, Opened

-----------------------------------------------------------------------------
(* Types.                                                                  *)

\* Every operation, and every move of the household, keeps the types.
LEMMA TypeStep ==
    ASSUME TypeOK, FreeIsBlank, PressHappened, [Next]_vars
    PROVE  TypeOK'
<1>1. approvals' \in [Ids -> Approval]
      BY TableMoves
<1> USE ConstantsAssumption DEF TypeOK, house, rows, Store
<1>2. CASE UNCHANGED vars
      BY <1>2 DEF vars
<1>3. CASE Household
      <2>1. CASE Tick
            <3>1. now' \in Nat
                  BY <2>1 DEF Tick
            <3>2. QED
                  BY <1>1, <2>1, <3>1, Zenon DEF Tick
      <2>2. CASE ChangeFacts
            BY <1>1, <2>2 DEF ChangeFacts
      <2>3. CASE ActivatePolicy
            BY <1>1, <2>3 DEF ActivatePolicy, Policies
      <2>4. CASE RingDoorbell
            <3>1. press' \in 0..MaxPress
                  BY <2>4 DEF RingDoorbell
            <3>2. QED
                  BY <1>1, <2>4, <3>1, Zenon DEF RingDoorbell
      <2>5. ASSUME NEW m \in Roaming, NEW r \in Roles, ChangeRole(m, r) PROVE TypeOK'
            BY <1>1, <2>5 DEF ChangeRole
      <2>6. ASSUME NEW m \in Roaming, ChangeLink(m) \/ RevokePasskey(m) PROVE TypeOK'
            BY <1>1, <2>6 DEF ChangeLink, RevokePasskey
      <2>7. QED
            BY <1>3, <2>1, <2>2, <2>3, <2>4, <2>5, <2>6 DEF Household
<1>4. ASSUME NEW a \in Actions, Refuse(a) \/ ClaimExecution(a) PROVE TypeOK'
      <2>1. CASE Refuse(a)
            BY <1>1, <2>1 DEF Refuse
      <2>2. CASE ClaimExecution(a)
            <3>1. attempt' \in [Actions -> Nat \cup {None}]
                  BY <2>2 DEF ClaimExecution
            <3>2. QED
                  BY <1>1, <2>2, <3>1 DEF ClaimExecution
      <2>3. QED
            BY <1>4, <2>1, <2>2
<1>5. ASSUME NEW a \in Actions, NEW told \in BOOLEAN, Propose(a, told) PROVE TypeOK'
      BY <1>1, <1>5 DEF Propose
<1>6. ASSUME NEW a \in Actions, NEW i \in Ids, RedeemExpired(a, i) PROVE TypeOK'
      BY <1>1, <1>6 DEF RedeemExpired
<1>7. ASSUME NEW a \in Actions, NEW i \in Ids, NEW told \in BOOLEAN,
             RedeemIncompatible(a, i, told)
      PROVE  TypeOK'
      BY <1>1, <1>7 DEF RedeemIncompatible
<1>8. ASSUME NEW a \in Actions, NEW i \in Ids \cup {None}, NEW told \in BOOLEAN,
             Enqueue(a, i, told)
      PROVE  TypeOK'
      BY <1>1, <1>8 DEF Enqueue
<1>9. ASSUME NEW a \in Actions, NEW i \in Ids \cup {None}, NEW told \in BOOLEAN,
             NEW lag \in Lag, RedeemGrant(a, i, told, lag)
      PROVE  TypeOK'
      <2> DEFINE g == [granted |-> TRUE, at |-> now, done |-> now + lag, via |-> i,
                       policy |-> policy, requester |-> ResolvedRequester(a),
                       gates |-> OperationGates(a), reserved |-> Cost[a]]
      <2>1. g \in Grant
            BY OperationGatesType, BindingType DEF Grant, Lag, BindingOf, Binding
      <2>2. grant' = [grant EXCEPT ![a] = g] /\ now' = now + lag
            BY <1>9 DEF RedeemGrant
      <2> HIDE DEF g
      <2>3. grant' \in [Actions -> Grant] /\ now' \in Nat
            BY <2>1, <2>2 DEF Lag
      <2>4. QED
            BY <1>1, <1>9, <2>3 DEF RedeemGrant
<1>10. ASSUME NEW a \in Actions, NEW i \in Ids \cup {None}, NEW told \in BOOLEAN,
              NEW lag \in Lag, RedeemLate(a, i, told, lag)
      PROVE  TypeOK'
      BY <1>1, <1>10 DEF RedeemLate, Lag
<1>11. ASSUME NEW i \in Ids, NEW m \in Members, NEW v \in Ballot, NEW bundle \in 1..policy,
              VoteOn(i, m, v, bundle)
      PROVE  TypeOK'
      <2>1. votes' = [votes EXCEPT ![i] = [votes[i] EXCEPT ![m] = v]]
            BY <1>11 DEF VoteOn
      <2>2. votes' \in [Ids -> [Members -> Vote]]
            BY <2>1 DEF Vote
      <2>3. QED
            BY <1>1, <1>11, <2>2 DEF VoteOn
<1>12. ASSUME NEW i \in Ids, VoteLate(i) PROVE TypeOK'
      BY <1>1, <1>12 DEF VoteLate
<1>13. QED
      BY <1>2, <1>3, <1>4, <1>5, <1>6, <1>7, <1>8, <1>9, <1>10, <1>11, <1>12
         DEF Next, Pipeline

-----------------------------------------------------------------------------
(* The inductive invariant.                                                *)

Inv ==
    /\ TypeOK /\ FreeIsBlank /\ PressHappened
    /\ OneLiveApproval /\ VetoHolds /\ GrantIsCovered /\ ClaimIsFresh

\* The empty tables satisfy the invariant.
LEMMA InitInv == Init => Inv
<1> SUFFICES ASSUME Init PROVE Inv
    OBVIOUS
<1> USE ConstantsAssumption DEF Init
<1>1. FreeRow \in Approval
      BY DEF FreeRow, Approval, Statuses, Binding, Policies, Gates, NoGates, PlainGates, Bands
<1>2. NoGrant \in Grant
      BY DEF NoGrant, Grant, Gates, NoGates, PlainGates, Bands, Policies
<1>3. NoVote \in Vote
      BY DEF Vote
<1>4. TypeOK
      <2>1. now \in Nat /\ policy \in Policies /\ press \in 0..MaxPress
            BY DEF Policies
      <2>2. /\ grant \in [Actions -> Grant] /\ approvals \in [Ids -> Approval]
            /\ votes \in [Ids -> [Members -> Vote]]
            BY <1>1, <1>2, <1>3
      <2>3. /\ role \in [Members -> Roles] /\ linked \in SUBSET Members
            /\ revoked \in SUBSET Members /\ proposed \in SUBSET Actions
            /\ queued \in [Actions -> [yes : BOOLEAN, via : Ids \cup {None}]]
            /\ attempt \in [Actions -> Nat \cup {None}]
            OBVIOUS
      <2>4. facts \in Facts /\ ringing \in BOOLEAN
            BY Zenon
      <2>5. QED
            BY <2>1, <2>2, <2>3, <2>4 DEF TypeOK
<1>5. FreeIsBlank /\ PressHappened /\ OneLiveApproval
      BY DEF FreeIsBlank, PressHappened, OneLiveApproval, FreeRow
<1>6. VetoHolds
      BY DEF VetoHolds, NoVote
<1>7. GrantIsCovered /\ ClaimIsFresh
      BY DEF GrantIsCovered, ClaimIsFresh, NoGrant
<1>8. QED
      BY <1>4, <1>5, <1>6, <1>7 DEF Inv

\* The pipeline reads the household and never writes it.
LEMMA PipelineLeavesHouse == Pipeline => UNCHANGED house
<1>1. \A a, i, told : /\ Refuse(a) => UNCHANGED house
                      /\ ClaimExecution(a) => UNCHANGED house
                      /\ Propose(a, told) => UNCHANGED house
                      /\ RedeemExpired(a, i) => UNCHANGED house
      BY DEF Refuse, ClaimExecution, Propose, RedeemExpired
<1>2. \A a, i, told, lag : /\ RedeemIncompatible(a, i, told) => UNCHANGED house
                           /\ Enqueue(a, i, told) => UNCHANGED house
                           /\ RedeemGrant(a, i, told, lag) => UNCHANGED house
                           /\ RedeemLate(a, i, told, lag) => UNCHANGED house
      BY DEF RedeemIncompatible, Enqueue, RedeemGrant, RedeemLate
<1>3. \A i, m, v, bundle : VoteOn(i, m, v, bundle) => UNCHANGED house
      BY DEF VoteOn
<1>4. \A i : VoteLate(i) => UNCHANGED house
      BY DEF VoteLate
<1>5. QED
      BY <1>1, <1>2, <1>3, <1>4 DEF Pipeline

\* Blank rows stay blank, and the doorbell only counts up.
LEMMA BlankStep ==
    ASSUME Inv, [Next]_vars
    PROVE  FreeIsBlank' /\ PressHappened'
<1>1. \A j \in Ids : RowMoves(j)
      BY TableMoves DEF Inv
<1>2. FreeIsBlank'
      BY <1>1, RowFacts DEF Inv, FreeIsBlank
<1>3. press' = press \/ press' = press + 1
      <2>1. CASE Pipeline
            BY <2>1, PipelineLeavesHouse DEF house
      <2>2. CASE Household
            BY <2>2 DEF Household, Tick, ChangeFacts, ActivatePolicy, ChangeRole,
                        ChangeLink, RevokePasskey, RingDoorbell
      <2>3. QED
            BY <2>1, <2>2 DEF Next, vars, house
<1>4. press' >= press /\ press \in Nat
      BY <1>3 DEF Inv, TypeOK
<1>5. ASSUME NEW i \in Ids PROVE approvals'[i].binding.press <= press'
      <2>1. TypeOK' /\ TypeOK
            BY TypeStep DEF Inv
      <2>2. approvals[i].binding.press <= press
            BY DEF Inv, PressHappened
      <2>3. approvals'[i].binding.press <= press
            BY <1>1, <2>1, <2>2, RowFacts DEF Opened
      <2>4. approvals'[i].binding.press \in 0..MaxPress
            BY <2>1 DEF TypeOK, Approval, Binding
      <2>5. press' \in Nat
            BY <2>1 DEF TypeOK
      <2>6. QED
            BY <1>4, <2>3, <2>4, <2>5, ConstantsAssumption
<1>6. QED
      BY <1>2, <1>5 DEF PressHappened

\* ask() leaves at most one live approval of the action it is called for.
LEMMA AskForKeepsOne ==
    ASSUME TypeOK, NEW a \in Actions, NEW table \in [Ids -> Approval],
           NEW new \in Binding, new.press <= press, AskFor(a, new, table),
           \A i, j \in Ids : /\ table[i].status \in Live /\ table[j].status \in Live
                             /\ table[i].action = table[j].action
                             => i = j
    PROVE  OneLiveApproval'
<1>1. /\ \A j \in Ids :
           \/ approvals'[j] = table[j]
           \/ /\ table[j].status \in Live
              /\ approvals'[j] = [table[j] EXCEPT !.status = "expired"]
           \/ /\ table[j].status = "free"
              /\ approvals'[j].status = "pending" /\ approvals'[j].action = a
      /\ \/ approvals' = table
         \/ \E i \in Ids : \A j \in Ids :
               j # i => ~(approvals'[j].action = a /\ approvals'[j].status \in Live)
      BY AskForMoves
<1>2. \A j \in Ids : approvals'[j].status \in Live =>
         approvals'[j] = table[j] \/ approvals'[j].action = a
      BY <1>1 DEF Approval
<1>3. CASE approvals' = table
      BY <1>3 DEF OneLiveApproval
<1>4. ASSUME NEW k \in Ids,
             \A j \in Ids : j # k => ~(approvals'[j].action = a /\ approvals'[j].status \in Live)
      PROVE  OneLiveApproval'
      BY <1>2, <1>4 DEF OneLiveApproval
<1>5. QED
      BY <1>1, <1>3, <1>4

\* No step makes a second approval of one action live.
LEMMA OneLiveStep ==
    ASSUME Inv, [Next]_vars
    PROVE  OneLiveApproval'
<1>1. \A j \in Ids : RowMoves(j)
      BY TableMoves DEF Inv
<1>2. ASSUME NEW a \in Actions, NEW told \in BOOLEAN, Propose(a, told)
      PROVE  OneLiveApproval'
      <2>1. AskFor(a, AskBinding(a), approvals)
            BY <1>2 DEF Propose
      <2>2. QED
            BY <2>1, AskForKeepsOne, BoundToThePast DEF Inv, OneLiveApproval, TypeOK
<1>3. ASSUME NEW a \in Actions, NEW i \in Ids, NEW told \in BOOLEAN,
             RedeemIncompatible(a, i, told)
      PROVE  OneLiveApproval'
      <2> DEFINE table == SetStatus(approvals, i, "expired")
           new == AskAgainBinding(a, i)
      <2>1. AskFor(a, new, table) /\ new \in Binding /\ new.press <= press
            BY <1>3, BoundToThePast DEF RedeemIncompatible, Inv
      <2>2. /\ table \in [Ids -> Approval]
            /\ table[i] = [approvals[i] EXCEPT !.status = "expired"]
            /\ \A j \in Ids : j # i => table[j] = approvals[j]
            BY DEF SetStatus, Approval, Statuses, Inv, TypeOK
      <2>3. table[i].status \notin Live
            BY <2>2 DEF Inv, TypeOK, Approval
      <2> HIDE DEF table, new
      <2>4. \A k, j \in Ids : /\ table[k].status \in Live /\ table[j].status \in Live
                              /\ table[k].action = table[j].action
                              => k = j
            BY <2>2, <2>3 DEF Inv, OneLiveApproval
      <2>5. QED
            BY <2>1, <2>2, <2>4, AskForKeepsOne DEF Inv
<1>4. CASE \A j \in Ids : ~Opened(j)
      BY <1>1, <1>4, RowFacts DEF Inv, OneLiveApproval
<1>5. ASSUME ~(\E a \in Actions, told \in BOOLEAN : Propose(a, told)),
             ~(\E a \in Actions, i \in Ids, told \in BOOLEAN : RedeemIncompatible(a, i, told))
      PROVE  \A j \in Ids : ~Opened(j)
      <2>1. \/ approvals' = approvals
            \/ \E i \in Ids, s \in Statuses :
                  approvals' = SetStatus(approvals, i, s) /\ approvals[i].status # "free"
            <3>1. ASSUME NEW i \in Ids, NEW m \in Members, NEW v \in Ballot,
                         NEW bundle \in 1..policy, VoteOn(i, m, v, bundle)
                  PROVE  \E s \in Statuses :
                            approvals' = SetStatus(approvals, i, s) /\ approvals[i].status # "free"
                  <4>1. bundle \in Policies
                        BY ConstantsAssumption DEF Policies, Inv, TypeOK
                  <4>2. QED
                        BY <3>1, <4>1, VoteMoves DEF Inv, Statuses
            <3>2. ASSUME NEW a \in Actions, NEW i \in Ids, RedeemExpired(a, i)
                  PROVE  /\ approvals' = SetStatus(approvals, i, "expired")
                         /\ approvals[i].status # "free"
                  BY <3>2, ConstantsAssumption DEF RedeemExpired, Inv, FreeIsBlank
            <3>3. ASSUME NEW a \in Actions, NEW i \in Ids \cup {None}, NEW told \in BOOLEAN,
                         NEW lag \in Lag,
                         RedeemGrant(a, i, told, lag) \/ RedeemLate(a, i, told, lag)
                  PROVE  \/ approvals' = approvals
                         \/ /\ i \in Ids /\ approvals[i].status # "free"
                            /\ \E s \in Statuses : approvals' = SetStatus(approvals, i, s)
                  BY <3>3 DEF RedeemGrant, RedeemLate, InTime, Authorized, Presented, Statuses
            <3>4. ASSUME NEW i \in Ids, VoteLate(i)
                  PROVE  /\ approvals' = SetStatus(approvals, i, "expired")
                         /\ approvals[i].status # "free"
                  BY <3>4 DEF VoteLate
            <3>5. CASE \/ Household \/ UNCHANGED vars
                       \/ \E a \in Actions : Refuse(a) \/ ClaimExecution(a)
                       \/ \E a \in Actions, i \in Ids \cup {None}, told \in BOOLEAN :
                             Enqueue(a, i, told)
                  BY <3>5 DEF Household, Tick, ChangeFacts, ActivatePolicy, ChangeRole,
                         ChangeLink, RevokePasskey, RingDoorbell, vars, Refuse,
                         ClaimExecution, Enqueue
            <3>6. "expired" \in Statuses
                  BY DEF Statuses
            <3>7. QED
                  BY <1>5, <3>1, <3>2, <3>3, <3>4, <3>5, <3>6 DEF Next, Pipeline
      <2>2. QED
            BY <2>1 DEF Opened, SetStatus, Inv, TypeOK
<1>6. QED
      BY <1>2, <1>3, <1>4, <1>5

\* Votes are cast by vote_locked alone.
LEMMA VotesMove ==
    ASSUME [Next]_vars
    PROVE  \/ votes' = votes
           \/ \E i \in Ids, m \in Members, v \in Ballot, bundle \in 1..policy :
                 VoteOn(i, m, v, bundle)
<1>1. \A a, i, told : /\ Refuse(a) => votes' = votes
                      /\ ClaimExecution(a) => votes' = votes
                      /\ Propose(a, told) => votes' = votes
                      /\ RedeemExpired(a, i) => votes' = votes
      BY DEF Refuse, ClaimExecution, Propose, RedeemExpired
<1>2. \A a, i, told, lag : /\ RedeemIncompatible(a, i, told) => votes' = votes
                           /\ Enqueue(a, i, told) => votes' = votes
                           /\ RedeemGrant(a, i, told, lag) => votes' = votes
                           /\ RedeemLate(a, i, told, lag) => votes' = votes
      BY DEF RedeemIncompatible, Enqueue, RedeemGrant, RedeemLate
<1>3. \A i : VoteLate(i) => votes' = votes
      BY DEF VoteLate
<1>4. Household \/ UNCHANGED vars => votes' = votes
      BY DEF Household, Tick, ChangeFacts, ActivatePolicy, ChangeRole, ChangeLink,
             RevokePasskey, RingDoorbell, vars
<1>5. QED
      BY <1>1, <1>2, <1>3, <1>4 DEF Next, Pipeline

\* Grants are made by a redemption alone, claims by claim_execution alone, and
\* the queue is written by enqueue alone, for an action without a grant.
LEMMA RowsMove ==
    ASSUME TypeOK, [Next]_vars
    PROVE  /\ \/ grant' = grant
              \/ /\ \E a \in Actions, i \in Ids \cup {None}, told \in BOOLEAN, lag \in Lag :
                       RedeemGrant(a, i, told, lag)
                 /\ UNCHANGED <<queued, attempt>>
           /\ \/ attempt' = attempt
              \/ /\ \E a \in Actions : ClaimExecution(a)
                 /\ UNCHANGED <<grant, queued>>
           /\ \A a \in Actions : grant[a].granted => queued'[a] = queued[a]
<1>1. \A a, i, told : /\ Refuse(a) => UNCHANGED <<grant, queued, attempt>>
                      /\ Propose(a, told) => UNCHANGED <<grant, queued, attempt>>
                      /\ RedeemExpired(a, i) => UNCHANGED <<grant, queued, attempt>>
                      /\ ClaimExecution(a) => UNCHANGED <<grant, queued>>
      BY DEF Refuse, ClaimExecution, Propose, RedeemExpired
<1>2. \A a, i, told, lag :
         /\ RedeemIncompatible(a, i, told) => UNCHANGED <<grant, queued, attempt>>
         /\ RedeemGrant(a, i, told, lag) => UNCHANGED <<queued, attempt>>
         /\ RedeemLate(a, i, told, lag) => UNCHANGED <<grant, queued, attempt>>
      BY DEF RedeemIncompatible, RedeemGrant, RedeemLate
<1>3. \A i, m, v, bundle : /\ VoteLate(i) => UNCHANGED <<grant, queued, attempt>>
                           /\ VoteOn(i, m, v, bundle) => UNCHANGED <<grant, queued, attempt>>
      <2>1. \A i : VoteLate(i) => UNCHANGED rows
            BY DEF VoteLate
      <2>2. \A i, m, v, bundle : VoteOn(i, m, v, bundle) => UNCHANGED rows
            BY DEF VoteOn
      <2>3. QED
            BY <2>1, <2>2 DEF rows
<1>4. Household \/ UNCHANGED vars => UNCHANGED <<grant, queued, attempt>>
      BY DEF Household, Tick, ChangeFacts, ActivatePolicy, ChangeRole, ChangeLink,
             RevokePasskey, RingDoorbell, vars, rows
<1>5. ASSUME NEW a \in Actions, NEW i \in Ids \cup {None}, NEW told \in BOOLEAN,
             Enqueue(a, i, told)
      PROVE  /\ UNCHANGED <<grant, attempt>>
             /\ \A b \in Actions : grant[b].granted => queued'[b] = queued[b]
      BY <1>5 DEF Enqueue, Authorized, Presented, TypeOK
<1>6. QED
      BY <1>1, <1>2, <1>3, <1>4, <1>5 DEF Next, Pipeline

\* A rejection is never voted or redeemed away.
LEMMA VetoStep ==
    ASSUME Inv, [Next]_vars
    PROVE  VetoHolds'
<1>1. \A j \in Ids : RowMoves(j)
      BY TableMoves DEF Inv
<1>2. \A j \in Ids : approvals[j].status \in {"rejected", "expired"} =>
                      approvals'[j].status \in {"rejected", "expired"}
      BY <1>1, RowFacts DEF Inv
<1>3. CASE votes' = votes
      BY <1>2, <1>3 DEF Inv, VetoHolds
<1>4. ASSUME NEW i \in Ids, NEW m \in Members, NEW v \in Ballot, NEW bundle \in 1..policy,
             VoteOn(i, m, v, bundle)
      PROVE  VetoHolds'
      <2>1. bundle \in Policies
            BY ConstantsAssumption DEF Policies, Inv, TypeOK
      <2>2. /\ approvals[i].status \in Live
            /\ votes' = [votes EXCEPT ![i] = [votes[i] EXCEPT ![m] = v]]
            BY <1>4 DEF VoteOn, OpenToVotes
      <2>3. v.cast = "reject" => approvals'[i].status = "rejected"
            <3>1. v.cast = "reject" => approvals' = SetStatus(approvals, i, "rejected")
                  BY <1>4, <2>1, VoteMoves DEF Inv
            <3>2. QED
                  BY <3>1 DEF SetStatus, Inv, TypeOK, Approval
      <2>4. \A k \in Members : votes[i][k].cast # "reject"
            BY <2>2 DEF Inv, VetoHolds
      <2>5. ASSUME NEW j \in Ids, NEW k \in Members, votes'[j][k].cast = "reject"
            PROVE  approvals'[j].status \in {"rejected", "expired"}
            <3>1. CASE j # i
                  <4>1. votes'[j][k].cast = votes[j][k].cast
                        BY <2>2, <3>1 DEF Inv, TypeOK
                  <4>2. QED
                        BY <1>2, <2>5, <4>1 DEF Inv, VetoHolds
            <3>2. CASE j = i
                  <4>1. k = m /\ v.cast = "reject"
                        BY <2>2, <2>4, <2>5, <3>2 DEF Inv, TypeOK
                  <4>2. QED
                        BY <2>3, <3>2, <4>1
            <3>3. QED
                  BY <3>1, <3>2
      <2>6. QED
            BY <2>5 DEF VetoHolds
<1>5. QED
      BY <1>3, <1>4, VotesMove

\* The gates of a redemption are covered by the approval it presents.
LEMMA CompatibleCovers ==
    ASSUME TypeOK, NEW a \in Actions, NEW i \in Ids,
           Compatible(approvals[i].binding, BindingOf(a))
    PROVE  LET g == OperationGates(a)
               b == approvals[i].binding
           IN /\ policy = b.policy /\ ResolvedRequester(a) = b.requester
              /\ g.opening.names \subseteq b.gates.opening.names
              /\ g.opening.band <= b.gates.opening.band
              /\ g.opening.factors \subseteq b.gates.opening.factors
              /\ g.opening.unmet => b.gates.opening.unmet
              /\ g.ending = b.gates.ending
<1> DEFINE g == OperationGates(a)
           b == approvals[i].binding
<1>1. /\ BindingOf(a).gates = g /\ BindingOf(a).policy = policy
      /\ BindingOf(a).requester = ResolvedRequester(a)
      BY DEF BindingOf
<1>2. /\ policy = b.policy /\ ResolvedRequester(a) = b.requester
      /\ g.opening.names \subseteq b.gates.opening.names
      /\ g.opening.names # {} =>
            /\ g.opening.band <= b.gates.opening.band
            /\ g.opening.factors \subseteq b.gates.opening.factors
            /\ g.opening.unmet => b.gates.opening.unmet
      /\ g.ending = b.gates.ending
      BY <1>1 DEF Compatible
<1>3. g.opening.names = {} =>
         g.opening.band = 0 /\ g.opening.factors = {} /\ ~g.opening.unmet
      BY GatesType DEF OperationGates, NoGates
<1>4. b.gates.opening.band \in 0..3
      BY DEF TypeOK, Approval, Binding, Gates, PlainGates, Bands
<1>5. QED
      BY <1>2, <1>3, <1>4

\* A new grant is covered when it is made; nothing uncovers an old one.
LEMMA CoveredStep ==
    ASSUME Inv, [Next]_vars
    PROVE  GrantIsCovered'
<1>1. \A j \in Ids : RowMoves(j)
      BY TableMoves DEF Inv
<1>2. ASSUME NEW a \in Actions, grant'[a] = grant[a], grant[a].granted,
             grant[a].via \in Ids
      PROVE  approvals'[grant[a].via] = approvals[grant[a].via]
      <2>1. approvals[grant[a].via].status = "redeemed"
            BY <1>2, ConstantsAssumption DEF Inv, GrantIsCovered
      <2>2. QED
            BY <1>1, <1>2, <2>1, RowFacts DEF Inv
<1> DEFINE Settled(a) ==
             IF grant[a].via = None
             THEN grant[a].gates.opening.names = {} /\ grant[a].gates.ending.names = {}
             ELSE LET r == approvals[grant[a].via]
                      shown == r.binding.gates.opening
                      granted == grant[a].gates.opening
                  IN /\ r.status = "redeemed" /\ r.action = a
                     /\ grant[a].done < r.expires
                     /\ grant[a].policy = r.binding.policy
                     /\ grant[a].requester = r.binding.requester
                     /\ granted.names \subseteq shown.names
                     /\ granted.band <= shown.band
                     /\ granted.factors \subseteq shown.factors
                     /\ granted.unmet => shown.unmet
                     /\ grant[a].gates.ending = r.binding.gates.ending
<1>3. ASSUME NEW a \in Actions, grant'[a] = grant[a], grant[a].granted
      PROVE  Settled(a)'
      <2>1. Settled(a)
            BY <1>3 DEF Inv, GrantIsCovered
      <2>2. grant[a].via \in Ids \cup {None}
            BY DEF Inv, TypeOK, Grant
      <2>3. QED
            BY <1>2, <1>3, <2>1, <2>2
<1>4. ASSUME NEW a \in Actions, NEW i \in Ids \cup {None}, NEW told \in BOOLEAN,
             NEW lag \in Lag, RedeemGrant(a, i, told, lag)
      PROVE  Settled(a)' /\ \A b \in Actions : b # a => grant'[b] = grant[b]
      <2>1. /\ grant'[a].via = i /\ grant'[a].done = now + lag
            /\ grant'[a].gates = OperationGates(a) /\ grant'[a].policy = policy
            /\ grant'[a].requester = ResolvedRequester(a)
            /\ \A b \in Actions : b # a => grant'[b] = grant[b]
            BY <1>4 DEF RedeemGrant, Inv, TypeOK
      <2>2. CASE i = None
            BY <1>4, <2>1, <2>2 DEF RedeemGrant, Authorized, NeedsApproval
      <2>3. CASE i # None
            <3>1. /\ i \in Ids /\ approvals[i].action = a
                  /\ Compatible(approvals[i].binding, BindingOf(a))
                  /\ now + lag < approvals[i].expires
                  /\ approvals' = SetStatus(approvals, i, "redeemed")
                  BY <1>4, <2>3 DEF RedeemGrant, Authorized, Presented, InTime
            <3>2. approvals'[i] = [approvals[i] EXCEPT !.status = "redeemed"]
                  BY <3>1 DEF SetStatus, Inv, TypeOK
            <3>3. /\ approvals'[i].status = "redeemed"
                  /\ approvals'[i].action = approvals[i].action
                  /\ approvals'[i].expires = approvals[i].expires
                  /\ approvals'[i].binding = approvals[i].binding
                  BY <3>1, <3>2 DEF Inv, TypeOK, Approval
            <3>4. LET g == OperationGates(a)
                      b == approvals[i].binding
                  IN /\ policy = b.policy /\ ResolvedRequester(a) = b.requester
                     /\ g.opening.names \subseteq b.gates.opening.names
                     /\ g.opening.band <= b.gates.opening.band
                     /\ g.opening.factors \subseteq b.gates.opening.factors
                     /\ g.opening.unmet => b.gates.opening.unmet
                     /\ g.ending = b.gates.ending
                  BY <3>1, CompatibleCovers DEF Inv
            <3>5. QED
                  BY <2>1, <2>3, <3>1, <3>3, <3>4
      <2>4. QED
            BY <2>1, <2>2, <2>3
<1>5. QED
      <2> HIDE DEF Settled
      <2>1. \A a \in Actions : grant'[a].granted => Settled(a)'
            BY <1>3, <1>4, RowsMove DEF Inv
      <2>2. QED
            BY <2>1 DEF GrantIsCovered, Settled

\* A claim is made in time, and what it was made under does not move.
LEMMA FreshStep ==
    ASSUME Inv, [Next]_vars
    PROVE  ClaimIsFresh'
<1>1. \A j \in Ids : RowMoves(j)
      BY TableMoves DEF Inv
<1>2. ASSUME NEW a \in Actions, grant[a].granted, grant[a].via # None
      PROVE  /\ grant[a].via \in Ids /\ approvals[grant[a].via].status = "redeemed"
             /\ approvals[grant[a].via].action = a
             /\ approvals'[grant[a].via] = approvals[grant[a].via]
      <2>1. /\ grant[a].via \in Ids /\ approvals[grant[a].via].status = "redeemed"
            /\ approvals[grant[a].via].action = a
            BY <1>2 DEF Inv, GrantIsCovered, TypeOK, Grant
      <2>2. QED
            BY <1>1, <2>1, RowFacts DEF Inv
<1> DEFINE Alive(a) ==
             /\ grant[a].granted
             /\ attempt[a] - grant[a].at <= Window
             /\ queued[a].yes /\ grant[a].via # None
                   => attempt[a] < approvals[grant[a].via].expires
<1>3. ASSUME NEW a \in Actions, attempt[a] # None, attempt'[a] = attempt[a]
      PROVE  Alive(a)'
      <2>1. Alive(a)
            BY <1>3 DEF Inv, ClaimIsFresh
      <2>2. grant'[a] = grant[a]
            <3>1. ASSUME NEW b \in Actions, NEW i \in Ids \cup {None}, NEW told \in BOOLEAN,
                         NEW lag \in Lag, RedeemGrant(b, i, told, lag)
                  PROVE  grant'[a] = grant[a]
                  <4>1. ~grant[b].granted
                        BY <3>1 DEF RedeemGrant, Authorized, Presented
                  <4>2. QED
                        BY <2>1, <3>1, <4>1 DEF RedeemGrant, Inv, TypeOK
            <3>2. QED
                  BY <3>1, RowsMove DEF Inv
      <2>3. queued'[a] = queued[a]
            BY <2>1, RowsMove DEF Inv
      <2>4. QED
            BY <1>2, <1>3, <2>1, <2>2, <2>3
<1>4. ASSUME NEW a \in Actions, ClaimExecution(a)
      PROVE  Alive(a)' /\ \A b \in Actions : b # a => attempt'[b] = attempt[b]
      <2>1. /\ attempt'[a] = now /\ UNCHANGED <<grant, queued, approvals>>
            /\ \A b \in Actions : b # a => attempt'[b] = attempt[b]
            BY <1>4 DEF ClaimExecution, Inv, TypeOK
      <2>2. Claimable(a)
            BY <1>4 DEF ClaimExecution
      <2>3. QED
            BY <1>2, <2>1, <2>2 DEF Claimable
<1>5. QED
      <2> HIDE DEF Alive
      <2>1. \A a \in Actions : attempt'[a] # None => Alive(a)'
            BY <1>3, <1>4, RowsMove DEF Inv
      <2>2. QED
            BY <2>1 DEF ClaimIsFresh, Alive

\* Inv is inductive.
LEMMA InvStep == Inv /\ [Next]_vars => Inv'
BY TypeStep, BlankStep, OneLiveStep, VetoStep, CoveredStep, FreshStep DEF Inv

\* The invariant holds in every reachable state.
THEOREM Invariant == Spec => []Inv
BY InitInv, InvStep, PTL DEF Spec

-----------------------------------------------------------------------------
(* The results.                                                            *)

\* The pipeline's tables are always well typed; the risk band saturates.
THEOREM TypeCorrect == Spec => []TypeOK
BY Invariant, PTL DEF Inv

\* ask, redeem and vote_locked in any order leave at most one live approval
\* of an action.
THEOREM AtMostOneLive == Spec => []OneLiveApproval
BY Invariant, PTL DEF Inv

\* A rejection closes its approval for good, whatever becomes of the voter.
THEOREM VetoIsLasting == Spec => []VetoHolds
BY Invariant, PTL DEF Inv

\* authorize: every grant is covered by the approval it redeemed, which was
\* still in time when the boundary had answered.
THEOREM GrantsAreCovered == Spec => []GrantIsCovered
BY Invariant, PTL DEF Inv

\* claim_execution: no dispatch under a grant that is too old, and none of a
\* queued action past the deadline of its approval.
THEOREM ClaimsAreFresh == Spec => []ClaimIsFresh
BY Invariant, PTL DEF Inv

\* Grants, votes and closed approvals are never revised.
THEOREM NothingIsRevised == Spec => ConsentIsFinal
<1> DEFINE A == /\ \A a \in Actions : grant[a].granted => grant'[a] = grant[a]
                /\ \A i \in Ids, m \in Members :
                     votes[i][m].cast # "no vote" => votes'[i][m] = votes[i][m]
                /\ \A i \in Ids :
                     /\ approvals[i].status \in {"redeemed", "expired"}
                           => approvals'[i] = approvals[i]
                     /\ approvals[i].status = "rejected"
                           => approvals'[i].status \in {"rejected", "expired"}
<1>1. Inv /\ [Next]_vars => [A]_vars
      <2> SUFFICES ASSUME Inv, [Next]_vars PROVE A
          OBVIOUS
      <2>1. ASSUME NEW a \in Actions, grant[a].granted PROVE grant'[a] = grant[a]
            <3>1. ASSUME NEW b \in Actions, NEW i \in Ids \cup {None}, NEW told \in BOOLEAN,
                         NEW lag \in Lag, RedeemGrant(b, i, told, lag)
                  PROVE  grant'[a] = grant[a]
                  <4>1. ~grant[b].granted
                        BY <3>1 DEF RedeemGrant, Authorized, Presented
                  <4>2. QED
                        BY <2>1, <3>1, <4>1 DEF RedeemGrant, Inv, TypeOK
            <3>2. QED
                  BY <3>1, RowsMove DEF Inv
      <2>2. ASSUME NEW i \in Ids, NEW m \in Members, votes[i][m].cast # "no vote"
            PROVE  votes'[i][m] = votes[i][m]
            <3>1. ASSUME NEW j \in Ids, NEW k \in Members, NEW v \in Ballot,
                         NEW bundle \in 1..policy, VoteOn(j, k, v, bundle)
                  PROVE  votes'[i][m] = votes[i][m]
                  <4>1. /\ votes[j][k].cast = "no vote"
                        /\ votes' = [votes EXCEPT ![j] = [votes[j] EXCEPT ![k] = v]]
                        BY <3>1 DEF VoteOn
                  <4>2. QED
                        BY <2>2, <4>1 DEF Inv, TypeOK
            <3>2. QED
                  BY <3>1, VotesMove
      <2>3. \A i \in Ids :
               /\ approvals[i].status \in {"redeemed", "expired"}
                     => approvals'[i] = approvals[i]
               /\ approvals[i].status = "rejected"
                     => approvals'[i].status \in {"rejected", "expired"}
            BY TableMoves, RowFacts DEF Inv
      <2>4. QED
            BY <2>1, <2>2, <2>3
<1>2. QED
      BY <1>1, Invariant, PTL DEF Spec, ConsentIsFinal

\* What a step that makes a new grant presented: an approval of this action
\* that covers it, with the votes that count at that moment.
LEMMA NewGrant ==
    ASSUME Inv, Next, NEW a \in Actions, ~grant[a].granted, grant'[a].granted,
           grant'[a].via # None
    PROVE  /\ grant'[a].via \in Ids
           /\ ~NewerPress(grant'[a].via)
           /\ Satisfied(RuleOf(a), a, votes[grant'[a].via])
<1>1. PICK b \in Actions, i \in Ids \cup {None}, told \in BOOLEAN, lag \in Lag :
         RedeemGrant(b, i, told, lag)
      BY RowsMove DEF Inv
<1>2. b = a /\ grant'[a].via = i
      BY <1>1 DEF RedeemGrant, Inv, TypeOK
<1>3. Presented(a, i, told) /\ Satisfied(RuleOf(a), a, votes[i]) /\ i # None
      BY <1>1, <1>2 DEF RedeemGrant, Authorized
<1>4. QED
      BY <1>2, <1>3 DEF Presented

\* eligible_votes is recounted at redemption: the quorum is met by members who
\* are approvers at that moment, with accounts and passkeys valid then.
THEOREM QuorumIsCurrent == Spec => QuorumAtRedemption
<1> DEFINE Given(a, cast) ==
             {m \in linked : /\ role[m] \in Rule[policy][a].approvers
                             /\ cast[m].cast = "approve"
                             /\ cast[m].proof # "alexa" => m \notin revoked
                             /\ a \in Security => cast[m].proof = "passkey"}
           Met(a, cast) ==
             /\ Given(a, cast) # {}
             /\ Rule[policy][a].quorum = "all_adults" =>
                   \A m \in Members : role[m] \in Rule[policy][a].approvers => m \in Given(a, cast)
<1>1. Inv /\ [Next]_vars =>
         [\A a \in Actions : ~grant[a].granted /\ grant'[a].granted /\ grant'[a].via # None =>
            Met(a, votes[grant'[a].via])]_vars
      <2> SUFFICES ASSUME Inv, Next, NEW a \in Actions, ~grant[a].granted,
                          grant'[a].granted, grant'[a].via # None
                   PROVE  Met(a, votes[grant'[a].via])
          OBVIOUS
      <2> DEFINE cast == votes[grant'[a].via]
                 rule == RuleOf(a)
      <2>1. Satisfied(rule, a, cast)
            BY NewGrant
      <2> HIDE DEF cast
      <2>2. \A m \in Counted(rule, a, cast) : m \in Given(a, cast)
            BY <2>1 DEF Satisfied, Counted, Eligible, ChannelAllowed, CredentialCurrent, RuleOf
      <2>3. Counted(rule, a, cast) # {}
            BY <2>1 DEF Satisfied
      <2>4. rule.quorum = "all_adults" => Eligible(rule) \subseteq Counted(rule, a, cast)
            BY <2>1 DEF Satisfied
      <2>5. Given(a, cast) # {}
            BY <2>2, <2>3
      <2>6. Rule[policy][a].quorum = "all_adults" =>
               \A m \in Members : role[m] \in Rule[policy][a].approvers => m \in Given(a, cast)
            <3> HIDE DEF Given
            <3> QED BY <2>2, <2>4 DEF Eligible, RuleOf
      <2>7. QED
            BY <2>5, <2>6 DEF cast
<1>2. QED
      BY <1>1, Invariant, PTL DEF Spec, QuorumAtRedemption

\* An approval bound to one press of the bell grants nothing to a later one.
THEOREM VisitorIsCurrent == Spec => VisitorIsTheApprovedOne
<1> DEFINE A == \A a \in Actions :
                  ~grant[a].granted /\ grant'[a].granted /\ grant'[a].via # None =>
                  approvals[grant'[a].via].binding.press \in {NoPress, press}
<1>1. Inv /\ [Next]_vars => [A]_vars
      <2> SUFFICES ASSUME Inv, Next, NEW a \in Actions, ~grant[a].granted,
                          grant'[a].granted, grant'[a].via # None
                   PROVE  approvals[grant'[a].via].binding.press \in {NoPress, press}
          OBVIOUS
      <2> DEFINE i == grant'[a].via
      <2>1. i \in Ids /\ ~NewerPress(i)
            BY NewGrant
      <2> HIDE DEF i
      <2>2. approvals[i].binding.press \in 0..MaxPress /\ press \in 0..MaxPress
            BY <2>1 DEF Inv, TypeOK, Approval, Binding
      <2>3. approvals[i].binding.press <= press
            BY <2>1 DEF Inv, PressHappened
      <2>4. approvals[i].binding.press \in {NoPress, press}
            <3> DEFINE b == approvals[i].binding.press
            <3>1. b \in Int /\ press \in Int
                  BY <2>2
            <3>2. ~(b # NoPress /\ press > b) /\ b <= press
                  BY <2>1, <2>3 DEF NewerPress
            <3> HIDE DEF b
            <3>3. b \in {NoPress, press}
                  BY <3>1, <3>2
            <3>4. QED
                  BY <3>3 DEF b
      <2>5. QED
            BY <2>4 DEF i
<1>2. QED
      BY <1>1, Invariant, PTL DEF Spec, VisitorIsTheApprovedOne
-----------------------------------------------------------------------------
(* The daily budget.                                                       *)

\* What a set of actions reserved, and the grants of a day.
Spent(table, S) == MapThenSumSet(LAMBDA a : table[a].reserved, S)
Reserved(table) == [a \in Actions |-> table[a].reserved]
GrantedOn(table, d) == {a \in Actions : table[a].granted /\ DayOf(table[a].at) = d}
Caps == {Rule[p][a].cap : p \in Policies, a \in Actions}

LEMMA SpentIsSum ==
    ASSUME NEW table, NEW S \in SUBSET Actions
    PROVE  Spent(table, S) = SumOn(Reserved(table), S)
<1> DEFINE f == Reserved(table)
           Q(g) == g = [s \in SUBSET S |-> IF s = {} THEN 0
                                           ELSE table[Chosen(s)].reserved + g[s \ {Chosen(s)}]]
<1>1. IsFiniteSet(S)
      BY FS_Subset, ConstantsAssumption
<1>2. ASSUME NEW g
      PROVE  Q(g) <=> Adds(g, f, S)
      <2>1. \A s \in SUBSET S : s # {} => f[Chosen(s)] = table[Chosen(s)].reserved
            BY ChosenIn DEF Reserved
      <2>2. [s \in SUBSET S |-> IF s = {} THEN 0 ELSE table[Chosen(s)].reserved + g[s \ {Chosen(s)}]]
            = [s \in SUBSET S |-> IF s = {} THEN 0 ELSE f[Chosen(s)] + g[s \ {Chosen(s)}]]
            <3> HIDE DEF f
            <3>1. QED
                  BY <2>1
      <2>3. QED
            BY <2>2 DEF Adds
<1>3. \E g : Q(g)
      BY <1>1, <1>2, AddsExists
<1>4. PICK h : h = CHOOSE g : Q(g)
      OBVIOUS
<1>5. Q(h)
      <2> HIDE DEF Q
      <2>1. QED
            BY <1>3, <1>4
<1>6. Spent(table, S) = h[S]
      BY <1>4 DEF Spent, MapThenSumSet, MapThenFoldSet, Chosen
<1>7. Adds(h, f, S)
      BY <1>2, <1>5
<1>8. h[S] = SumOn(f, S)
      <2> HIDE DEF f
      <2>1. QED
            BY <1>1, <1>7, SumAdds
<1>9. QED
      BY <1>6, <1>8

\* The largest cap is one, and no rule's cap is larger.
LEMMA LargestCap == Max(Caps) \in Nat /\ \A p \in Policies, a \in Actions : Rule[p][a].cap <= Max(Caps)
<1> DEFINE D == Policies \X Actions
           f == [x \in D |-> Rule[x[1]][x[2]].cap]
<1>1. IsFiniteSet(D) /\ D # {}
      <2>1. IsFiniteSet(Policies)
            BY FS_Interval, ConstantsAssumption DEF Policies
      <2>2. IsFiniteSet(Actions) /\ Actions # {} /\ 1 \in Policies
            BY ConstantsAssumption DEF Policies
      <2>3. D # {}
            <3>1. PICK a \in Actions : <<1, a>> \in D
                  BY <2>2
            <3>2. QED
                  BY <3>1
      <2>4. QED
            BY <2>1, <2>2, <2>3, FS_Product
<1>2. \A p \in Policies, a \in Actions : Rule[p][a].cap \in Nat
      BY ConstantsAssumption DEF RuleSpace
<1>3. \A x \in D : f[x] \in Nat
      BY <1>2
<1>4. PICK x \in D : \A y \in D : f[x] >= f[y]
      <2> HIDE DEF D, f
      <2>1. QED
            BY <1>1, <1>3, LargestExists
<1>5. PICK p \in Policies, a \in Actions : x = <<p, a>>
      OBVIOUS
<1>6. PICK c \in Nat : c = Rule[p][a].cap
      BY <1>2
<1>7. c \in Caps
      BY <1>6 DEF Caps
<1>8. \A q \in Policies, b \in Actions : Rule[q][b].cap <= c
      <2> SUFFICES ASSUME NEW q \in Policies, NEW b \in Actions PROVE Rule[q][b].cap <= c
          OBVIOUS
      <2>1. f[<<p, a>>] >= f[<<q, b>>]
            BY <1>4, <1>5
      <2>2. f[<<p, a>>] = c /\ f[<<q, b>>] = Rule[q][b].cap
            BY <1>6
      <2>3. QED
            BY <1>2, <1>6, <2>1, <2>2
<1>9. \A d \in Caps : d \in Nat /\ d <= c
      BY <1>2, <1>8 DEF Caps
<1>10. PICK m : m = Max(Caps)
      OBVIOUS
<1>11. m \in Caps /\ \A d \in Caps : m >= d
      BY <1>7, <1>9, <1>10 DEF Max
<1>12. m = c
      BY <1>7, <1>9, <1>11
<1>13. QED
      BY <1>6, <1>8, <1>10, <1>12

\* DailyBudget in these words.
LEMMA BudgetByDay ==
    /\ DailyBudget <=> \A d \in 0..DayOf(MaxTime) : Spent(grant, GrantedOn(grant, d)) <= Max(Caps)
    /\ DailyBudget' <=> \A d \in 0..DayOf(MaxTime) : Spent(grant', GrantedOn(grant', d)) <= Max(Caps)
<1>1. DailyBudget <=> \A d \in 0..DayOf(MaxTime) : Spent(grant, GrantedOn(grant, d)) <= Max(Caps)
      BY DEF DailyBudget, Spent, GrantedOn, Caps, MapThenSumSet, MapThenFoldSet
<1>2. DailyBudget' <=> \A d \in 0..DayOf(MaxTime) : Spent(grant', GrantedOn(grant', d)) <= Max(Caps)
      BY DEF DailyBudget, Spent, GrantedOn, Caps, MapThenSumSet, MapThenFoldSet
<1>3. QED
      BY <1>1, <1>2

\* A redemption passes the cap of its rule by nothing, and adds its own cost to
\* its own day alone.
LEMMA BudgetStep ==
    ASSUME Inv, [Next]_vars, DailyBudget
    PROVE  DailyBudget'
<1>1. CASE grant' = grant
      BY <1>1, BudgetByDay
<1>2. ASSUME NEW a \in Actions, NEW i \in Ids \cup {None}, NEW told \in BOOLEAN, NEW lag \in Lag,
             RedeemGrant(a, i, told, lag), NEW d \in 0..DayOf(MaxTime)
      PROVE  Spent(grant', GrantedOn(grant', d)) <= Max(Caps)
      <2>1. ~grant[a].granted /\ ~OverBudget(a, Cost[a])
            BY <1>2 DEF RedeemGrant, Authorized, Presented, Denied
      <2>2. /\ grant'[a].granted /\ grant'[a].at = now /\ grant'[a].reserved = Cost[a]
            /\ \A b \in Actions \ {a} : grant'[b] = grant[b]
            BY <1>2 DEF RedeemGrant, Inv, TypeOK
      <2>3. \A b \in Actions : Reserved(grant)[b] \in Nat /\ Reserved(grant')[b] \in Nat
            <3>1. \A b \in Actions : grant[b].reserved \in Nat
                  BY DEF Inv, TypeOK, Grant
            <3>2. Cost[a] \in Nat
                  BY ConstantsAssumption
            <3>3. QED
                  BY <2>2, <3>1, <3>2 DEF Reserved
      <2>4. PICK S \in SUBSET Actions : S = GrantedOn(grant, d)
            BY DEF GrantedOn
      <2>5. a \notin S /\ IsFiniteSet(S) /\ IsFiniteSet(Actions)
            BY <2>1, <2>4, FS_Subset, ConstantsAssumption DEF GrantedOn
      <2>6. SumOn(Reserved(grant'), S) = SumOn(Reserved(grant), S)
            <3>1. \A b \in S : Reserved(grant')[b] = Reserved(grant)[b]
                  BY <2>2, <2>5 DEF Reserved
            <3>2. QED
                  BY <2>5, <3>1, SumSame
      <2>7. CASE DayOf(now) = d
            <3>1. PICK Z \in SUBSET Actions : Z = S \cup {a}
                  OBVIOUS
            <3>2. GrantedOn(grant', d) = Z
                  BY <2>2, <2>4, <2>7, <3>1 DEF GrantedOn
            <3>3. SumOn(Reserved(grant'), Z) = Cost[a] + SumOn(Reserved(grant'), S)
                  <4>1. Z \ {a} = S /\ a \in Z
                        BY <2>5, <3>1
                  <4>2. SumOn(Reserved(grant'), Z)
                            = Reserved(grant')[a] + SumOn(Reserved(grant'), Z \ {a})
                        BY <2>3, <2>5, <4>1, SumTake
                  <4>3. Reserved(grant')[a] = Cost[a]
                        BY <2>2 DEF Reserved
                  <4>4. QED
                        BY <4>1, <4>2, <4>3
            <3>4. Usage = Spent(grant, S)
                  BY <2>4, <2>7 DEF Usage, Spent, GrantedOn
            <3>5. Spent(grant, S) = SumOn(Reserved(grant), S)
                  BY SpentIsSum
            <3>6. SumOn(Reserved(grant), S) \in Nat /\ Cost[a] \in Nat
                  BY <2>3, <2>5, SumType, ConstantsAssumption
            <3>7. /\ policy \in Policies /\ RuleOf(a).cap \in Nat
                  BY ConstantsAssumption DEF Inv, TypeOK, RuleOf, RuleSpace
            <3>8. SumOn(Reserved(grant), S) + Cost[a] <= RuleOf(a).cap
                  <4>1. ~(SumOn(Reserved(grant), S) + Cost[a] > RuleOf(a).cap)
                        BY <2>1, <3>4, <3>5 DEF OverBudget
                  <4>2. QED
                        BY <3>6, <3>7, <4>1
            <3>9. RuleOf(a).cap <= Max(Caps)
                  BY <3>7, LargestCap DEF RuleOf
            <3>10. Spent(grant', Z) = Cost[a] + SumOn(Reserved(grant), S)
                  BY <2>6, <3>3, SpentIsSum
            <3>11. QED
                  BY <3>2, <3>6, <3>7, <3>8, <3>9, <3>10, LargestCap
      <2>8. CASE DayOf(now) # d
            <3>1. GrantedOn(grant', d) = S
                  BY <2>1, <2>2, <2>4, <2>8 DEF GrantedOn
            <3>2. Spent(grant', S) = Spent(grant, S)
                  BY <2>6, SpentIsSum
            <3>3. QED
                  BY <2>4, <3>1, <3>2, BudgetByDay
      <2>9. QED
            BY <2>7, <2>8
<1>3. CASE \E a \in Actions, i \in Ids \cup {None}, told \in BOOLEAN, lag \in Lag :
                RedeemGrant(a, i, told, lag)
      <2>1. PICK a \in Actions, i \in Ids \cup {None}, told \in BOOLEAN, lag \in Lag :
                RedeemGrant(a, i, told, lag)
            BY <1>3
      <2>2. \A d \in 0..DayOf(MaxTime) : Spent(grant', GrantedOn(grant', d)) <= Max(Caps)
            BY <1>2, <2>1
      <2>3. QED
            BY <2>2, BudgetByDay
<1>4. QED
      BY <1>1, <1>3, RowsMove DEF Inv

\* Nothing is reserved before the first grant.
LEMMA InitBudget == Init => DailyBudget
<1> SUFFICES ASSUME Init, NEW d \in 0..DayOf(MaxTime)
             PROVE  Spent(grant, GrantedOn(grant, d)) <= Max(Caps)
    BY BudgetByDay
<1>1. GrantedOn(grant, d) = {}
      BY DEF Init, GrantedOn, NoGrant
<1>2. Spent(grant, {}) = 0
      BY SpentIsSum, SumEmpty
<1>3. QED
      BY <1>1, <1>2, LargestCap

\* usage: no day's grants reserve more than the largest daily cap of any
\* constitution version, however many proposals were assessed against the same
\* remaining budget before one of them was redeemed (authorization.py: the
\* budget is assessed again in the transaction of the redemption).
THEOREM SpendingIsCapped == Spec => []DailyBudget
<1>1. Inv /\ DailyBudget /\ [Next]_vars => DailyBudget'
      BY BudgetStep
<1>2. QED
      BY <1>1, InitBudget, Invariant, PTL DEF Spec

-----------------------------------------------------------------------------
(* Counting up and down, and functions defined along the way.              *)

\* What holds of 0 and passes from each number to the next holds up to n.
LEMMA Rising ==
    ASSUME NEW n \in Nat, NEW G, 0 \in G, \A k \in 1..n : k - 1 \in G => k \in G
    PROVE  \A k \in 0..n : k \in G
<1> DEFINE T == {s \in SUBSET (0..n) : \A k \in 0..n : s = 0..k => k \in G}
<1>1. ASSUME NEW s \in SUBSET (0..n), \A u \in SUBSET s : u # s => u \in T,
             NEW k \in 0..n, s = 0..k
      PROVE  k \in G
      <2>1. CASE k = 0
            BY <2>1
      <2>2. CASE k # 0
            <3>1. k - 1 \in 0..n /\ k \in 1..n /\ 0..(k - 1) \in SUBSET s /\ 0..(k - 1) # s
                  <4>1. k \in 0..k /\ k \notin 0..(k - 1)
                        OBVIOUS
                  <4>2. QED
                        BY <1>1, <2>2, <4>1
            <3>2. 0..(k - 1) \in T
                  BY <1>1, <3>1
            <3>3. k - 1 \in G
                  BY <3>1, <3>2
            <3>4. QED
                  BY <3>1, <3>3
      <2>3. QED
            BY <2>1, <2>2
<1>2. \A s \in SUBSET (0..n) : (\A u \in SUBSET s : u # s => u \in T) => s \in T
      BY <1>1
<1>3. IsFiniteSet(0..n)
      BY FS_Interval
<1>4. \A s \in SUBSET (0..n) : s \in T
      <2> HIDE DEF T
      <2>1. QED
            BY <1>2, <1>3, FiniteInduction
<1>5. \A k \in 0..n : 0..k \in SUBSET (0..n)
      OBVIOUS
<1>6. QED
      BY <1>4, <1>5

\* And downwards, from n + 1 to 1.
LEMMA Falling ==
    ASSUME NEW n \in Nat, NEW G, n + 1 \in G, \A k \in 1..n : k + 1 \in G => k \in G
    PROVE  \A k \in 1..(n + 1) : k \in G
<1> DEFINE H == {k \in 0..n : n + 1 - k \in G}
<1>1. 0 \in H
      OBVIOUS
<1>2. \A k \in 1..n : k - 1 \in H => k \in H
      <2> SUFFICES ASSUME NEW k \in 1..n, k - 1 \in H PROVE k \in H
          OBVIOUS
      <2>1. n + 1 - (k - 1) \in G /\ n + 1 - (k - 1) = (n + 1 - k) + 1 /\ n + 1 - k \in 1..n
            OBVIOUS
      <2>2. n + 1 - k \in G
            BY <2>1
      <2>3. QED
            BY <2>2
<1>3. \A k \in 0..n : k \in H
      <2> HIDE DEF H
      <2>1. QED
            BY <1>1, <1>2, Rising
<1>4. \A k \in 1..(n + 1) : n + 1 - k \in 0..n /\ n + 1 - (n + 1 - k) = k
      OBVIOUS
<1>5. \A k \in 1..(n + 1) : n + 1 - k \in H
      BY <1>3, <1>4
<1>6. QED
      BY <1>4, <1>5

\* F leads from each value to another, at each of n steps.
Leads(F, n, V) == \A k \in 1..n : \A v \in V : F[k][v] \in V

\* A value and a way on from each give a value at every number.
LEMMA Iterates ==
    ASSUME NEW n \in Nat, NEW V, NEW a \in V, NEW F, Leads(F, n, V)
    PROVE  \E g \in [0..n -> V] : g[0] = a /\ \A k \in 1..n : g[k] = F[k][g[k - 1]]
<1> DEFINE Runs(g, m) == g[0] = a /\ \A k \in 1..m : g[k] = F[k][g[k - 1]]
           G == {m \in 0..n : \E g \in [0..m -> V] : Runs(g, m)}
<1>1. 0 \in G
      <2>1. [k \in 0..0 |-> a] \in [0..0 -> V] /\ Runs([k \in 0..0 |-> a], 0)
            OBVIOUS
      <2>2. 0 \in 0..n
            OBVIOUS
      <2> HIDE DEF Runs
      <2>3. QED
            BY <2>1, <2>2
<1>2. ASSUME NEW m \in 1..n, m - 1 \in G PROVE m \in G
      <2>1. PICK g \in [0..(m - 1) -> V] : Runs(g, m - 1)
            BY <1>2
      <2> DEFINE h == [k \in 0..m |-> IF k < m THEN g[k] ELSE F[m][g[m - 1]]]
      <2>2. g[m - 1] \in V /\ F[m][g[m - 1]] \in V
            BY <2>1 DEF Leads
      <2>3. h \in [0..m -> V]
            BY <2>2
      <2>4. h[0] = a
            BY <2>1
      <2>5. ASSUME NEW k \in 1..m PROVE h[k] = F[k][h[k - 1]]
            <3>1. CASE k < m
                  <4>1. h[k] = g[k] /\ h[k - 1] = g[k - 1] /\ k \in 1..(m - 1)
                        BY <3>1
                  <4>2. QED
                        BY <2>1, <4>1
            <3>2. CASE k = m
                  <4>1. h[k] = F[m][g[m - 1]] /\ h[k - 1] = g[m - 1]
                        BY <3>2
                  <4>2. QED
                        BY <3>2, <4>1
            <3>3. QED
                  BY <3>1, <3>2
      <2>6. Runs(h, m)
            BY <2>4, <2>5
      <2> HIDE DEF h, Runs
      <2>7. QED
            BY <2>3, <2>6
<1>3. n \in G
      <2> HIDE DEF G
      <2>1. \A k \in 0..n : k \in G
            BY <1>1, <1>2, Rising
      <2>2. QED
            BY <2>1
<1>4. QED
      BY <1>3

\* The same from n + 1 downwards.
LEMMA Descends ==
    ASSUME NEW n \in Nat, NEW V, NEW a \in V, NEW F, Leads(F, n, V)
    PROVE  \E g \in [1..(n + 1) -> V] :
              g[n + 1] = a /\ \A k \in 1..n : g[k] = F[k][g[k + 1]]
<1> DEFINE H == [k \in 1..n |-> F[n + 1 - k]]
<1>1. \A k \in 1..n : n + 1 - k \in 1..n
      OBVIOUS
<1>2. Leads(H, n, V)
      BY <1>1 DEF Leads
<1>3. PICK h \in [0..n -> V] : h[0] = a /\ \A k \in 1..n : h[k] = H[k][h[k - 1]]
      <2> HIDE DEF H
      <2>1. QED
            BY <1>2, Iterates
<1> DEFINE g == [k \in 1..(n + 1) |-> h[n + 1 - k]]
<1>4. g \in [1..(n + 1) -> V] /\ g[n + 1] = a
      BY <1>3
<1>5. ASSUME NEW k \in 1..n PROVE g[k] = F[k][g[k + 1]]
      <2>1. n + 1 - k \in 1..n /\ n + 1 - (n + 1 - k) = k /\ n + 1 - (k + 1) = n + 1 - k - 1
            OBVIOUS
      <2>2. g[k] = h[n + 1 - k] /\ g[k + 1] = h[n + 1 - k - 1]
            BY <2>1
      <2>3. h[n + 1 - k] = H[n + 1 - k][h[n + 1 - k - 1]]
            BY <1>3, <2>1
      <2>4. H[n + 1 - k] = F[k]
            BY <2>1
      <2>5. QED
            BY <2>2, <2>3, <2>4
<1> HIDE DEF g
<1>6. QED
      BY <1>4, <1>5

-----------------------------------------------------------------------------
(* Least and largest elements.                                             *)

LEMMA Extremes ==
    ASSUME NEW S \in SUBSET Int, S # {}, IsFiniteSet(S)
    PROVE  /\ Max(S) \in S /\ \A x \in S : x <= Max(S)
           /\ Min(S) \in S /\ \A x \in S : Min(S) <= x
<1> DEFINE T == {s \in SUBSET S : s # {} => /\ \E x \in s : \A y \in s : x >= y
                                            /\ \E x \in s : \A y \in s : x <= y}
<1>1. ASSUME NEW s \in SUBSET S, \A u \in SUBSET s : u # s => u \in T PROVE s \in T
      <2> SUFFICES ASSUME s # {}
                   PROVE  /\ \E x \in s : \A y \in s : x >= y
                          /\ \E x \in s : \A y \in s : x <= y
          OBVIOUS
      <2>1. PICK c \in s : TRUE
            OBVIOUS
      <2>2. CASE s = {c}
            BY <2>2
      <2>3. CASE s # {c}
            <3>1. s \ {c} \in SUBSET s /\ s \ {c} # s /\ s \ {c} # {}
                  BY <2>1, <2>3
            <3>2. s \ {c} \in T
                  BY <1>1, <3>1
            <3>3. PICK x \in s \ {c} : \A y \in s \ {c} : x >= y
                  BY <3>1, <3>2
            <3>4. PICK z \in s \ {c} : \A y \in s \ {c} : z <= y
                  BY <3>1, <3>2
            <3>5. \E v \in s : \A y \in s : v >= y
                  <4>1. CASE x >= c
                        BY <3>3, <4>1
                  <4>2. CASE c >= x
                        BY <3>3, <4>2
                  <4>3. QED
                        BY <4>1, <4>2
            <3>6. \E v \in s : \A y \in s : v <= y
                  <4>1. CASE z <= c
                        BY <3>4, <4>1
                  <4>2. CASE c <= z
                        BY <3>4, <4>2
                  <4>3. QED
                        BY <4>1, <4>2
            <3>7. QED
                  BY <3>5, <3>6
      <2>4. QED
            BY <2>2, <2>3
<1>2. S \in T
      <2> HIDE DEF T
      <2>1. QED
            BY <1>1, FiniteInduction
<1>3. /\ \E x \in S : \A y \in S : x >= y
      /\ \E x \in S : \A y \in S : x <= y
      BY <1>2
<1>4. Max(S) \in S /\ \A y \in S : Max(S) >= y
      BY <1>3 DEF Max
<1>5. Min(S) \in S /\ \A y \in S : Min(S) <= y
      BY <1>3 DEF Min
<1>6. QED
      BY <1>4, <1>5

-----------------------------------------------------------------------------
(* Types: the devices, the planner's input and schedules.                  *)

\* What the assumptions say of the constants.
LEMMA Figures ==
    /\ End \in Nat /\ Minute \in Nat \ {0} /\ Charger \in Nat \ {0} /\ Power \in Nat \ {0}
    /\ Loss \in Nat \ {0} /\ Resistance \in Nat \ {0} /\ Cycle \in Nat \ {0}
    /\ Full \in Int /\ Capacity \in Int /\ Reserve \in Int /\ Hvac \in Int /\ Outdoor \in Int
    /\ N \in Nat \ {0} /\ SlotTicks \in Nat \ {0}
    /\ Price \in [Slots -> Int] /\ Solar \in [Slots -> Int] /\ Outside \in [Slots -> Int]
    /\ BaseLoad \in Int /\ ApplianceLoad \in Int /\ Wear \in Int
    /\ IsFiniteSet(Rates) /\ Rates \subseteq Int /\ 0 \in Rates /\ Free \notin Int
BY TwinAssumption, PlannerAssumption

LEMMA SlotsFinite ==
    /\ IsFiniteSet(Slots) /\ Slots \subseteq Int /\ Slots \subseteq 0..N
    /\ \A S \in SUBSET Slots : IsFiniteSet(S) /\ S \subseteq Int
<1>1. IsFiniteSet(Slots) /\ Slots \subseteq Int /\ Slots \subseteq 0..N
      BY FS_Interval, Figures DEF Slots
<1>2. QED
      BY <1>1, FS_Subset

\* A descent over the slots: Descends at N.
LEMMA SlotsDescend ==
    ASSUME NEW V, NEW a \in V, NEW F, Leads(F, N, V)
    PROVE  \E g \in [1..(N + 1) -> V] :
              g[N + 1] = a /\ \A k \in 1..N : g[k] = F[k][g[k + 1]]
<1>1. N \in Nat
      BY Figures
<1>2. QED
      BY <1>1, Descends

LEMMA Products == \A a, b \in Int : a * b \in Int
OBVIOUS

LEMMA Quotients ==
    ASSUME NEW a \in Int, NEW b \in Nat \ {0}
    PROVE  a \div b \in Int /\ (a >= 0 => a \div b >= 0)
OBVIOUS

LEMMA Comparisons ==
    ASSUME NEW a \in Int, NEW b \in Int
    PROVE  /\ Least(a, b) \in {a, b} /\ Least(a, b) <= a /\ Least(a, b) <= b
           /\ Most(a, b) \in {a, b} /\ Most(a, b) >= a /\ Most(a, b) >= b
           /\ Abs(a) \in Nat
           /\ Least(a, b) \in Int /\ Most(a, b) \in Int
BY DEF Least, Most, Abs

LEMMA EVType ==
    ASSUME NEW e \in EVs, NEW d \in Int
    PROVE  EVAdvance(e, d) \in EVs
<1>1. e.soc + Charger * d \in Int
      BY Figures, Products DEF EVs
<1>2. Least(e.limit, e.soc + Charger * d) \in Int
      BY <1>1, Comparisons DEF EVs
<1>3. QED
      BY <1>2 DEF EVAdvance, EVs

LEMMA BatteryType ==
    ASSUME NEW b \in Batteries, NEW d \in Int
    PROVE  Stored(b, d) \in Int /\ Outgoing(b, d) \in Int /\ BatteryAdvance(b, d) \in Batteries
<1> DEFINE requested == Least(Abs(b.rate), Power) * d
<1>0. b.rate \in Int /\ b.soc \in Int
      BY DEF Batteries
<1>1. requested \in Int
      <2>1. Least(Abs(b.rate), Power) \in Int
            BY <1>0, Figures DEF Least, Abs
      <2>2. QED
            BY <2>1, Products
<1>2. requested * Loss \in Int /\ requested \div Loss \in Int
      BY <1>1, Figures, Products, Quotients
<1>3. b.soc - Reserve \in Int /\ Capacity - b.soc \in Int
      BY <1>0, Figures
<1>4. Stored(b, d) \in Int
      <2>1. Least(requested * Loss, Most(0, b.soc - Reserve)) \in Int
            BY <1>2, <1>3 DEF Least, Most
      <2>2. -Least(requested \div Loss, Capacity - b.soc) \in Int
            BY <1>2, <1>3 DEF Least, Most
      <2>3. QED
            BY <2>1, <2>2 DEF Stored
<1>5. Outgoing(b, d) \in Int
      BY <1>4, Figures, Products, Quotients DEF Outgoing
<1>6. QED
      BY <1>0, <1>4, <1>5 DEF BatteryAdvance, Batteries

LEMMA ZoneType ==
    ASSUME NEW z \in Zones, NEW d \in Int
    PROVE  Passive(z, d) \in Int /\ Heat(z, d) \in Int /\ ZoneAdvance(z, d) \in Zones
<1>0. z.temp \in Int /\ z.target \in Int
      BY DEF Zones
<1>1. Passive(z, d) \in Int
      <2>1. (Outdoor - z.temp) * d \in Int
            BY <1>0, Figures, Products
      <2>2. QED
            BY <2>1, Figures, Quotients DEF Passive
<1>2. Heat(z, d) \in Int
      <2> DEFINE needed == z.target - z.temp - Passive(z, d)
      <2>1. needed \in Int
            BY <1>0, <1>1
      <2>2. Hvac * d \in Int /\ -Hvac * d \in Int
            BY Figures, Products
      <2>3. Least(Hvac * d, Most(0, needed)) \in Int /\ Most(-Hvac * d, Least(0, needed)) \in Int
            BY <2>1, <2>2 DEF Least, Most
      <2>4. QED
            BY <2>3 DEF Heat
<1>3. QED
      BY <1>0, <1>1, <1>2 DEF ZoneAdvance, Zones

LEMMA ApplianceType ==
    ASSUME NEW a \in Appliances, NEW d \in Int
    PROVE  ApplianceAdvance(a, d) \in Appliances /\ ApplianceAdvance(a, d).left >= 0
<1>0. a.left \in Int /\ a.done \in Int
      BY DEF Appliances
<1>1. Most(0, a.left - d) \in Int /\ Most(0, a.left - d) >= 0
      BY <1>0 DEF Most
<1>2. QED
      BY <1>0, <1>1 DEF ApplianceAdvance, Appliances

\* What is summed up over slots is a number.
LEMMA UptoType ==
    ASSUME NEW f \in [Slots -> Int]
    PROVE  \A i \in 0..N : Upto(f, i) \in Int
<1> DEFINE Sum == CHOOSE S : S = [k \in 0..N |-> IF k = 0 THEN 0 ELSE S[k - 1] + f[k]]
           V == Int
           a == 0
           F == [k \in 1..N |-> [v \in V |-> v + f[k]]]
<1>1. Leads(F, N, V) /\ N \in Nat /\ a \in V
      BY Figures DEF Leads, Slots
<1>2. PICK g \in [0..N -> V] : g[0] = a /\ \A k \in 1..N : g[k] = F[k][g[k - 1]]
      <2> HIDE DEF F, V, a
      <2>1. QED
            BY <1>1, Iterates
<1>3. \A k \in 1..N : g[k] = g[k - 1] + f[k]
      <2> SUFFICES ASSUME NEW k \in 1..N PROVE g[k] = g[k - 1] + f[k]
          OBVIOUS
      <2>1. g[k - 1] \in Int
            BY Figures
      <2>2. QED
            BY <1>2, <2>1
<1>4. g = [k \in 0..N |-> IF k = 0 THEN 0 ELSE g[k - 1] + f[k]]
      BY <1>2, <1>3, Figures
<1>5. Sum = [k \in 0..N |-> IF k = 0 THEN 0 ELSE Sum[k - 1] + f[k]]
      BY <1>4
<1> DEFINE G == {k \in 0..N : Sum[k] \in Int}
<1> HIDE DEF Sum
<1>6. 0 \in G /\ \A k \in 1..N : k - 1 \in G => k \in G
      <2>1. N \in Nat /\ Sum[0] = 0 /\ \A k \in 1..N : Sum[k] = Sum[k - 1] + f[k]
            BY <1>5, Figures
      <2>2. \A k \in 1..N : f[k] \in Int
            BY DEF Slots
      <2>3. ASSUME NEW k \in 1..N, Sum[k - 1] \in Int PROVE Sum[k] \in Int
            BY <2>1, <2>2, <2>3
      <2>4. QED
            BY <2>1, <2>3
<1>7. \A k \in 0..N : k \in G
      <2> HIDE DEF G
      <2>1. QED
            BY <1>6, Rising, Figures
<1>8. QED
      BY <1>7 DEF Upto, Sum

LEMMA TotalType == ASSUME NEW f \in [Slots -> Int] PROVE Total(f) \in Int
BY UptoType, Figures DEF Total

Constraints == [kind : Kinds, at : Int, from : Int, to : Int]

LEMMA InputFacts ==
    ASSUME NEW p \in PlannerInputs
    PROVE  /\ p.ev \in EVs /\ p.battery \in Batteries /\ p.zone \in Zones
           /\ p.appliance \in Appliances
           /\ p.target \in Int /\ p.deadline \in Int /\ p.release \in Int
           /\ p.applianceDeadline \in Int
           /\ p.lower \in [1..N + 1 -> Int] /\ p.upper \in [1..N + 1 -> Int]
           /\ p.targets \in [Slots -> Int] /\ p.preferences \in [Slots -> Maybe(Int)]
           /\ p.constraints \in Seq(Constraints)
           /\ p.held \in [Slots -> Maybe(Int)] /\ p.fixedEv \in [Slots -> Maybe(Int)]
           /\ p.fixedBattery \in [Slots -> Maybe(Int)] /\ p.step \in Nat
           /\ p.taste \in [Residents -> Maybe(Int)]
BY DEF PlannerInputs, Constraints

\* The image of a finite set is finite.
LEMMA Images ==
    ASSUME NEW S, IsFiniteSet(S), NEW f
    PROVE  IsFiniteSet({f[x] : x \in S})
<1> DEFINE T == {f[x] : x \in S}
           g == [x \in S |-> f[x]]
<1>1. g \in Surjection(S, T)
      BY DEF Surjection
<1> HIDE DEF g, T
<1>2. IsFiniteSet(T)
      BY <1>1, FS_Surjection
<1>3. QED
      BY <1>2 DEF T

LEMMA Fields ==
    ASSUME NEW S, IsFiniteSet(S)
    PROVE  /\ IsFiniteSet({r.at : r \in S}) /\ IsFiniteSet({r.to : r \in S})
           /\ IsFiniteSet({r.upper : r \in S})
<1> DEFINE A == [r \in S |-> r.at]
           B == [r \in S |-> r.to]
           C == [r \in S |-> r.upper]
<1>1. /\ {A[r] : r \in S} = {r.at : r \in S} /\ {B[r] : r \in S} = {r.to : r \in S}
      /\ {C[r] : r \in S} = {r.upper : r \in S}
      OBVIOUS
<1> HIDE DEF A, B, C
<1>2. IsFiniteSet({A[r] : r \in S}) /\ IsFiniteSet({B[r] : r \in S}) /\ IsFiniteSet({C[r] : r \in S})
      BY Images
<1>3. QED
      BY <1>1, <1>2

LEMMA Elements ==
    ASSUME NEW S, NEW s \in Seq(S)
    PROVE  /\ DOMAIN s = 1..Len(s) /\ Len(s) \in Nat
           /\ ToSet(s) \subseteq S /\ IsFiniteSet(ToSet(s)) /\ IsFiniteSet(DOMAIN s)
<1>1. DOMAIN s = 1..Len(s) /\ Len(s) \in Nat /\ \A i \in 1..Len(s) : s[i] \in S
      OBVIOUS
<1>2. IsFiniteSet(DOMAIN s)
      BY <1>1, FS_Interval
<1>3. IsFiniteSet(ToSet(s))
      BY <1>2, Images DEF ToSet
<1>4. QED
      BY <1>1, <1>2, <1>3 DEF ToSet

\* What the constraints come to.
LEMMA EffectiveFacts ==
    ASSUME NEW p \in PlannerInputs
    PROVE  LET own == effective(p)
               targets == {k \in DOMAIN p.constraints : p.constraints[k].kind = "ev_target"}
           IN /\ own.target \in Int /\ own.evStart \in Int /\ own.release \in Int
              /\ \A c \in ToSet(p.constraints) :
                    /\ c.kind = "ev_not_before" => c.at <= own.evStart
                    /\ c.kind = "appliance_not_before" => c.at <= own.release
              /\ targets # {} => \E k \in targets : /\ \A j \in targets : j <= k
                                                    /\ own.target = p.constraints[k].at
<1> DEFINE cs == p.constraints
           Kind(kind) == {x \in ToSet(cs) : x.kind = kind}
           Times(kind) == {c.at : c \in Kind(kind)}
           targets == {k \in DOMAIN cs : cs[k].kind = "ev_target"}
           own == effective(p)
<1>1. cs \in Seq(Constraints) /\ p.target \in Int /\ p.release \in Int
      BY InputFacts
<1>2. /\ DOMAIN cs = 1..Len(cs) /\ Len(cs) \in Nat /\ ToSet(cs) \subseteq Constraints
      /\ IsFiniteSet(ToSet(cs)) /\ IsFiniteSet(DOMAIN cs)
      BY <1>1, Elements
<1>3. ASSUME NEW kind PROVE Times(kind) \subseteq Int /\ IsFiniteSet(Times(kind))
      <2>1. IsFiniteSet(Kind(kind))
            BY <1>2, FS_Subset
      <2>2. IsFiniteSet(Times(kind))
            BY <2>1, Fields
      <2>3. QED
            BY <1>2, <2>2 DEF Constraints
<1>4. ASSUME NEW n \in Int, NEW kind
      PROVE  Max({n} \cup Times(kind)) \in Int /\ \A x \in Times(kind) : x <= Max({n} \cup Times(kind))
      <2> DEFINE S == {n} \cup Times(kind)
      <2>1. S \subseteq Int /\ IsFiniteSet(S) /\ S # {} /\ \A x \in Times(kind) : x \in S
            <3>1. S = Times(kind) \cup {n}
                  OBVIOUS
            <3>2. Times(kind) \subseteq Int /\ IsFiniteSet(Times(kind))
                  BY <1>3
            <3> HIDE DEF Times
            <3>3. IsFiniteSet(S)
                  BY <3>1, <3>2, FS_AddElement
            <3>4. QED
                  BY <3>2, <3>3
      <2> HIDE DEF S
      <2>2. Max(S) \in S /\ \A x \in S : x <= Max(S)
            BY <2>1, Extremes
      <2>3. QED
            BY <2>1, <2>2 DEF S
<1>5. /\ own.target = IF targets = {} THEN p.target ELSE cs[Max(targets)].at
      /\ own.evStart = Max({0} \cup Times("ev_not_before"))
      /\ own.release = Max({p.release} \cup Times("appliance_not_before"))
      BY DEF effective
<1>6. targets # {} => Max(targets) \in targets /\ \A j \in targets : j <= Max(targets)
      <2>1. targets \subseteq Int /\ IsFiniteSet(targets)
            BY <1>2, FS_Subset
      <2>2. QED
            BY <2>1, Extremes
<1>7. own.target \in Int
      <2>1. \A k \in DOMAIN cs : cs[k].at \in Int
            <3>1. \A c \in Constraints : c.at \in Int
                  BY DEF Constraints
            <3>2. \A k \in DOMAIN cs : cs[k] \in Constraints
                  BY <1>1, Elements DEF ToSet
            <3>3. QED
                  BY <3>1, <3>2
      <2>2. QED
            <3>1. CASE targets = {}
                  BY <1>1, <1>5, <3>1
            <3>2. CASE targets # {}
                  <4>1. Max(targets) \in DOMAIN cs
                        BY <1>6, <3>2
                  <4> HIDE DEF targets
                  <4>2. QED
                        BY <1>5, <2>1, <3>2, <4>1
            <3>3. QED
                  BY <3>1, <3>2
<1>8. own.evStart \in Int /\ \A x \in Times("ev_not_before") : x <= own.evStart
      <2> HIDE DEF Times, own
      <2>1. 0 \in Int
            OBVIOUS
      <2>2. LET m == Max({0} \cup Times("ev_not_before"))
            IN  m \in Int /\ \A x \in Times("ev_not_before") : x <= m
            BY <1>4, <2>1
      <2>3. QED
            BY <1>5, <2>2
<1>9. own.release \in Int /\ \A x \in Times("appliance_not_before") : x <= own.release
      <2> HIDE DEF Times, own
      <2>1. LET m == Max({p.release} \cup Times("appliance_not_before"))
            IN  m \in Int /\ \A x \in Times("appliance_not_before") : x <= m
            BY <1>1, <1>4
      <2>2. QED
            BY <1>5, <2>1
<1>10. \A c \in ToSet(cs) : /\ c.kind = "ev_not_before" => c.at \in Times("ev_not_before")
                            /\ c.kind = "appliance_not_before" => c.at \in Times("appliance_not_before")
       OBVIOUS
<1> HIDE DEF own, Times
<1>11. targets # {} => \E k \in targets : /\ \A j \in targets : j <= k
                                          /\ own.target = cs[k].at
       BY <1>5, <1>6
<1>12. QED
       BY <1>7, <1>8, <1>9, <1>10, <1>11 DEF own

Modes == {"heat", "cool", "off"}
Schedules == [ev : [Slots -> Int], battery : [Slots -> Int], start : 0..N,
              targets : [Slots -> Int], modes : [Slots -> Modes]]
Replays == [ev : EVs, battery : Batteries, zone : Zones, appliance : Appliances,
            reasons : SUBSET Reasons, cost : Int, through : Int, exports : Seq(Int)]

LEMMA ScheduleFacts ==
    ASSUME NEW x \in Schedules, NEW i \in Slots
    PROVE  /\ x.ev[i] \in Int /\ x.battery[i] \in Int /\ x.targets[i] \in Int
           /\ x.modes[i] \in Modes /\ x.start \in 0..N
BY DEF Schedules

LEMMA OpeningType == ASSUME NEW p \in PlannerInputs PROVE Opening(p) \in Replays
BY InputFacts DEF Opening, Replays

\* A slot's replay.
LEMMA PartsType ==
    ASSUME NEW x \in Schedules, NEW i \in Slots, NEW r \in Replays
    PROVE  /\ Charging(x, i, r) \in EVs /\ Heated(x, i, r) \in Zones
           /\ Rated(x, i, r) \in Batteries /\ \A p : Begun(p, x, i, r) \in Appliances
<1>1. /\ x.ev[i] \in Int /\ x.battery[i] \in Int /\ x.targets[i] \in Int /\ x.modes[i] \in Modes
      BY ScheduleFacts
<1>2. r.ev \in EVs /\ r.appliance \in Appliances /\ r.zone \in Zones /\ r.battery \in Batteries
      BY DEF Replays
<1>3. Charging(x, i, r) \in EVs
      <2> DEFINE limit == Least(Full, r.ev.soc + x.ev[i])
                 e == [r.ev EXCEPT !.charging = x.ev[i] > 0, !.limit = limit]
      <2>1. limit \in Int
            BY <1>1, <1>2, Figures DEF EVs, Least
      <2>2. (x.ev[i] > 0) \in BOOLEAN
            OBVIOUS
      <2> HIDE DEF limit
      <2>3. e \in EVs
            BY <1>2, <2>1, <2>2 DEF EVs
      <2>4. QED
            BY <2>3 DEF Charging, limit
<1>4. ASSUME NEW p PROVE Begun(p, x, i, r) \in Appliances
      BY <1>2, Figures DEF Begun, Appliances
<1>5. Heated(x, i, r) \in Zones
      BY <1>1, <1>2 DEF Heated, Zones, Modes
<1>6. Rated(x, i, r) \in Batteries
      BY <1>1, <1>2 DEF Rated, Batteries
<1>7. QED
      BY <1>3, <1>4, <1>5, <1>6

LEMMA SlottedType ==
    ASSUME NEW p, NEW x \in Schedules, NEW i \in Slots, NEW r \in Replays
    PROVE  LET n == Slotted(p, x, i, r) IN
           /\ n.ev \in EVs /\ n.battery \in Batteries /\ n.zone \in Zones
           /\ n.appliance \in Appliances /\ n.appliance.left >= 0
<1>1. /\ Charging(x, i, r) \in EVs /\ Heated(x, i, r) \in Zones
      /\ Rated(x, i, r) \in Batteries /\ Begun(p, x, i, r) \in Appliances
      /\ SlotTicks \in Int
      BY PartsType, Figures
<1>2. EVAdvance(Charging(x, i, r), SlotTicks) \in EVs
      BY <1>1, EVType
<1>3. BatteryAdvance(Rated(x, i, r), SlotTicks) \in Batteries
      BY <1>1, BatteryType
<1>4. ZoneAdvance(Heated(x, i, r), SlotTicks) \in Zones
      BY <1>1, ZoneType
<1>5. /\ ApplianceAdvance(Begun(p, x, i, r), SlotTicks) \in Appliances
      /\ ApplianceAdvance(Begun(p, x, i, r), SlotTicks).left >= 0
      BY <1>1, ApplianceType
<1>6. QED
      BY <1>2, <1>3, <1>4, <1>5 DEF Slotted

LEMMA NetType ==
    ASSUME NEW p, NEW x \in Schedules, NEW i \in Slots, NEW r \in Replays
    PROVE  Net(p, x, i, r) \in Int
<1> DEFINE n == Slotted(p, x, i, r)
           load == BaseLoad * SlotTicks + (n.ev.soc - r.ev.soc)
                + ApplianceLoad * (Begun(p, x, i, r).left - n.appliance.left)
                + Abs(Heat(Heated(x, i, r), SlotTicks))
<1>1. n.ev.soc \in Int /\ r.ev.soc \in Int /\ n.appliance.left \in Int
      BY SlottedType DEF EVs, Appliances, Replays
<1>2. Begun(p, x, i, r).left \in Int
      BY PartsType DEF Appliances
<1>3. Abs(Heat(Heated(x, i, r), SlotTicks)) \in Int
      <2>1. Heated(x, i, r) \in Zones /\ SlotTicks \in Int
            BY PartsType, Figures
      <2>2. Heat(Heated(x, i, r), SlotTicks) \in Int
            BY <2>1, ZoneType
      <2>3. QED
            BY <2>2 DEF Abs
<1>4. ApplianceLoad * (Begun(p, x, i, r).left - n.appliance.left) \in Int
      BY <1>1, <1>2, Figures, Products
<1>5. BaseLoad * SlotTicks \in Int /\ Solar[i] * SlotTicks \in Int
      BY Figures, Products
<1>6. Outgoing(Rated(x, i, r), SlotTicks) \in Int
      <2>1. Rated(x, i, r) \in Batteries /\ SlotTicks \in Int
            BY PartsType, Figures
      <2>2. QED
            BY <2>1, BatteryType
<1> HIDE DEF n
<1>7. load - Outgoing(Rated(x, i, r), SlotTicks) - Solar[i] * SlotTicks \in Int
      BY <1>1, <1>3, <1>4, <1>5, <1>6
<1>8. QED
      BY <1>7 DEF Net, n

LEMMA RefusalsType ==
    ASSUME NEW p, NEW x, NEW i, NEW r, NEW n
    PROVE  Refusals(p, x, i, r, n) \subseteq Reasons
BY DEF Refusals

LEMMA SlotType ==
    ASSUME NEW p, NEW x \in Schedules, NEW i \in Slots, NEW r \in Replays
    PROVE  /\ ReplaySlot(p, x, i, r) \in Replays
           /\ Len(ReplaySlot(p, x, i, r).exports) = Len(r.exports) + 1
           /\ ReplaySlot(p, x, i, r).appliance.left >= 0
<1> DEFINE n == Slotted(p, x, i, r)
           net == Net(p, x, i, r)
           cost == r.cost + Most(0, net) * Price[i]
           through == r.through + Abs(Stored(Rated(x, i, r), SlotTicks))
           exports == Append(r.exports, Most(0, -net))
           reasons == r.reasons \cup Refusals(p, x, i, r, n)
<1>1. /\ n.ev \in EVs /\ n.battery \in Batteries /\ n.zone \in Zones
      /\ n.appliance \in Appliances /\ n.appliance.left >= 0
      BY SlottedType
<1>2. net \in Int
      BY NetType
<1>3. r.cost \in Int /\ r.through \in Int /\ r.exports \in Seq(Int) /\ r.reasons \subseteq Reasons
      BY DEF Replays
<1> HIDE DEF n, net
<1>4. cost \in Int
      <2>1. Most(0, net) \in Int /\ Price[i] \in Int
            BY <1>2, Figures DEF Most
      <2>2. Most(0, net) * Price[i] \in Int
            BY <2>1, Products
      <2>3. QED
            BY <1>3, <2>2
<1>5. through \in Int
      <2>1. Rated(x, i, r) \in Batteries /\ SlotTicks \in Int
            BY PartsType, Figures
      <2>2. Stored(Rated(x, i, r), SlotTicks) \in Int
            BY <2>1, BatteryType
      <2>3. QED
            BY <1>3, <2>2 DEF Abs
<1>6. exports \in Seq(Int) /\ Len(exports) = Len(r.exports) + 1
      <2>1. Most(0, -net) \in Int
            BY <1>2 DEF Most
      <2>2. QED
            BY <1>3, <2>1
<1>7. reasons \subseteq Reasons
      BY <1>3, RefusalsType
<1>8. ReplaySlot(p, x, i, r) =
        [ev |-> n.ev, battery |-> n.battery, zone |-> n.zone, appliance |-> n.appliance,
         cost |-> cost, through |-> through, exports |-> exports, reasons |-> reasons]
      BY DEF ReplaySlot, n, net
<1> HIDE DEF cost, through, exports, reasons
<1>9. QED
      BY <1>1, <1>4, <1>5, <1>6, <1>7, <1>8 DEF Replays

\* What a slot that is not refused shows.
LEMMA SlotAccepted ==
    ASSUME NEW p \in PlannerInputs, NEW x \in Schedules, NEW i \in Slots, NEW r \in Replays,
           ReplaySlot(p, x, i, r).reasons = {}
    PROVE  LET n == ReplaySlot(p, x, i, r) IN
           /\ r.reasons = {}
           /\ p.held[i] # Free => x.targets[i] = p.held[i]
           /\ x.ev[i] > 0 => Chargeable(p, i)
           /\ \A c \in Ceilings(p, i) : ~(n.ev.soc > c)
           /\ x.start = i => ~(Start(i) < effective(p).release)
           /\ Finish(i) >= p.applianceDeadline => ~Running(n.appliance)
           /\ ~(Least(r.zone.temp, n.zone.temp) < p.lower[i])
           /\ ~(Most(r.zone.temp, n.zone.temp) > p.upper[i])
<1> DEFINE n == Slotted(p, x, i, r)
           m == ReplaySlot(p, x, i, r)
<1>1. /\ m.reasons = r.reasons \cup Refusals(p, x, i, r, n)
      /\ m.ev = n.ev /\ m.zone = n.zone /\ m.appliance = n.appliance
      BY DEF ReplaySlot
<1>2. r.reasons = {} /\ Refusals(p, x, i, r, n) = {}
      BY <1>1
<1> HIDE DEF n, m
<1>3. \A why \in Reasons : why \notin Refusals(p, x, i, r, n)
      BY <1>2
<1>4. p.held[i] # Free => x.targets[i] = p.held[i]
      BY <1>3 DEF Refusals, Reasons
<1>5. x.ev[i] > 0 => Chargeable(p, i)
      BY <1>3 DEF Refusals, Reasons
<1>6. \A c \in Ceilings(p, i) : ~(n.ev.soc > c)
      BY <1>3 DEF Refusals, Reasons
<1>7. x.start = i => ~(Start(i) < effective(p).release)
      BY <1>3 DEF Refusals, Reasons
<1>8. Finish(i) >= p.applianceDeadline => ~Running(n.appliance)
      BY <1>3 DEF Refusals, Reasons
<1>9. /\ ~(Least(r.zone.temp, n.zone.temp) < p.lower[i])
      /\ ~(Most(r.zone.temp, n.zone.temp) > p.upper[i])
      BY <1>3 DEF Refusals, Reasons
<1>10. QED
      BY <1>1, <1>2, <1>4, <1>5, <1>6, <1>7, <1>8, <1>9 DEF m

\* The course of a schedule, slot after slot.
LEMMA CourseFacts ==
    ASSUME NEW p, Opening(p) \in Replays, NEW x \in Schedules
    PROVE  /\ Course(p, x)[0] = Opening(p)
           /\ \A i \in Slots : Course(p, x)[i] = ReplaySlot(p, x, i, Course(p, x)[i - 1])
           /\ \A i \in 0..N : Course(p, x)[i] \in Replays /\ Len(Course(p, x)[i].exports) = i
<1> DEFINE C == CHOOSE S : S = [k \in 0..N |-> IF k = 0 THEN Opening(p)
                                               ELSE ReplaySlot(p, x, k, S[k - 1])]
           V == Replays
           a == Opening(p)
           F == [k \in 1..N |-> [v \in V |-> ReplaySlot(p, x, k, v)]]
<1>0. N \in Nat /\ Slots = 1..N
      BY Figures DEF Slots
<1>1. Leads(F, N, V) /\ a \in V /\ N \in Nat
      BY <1>0, SlotType DEF Leads
<1>2. PICK g \in [0..N -> V] : g[0] = a /\ \A k \in 1..N : g[k] = F[k][g[k - 1]]
      <2> HIDE DEF F, V, a
      <2>1. QED
            BY <1>1, Iterates
<1>3. \A k \in 1..N : g[k - 1] \in V /\ g[k] = ReplaySlot(p, x, k, g[k - 1])
      <2> SUFFICES ASSUME NEW k \in 1..N PROVE g[k - 1] \in V /\ g[k] = ReplaySlot(p, x, k, g[k - 1])
          OBVIOUS
      <2>1. g[k - 1] \in V
            BY <1>0
      <2> HIDE DEF V
      <2>2. \A v \in V : F[k][v] = ReplaySlot(p, x, k, v)
            OBVIOUS
      <2> HIDE DEF F
      <2>3. QED
            BY <1>2, <2>1, <2>2
<1>4. g = [k \in 0..N |-> IF k = 0 THEN Opening(p) ELSE ReplaySlot(p, x, k, g[k - 1])]
      BY <1>0, <1>2, <1>3
<1>5. C = [k \in 0..N |-> IF k = 0 THEN Opening(p) ELSE ReplaySlot(p, x, k, C[k - 1])]
      BY <1>4
<1>6. Course(p, x) = C
      BY DEF Course
<1> HIDE DEF C
<1>7. C[0] = Opening(p) /\ \A k \in 1..N : C[k] = ReplaySlot(p, x, k, C[k - 1])
      BY <1>0, <1>5
<1> DEFINE G == {k \in 0..N : C[k] \in Replays /\ Len(C[k].exports) = k}
<1>8. 0 \in G
      BY <1>0, <1>7 DEF Opening
<1>9. ASSUME NEW k \in 1..N, k - 1 \in G PROVE k \in G
      <2>1. C[k - 1] \in Replays /\ Len(C[k - 1].exports) = k - 1
            BY <1>9
      <2>2. C[k] \in Replays /\ Len(C[k].exports) = Len(C[k - 1].exports) + 1
            BY <1>0, <1>7, <2>1, SlotType
      <2>3. QED
            BY <2>1, <2>2
<1>10. \A k \in 0..N : k \in G
      <2> HIDE DEF G
      <2>1. QED
            BY <1>0, <1>8, <1>9, Rising
<1>11. QED
      BY <1>0, <1>6, <1>7, <1>10

\* A schedule that passes the replay is refused in no slot.
LEMMA ValidCourse ==
    ASSUME NEW p \in PlannerInputs, NEW x \in Schedules, Valid(replay(p, x))
    PROVE  /\ Course(p, x)[N].ev.soc = effective(p).target
           /\ \A i \in 0..N : Course(p, x)[i].reasons = {}
<1> DEFINE C == Course(p, x)
<1>0. N \in Nat /\ Slots = 1..N
      BY Figures DEF Slots
<1>1. /\ \A i \in Slots : C[i] = ReplaySlot(p, x, i, C[i - 1])
      /\ \A i \in 0..N : C[i] \in Replays
      BY OpeningType, CourseFacts
<1> HIDE DEF C
<1>2. C[N] \in Replays
      BY <1>0, <1>1
<1>3. C[N].reasons = {} /\ C[N].ev.soc = effective(p).target
      BY <1>2 DEF Valid, replay, Judged, C, Replays
<1> DEFINE G == {k \in 1..N + 1 : C[k - 1].reasons = {}}
<1>4. N + 1 \in G
      BY <1>0, <1>3
<1>5. ASSUME NEW k \in 1..N, k + 1 \in G PROVE k \in G
      <2>1. C[k].reasons = {}
            BY <1>5
      <2>2. C[k - 1] \in Replays
            BY <1>0, <1>1
      <2>3. k \in Slots /\ ReplaySlot(p, x, k, C[k - 1]).reasons = {}
            BY <1>0, <1>1, <2>1
      <2>4. C[k - 1].reasons = {}
            BY <2>2, <2>3, SlotAccepted
      <2>5. QED
            BY <1>0, <2>4
<1>6. \A k \in 1..N + 1 : k \in G
      <2> HIDE DEF G
      <2>1. QED
            BY <1>0, <1>4, <1>5, Falling
<1>7. \A i \in 0..N : C[i].reasons = {}
      <2> SUFFICES ASSUME NEW i \in 0..N PROVE C[i].reasons = {}
          OBVIOUS
      <2>1. i + 1 \in 1..N + 1
            BY <1>0
      <2>2. i + 1 \in G
            BY <1>6, <2>1
      <2>3. C[i + 1 - 1].reasons = {} /\ i + 1 - 1 = i
            BY <2>2
      <2>4. QED
            BY <2>3
<1>8. QED
      BY <1>3, <1>7 DEF C

-----------------------------------------------------------------------------
(* Whatever the solver or a baseline comes to is a schedule.               *)

LEMMA TempType ==
    ASSUME NEW p \in PlannerInputs, NEW heat \in [Slots -> Int]
    PROVE  \A i \in 0..N : Temp(p, heat, i) \in Int
<1> DEFINE C == CHOOSE S : S = [k \in 0..N |-> IF k = 0 THEN p.zone.temp
                                               ELSE Warmed(p, S[k - 1], heat[k])]
           V == Int
           a == p.zone.temp
           F == [k \in 1..N |-> [v \in V |-> Warmed(p, v, heat[k])]]
<1>0. p.zone \in Zones /\ SlotTicks \in Int
      BY InputFacts, Figures
<1>1. ASSUME NEW v \in Int, NEW h \in Int PROVE Warmed(p, v, h) \in Int
      <2> DEFINE z == [p.zone EXCEPT !.temp = v]
      <2>1. z \in Zones
            BY <1>0 DEF Zones
      <2> HIDE DEF z
      <2>2. Passive(z, SlotTicks) \in Int
            BY <1>0, <2>1, ZoneType
      <2>3. QED
            BY <2>2 DEF Warmed, z
<1>2. \A k \in 1..N : heat[k] \in Int
      BY DEF Slots
<1>3. Leads(F, N, V) /\ a \in V /\ N \in Nat
      BY <1>0, <1>1, <1>2, Figures DEF Leads, Zones
<1>4. PICK g \in [0..N -> V] : g[0] = a /\ \A k \in 1..N : g[k] = F[k][g[k - 1]]
      <2> HIDE DEF F, V, a
      <2>1. QED
            BY <1>3, Iterates
<1>5. \A k \in 1..N : g[k] = Warmed(p, g[k - 1], heat[k])
      <2> SUFFICES ASSUME NEW k \in 1..N PROVE g[k] = Warmed(p, g[k - 1], heat[k])
          OBVIOUS
      <2>1. g[k - 1] \in V
            BY <1>3
      <2>2. \A v \in V : F[k][v] = Warmed(p, v, heat[k])
            OBVIOUS
      <2> HIDE DEF F, V
      <2>3. QED
            BY <1>4, <2>1, <2>2
<1>6. g = [k \in 0..N |-> IF k = 0 THEN p.zone.temp ELSE Warmed(p, g[k - 1], heat[k])]
      BY <1>3, <1>4, <1>5
<1>7. C = [k \in 0..N |-> IF k = 0 THEN p.zone.temp ELSE Warmed(p, C[k - 1], heat[k])]
      BY <1>6
<1> DEFINE G == {k \in 0..N : C[k] \in Int}
<1>8. \A i : Temp(p, heat, i) = C[i]
      BY DEF Temp
<1> HIDE DEF C
<1>9. C[0] = p.zone.temp /\ \A k \in 1..N : C[k] = Warmed(p, C[k - 1], heat[k])
      BY <1>3, <1>7
<1>10. 0 \in G
      BY <1>3, <1>9
<1>11. ASSUME NEW k \in 1..N, k - 1 \in G PROVE k \in G
      <2>1. C[k - 1] \in Int
            BY <1>11
      <2>2. Warmed(p, C[k - 1], heat[k]) \in Int
            BY <1>1, <1>2, <2>1
      <2>3. QED
            BY <1>3, <1>9, <2>2
<1>12. \A k \in 0..N : k \in G
      <2> HIDE DEF G
      <2>1. QED
            BY <1>3, <1>10, <1>11, Rising
<1>13. QED
      BY <1>8, <1>12

\* The best of some is one of them.
LEMMA BestOf == ASSUME NEW p \in PlannerInputs, NEW all PROVE Best(p, all) \subseteq all
<1> DEFINE order == stages(p)
           L == Len(order)
           worth(k, ys) == {<<Value(p, order[k], y), y>> : y \in ys}
           Opt(k, ys) == LET least == Min({w[1] : w \in worth(k, ys)})
                             Enough(v) == 1000 * (v - least) <= mip_rel_gap(p, order[k]) * Abs(v)
                         IN {w[2] : w \in {v \in worth(k, ys) : Enough(v[1])}}
           C == CHOOSE S : S = [k \in 0..L |-> IF k = 0 THEN all ELSE Opt(k, S[k - 1])]
           V == SUBSET all
           a == all
           F == [k \in 1..L |-> [v \in V |-> Opt(k, v)]]
<1>1. L \in Nat
      <2> DEFINE T == {"cost", "comfort", "import"}
                 comfort == IF \A i \in Slots : Preferred(p, i) = Free THEN <<>> ELSE <<"comfort">>
      <2>1. p.objective \in {"none", "cheapest", "most_comfortable", "greenest"}
            BY DEF PlannerInputs
      <2>2. comfort \in Seq(T) /\ <<"cost">> \in Seq(T) /\ <<"import">> \in Seq(T)
            <3>1. "comfort" \in T /\ "cost" \in T /\ "import" \in T
                  OBVIOUS
            <3> HIDE DEF T
            <3>2. QED
                  BY <3>1
      <2>3. order \in {comfort \o <<"cost">>, <<"cost">> \o comfort,
                       <<"import">> \o comfort \o <<"cost">>}
            <3> HIDE DEF comfort
            <3>1. QED
                  BY <2>1 DEF stages, comfort
      <2> HIDE DEF T, comfort, order
      <2>4. order \in Seq(T)
            <3>1. /\ comfort \o <<"cost">> \in Seq(T) /\ <<"cost">> \o comfort \in Seq(T)
                  /\ <<"import">> \o comfort \in Seq(T)
                  BY <2>2
            <3>2. (<<"import">> \o comfort) \o <<"cost">> \in Seq(T)
                  BY <2>2, <3>1
            <3>3. QED
                  BY <2>3, <3>1, <3>2
      <2>5. QED
            BY <2>4
<1> HIDE DEF order, L
<1>2. ASSUME NEW k, NEW ys PROVE Opt(k, ys) \subseteq ys
      <2> SUFFICES ASSUME NEW z \in Opt(k, ys) PROVE z \in ys
          OBVIOUS
      <2>1. PICK w \in worth(k, ys) : z = w[2]
            OBVIOUS
      <2>2. PICK y \in ys : w = <<Value(p, order[k], y), y>>
            OBVIOUS
      <2>3. QED
            BY <2>1, <2>2
<1> HIDE DEF Opt
<1>3. Leads(F, L, V) /\ a \in V
      BY <1>2 DEF Leads
<1>4. PICK g \in [0..L -> V] : g[0] = a /\ \A k \in 1..L : g[k] = F[k][g[k - 1]]
      <2> HIDE DEF F, V, a
      <2>1. QED
            BY <1>1, <1>3, Iterates
<1>5. \A k \in 1..L : g[k] = Opt(k, g[k - 1])
      <2> SUFFICES ASSUME NEW k \in 1..L PROVE g[k] = Opt(k, g[k - 1])
          OBVIOUS
      <2>1. g[k - 1] \in V
            BY <1>1
      <2>2. \A v \in V : F[k][v] = Opt(k, v)
            OBVIOUS
      <2> HIDE DEF F, V
      <2>3. QED
            BY <1>4, <2>1, <2>2
<1>6. g = [k \in 0..L |-> IF k = 0 THEN all ELSE Opt(k, g[k - 1])]
      BY <1>1, <1>4, <1>5
<1>7. C = [k \in 0..L |-> IF k = 0 THEN all ELSE Opt(k, C[k - 1])]
      BY <1>6
<1>8. Best(p, all) = C[L]
      BY DEF Best, Opt, L, order
<1> DEFINE G == {k \in 0..L : C[k] \subseteq all}
<1> HIDE DEF C
<1>9. 0 \in G
      BY <1>1, <1>7
<1>10. ASSUME NEW k \in 1..L, k - 1 \in G PROVE k \in G
      <2>1. C[k - 1] \subseteq all /\ C[k] = Opt(k, C[k - 1])
            BY <1>1, <1>7, <1>10
      <2>2. QED
            BY <1>1, <1>2, <2>1
<1>11. \A k \in 0..L : k \in G
      <2> HIDE DEF G
      <2>1. QED
            BY <1>1, <1>9, <1>10, Rising
<1>12. L \in 0..L
      BY <1>1
<1>13. QED
      BY <1>8, <1>11, <1>12

LEMMA ControlsType ==
    ASSUME NEW p \in PlannerInputs, NEW y \in feasible(p)
    PROVE  Controls(p, y) \in Schedules
<1>1. y.ev \in [Slots -> Int]
      <2>1. y.ev \in [Slots -> {0, Charger, Charger * SlotTicks}]
            BY DEF feasible, EVRows
      <2>2. {0, Charger, Charger * SlotTicks} \subseteq Int
            BY Figures, Products
      <2>3. QED
            BY <2>1, <2>2
<1>2. y.battery \in [Slots -> Int]
      <2>1. y.battery \in [Slots -> Rates]
            BY DEF feasible, BatteryRows
      <2>2. QED
            BY <2>1, Figures
<1>3. y.heat \in [Slots -> Int]
      <2>1. y.heat \in [Slots -> {-Hvac * SlotTicks, 0, Hvac * SlotTicks}]
            BY DEF feasible, HeatRows
      <2>2. {-Hvac * SlotTicks, 0, Hvac * SlotTicks} \subseteq Int
            BY Figures, Products
      <2>3. QED
            BY <2>1, <2>2
<1>4. y.start \in 0..N
      <2>1. y.start \in {0} \cup Slots
            BY DEF feasible, appliance_windows
      <2>2. QED
            BY <2>1, Figures DEF Slots
<1>5. \A i \in Slots : Temp(p, y.heat, i) \in Int /\ p.held[i] \in Maybe(Int)
      <2>1. \A i \in 0..N : Temp(p, y.heat, i) \in Int
            BY <1>3, TempType
      <2>2. \A i \in Slots : i \in 0..N
            BY Figures DEF Slots
      <2>3. p.held \in [Slots -> Maybe(Int)]
            BY InputFacts
      <2>4. QED
            BY <2>1, <2>2, <2>3
<1> DEFINE targets == [i \in Slots |-> IF p.held[i] # Free THEN p.held[i] ELSE Temp(p, y.heat, i)]
           modes == [i \in Slots |->
                  IF p.held[i] # Free THEN p.zone.mode
                  ELSE IF y.heat[i] > 0 THEN "heat"
                  ELSE IF y.heat[i] < 0 THEN "cool"
                  ELSE IF Outside[i] < Temp(p, y.heat, i) THEN "heat" ELSE "cool"]
<1>6. targets \in [Slots -> Int]
      BY <1>5 DEF Maybe
<1>7. modes \in [Slots -> Modes]
      <2>1. p.zone.mode \in Modes
            BY InputFacts DEF Zones, Modes
      <2>2. "heat" \in Modes /\ "cool" \in Modes
            BY DEF Modes
      <2>3. QED
            BY <2>1, <2>2
<1>8. Controls(p, y) = [ev |-> y.ev, battery |-> y.battery, start |-> y.start,
                        targets |-> targets, modes |-> modes]
      BY DEF Controls
<1> HIDE DEF targets, modes
<1>9. QED
      BY <1>1, <1>2, <1>4, <1>6, <1>7, <1>8 DEF Schedules

LEMMA SolveType ==
    ASSUME NEW p \in PlannerInputs, NEW answer \in solve(p)
    PROVE  answer.x = Free \/ answer.x \in Schedules
BY ControlsType, BestOf DEF solve

LEMMA Limited ==
    ASSUME NEW p \in PlannerInputs
    PROVE  /\ Limits(p) \subseteq Constraints /\ IsFiniteSet(Limits(p))
           /\ \A c \in Limits(p) : Covered(c) # {} => Max(Covered(c)) \in Slots
<1>1. ToSet(p.constraints) \subseteq Constraints /\ IsFiniteSet(ToSet(p.constraints))
      BY InputFacts, Elements
<1>2. Limits(p) \subseteq Constraints /\ IsFiniteSet(Limits(p))
      BY <1>1, FS_Subset DEF Limits
<1>3. ASSUME NEW c, Covered(c) # {} PROVE Max(Covered(c)) \in Slots
      <2>1. Covered(c) \subseteq Slots /\ Slots \subseteq Int /\ IsFiniteSet(Slots)
            BY FS_Interval, Figures DEF Covered, Slots
      <2>2. IsFiniteSet(Covered(c)) /\ Covered(c) \subseteq Int
            BY <2>1, FS_Subset
      <2>3. Max(Covered(c)) \in Covered(c)
            BY <1>3, <2>2, Extremes
      <2>4. QED
            BY <2>1, <2>3
<1>4. QED
      BY <1>2, <1>3

\* The least of a number and finitely many.
LEMMA LeastOf ==
    ASSUME NEW n \in Int, NEW S \in SUBSET Int, IsFiniteSet(S)
    PROVE  /\ Min({n} \cup S) \in Int /\ Min({n} \cup S) <= n
           /\ \A x \in S : Min({n} \cup S) <= x
           /\ Max({n} \cup S) \in Int /\ n <= Max({n} \cup S)
           /\ \A x \in S : x <= Max({n} \cup S)
<1> DEFINE T == S \cup {n}
<1>1. T \subseteq Int /\ T # {} /\ IsFiniteSet(T) /\ {n} \cup S = T
      BY FS_AddElement
<1>2. n \in T /\ \A x \in S : x \in T
      OBVIOUS
<1> HIDE DEF T
<1>3. /\ Max(T) \in T /\ \A x \in T : x <= Max(T)
      /\ Min(T) \in T /\ \A x \in T : Min(T) <= x
      BY <1>1, Extremes
<1>4. QED
      BY <1>1, <1>2, <1>3

LEMMA BaselineEVType ==
    ASSUME NEW p \in PlannerInputs, NEW method
    PROVE  BaselineEV(p, method) \in [Slots -> Int]
<1> DEFINE open == BaselineSlots(p, method)
           L == Cardinality(open)
           order == Preference(open, method)
           fixed == [i \in Slots |-> IF p.fixedEv[i] = Free THEN 0 ELSE p.fixedEv[i]]
           near(i) == {x \in Limits(p) : \E k \in Covered(x) : k >= i}
           amount(e) == Clamp(0, Charger * SlotTicks, effective(p).target - p.ev.soc - Total(e))
           room(e, i) == {Most(0, c.at - p.ev.soc - Upto(e, Max(Covered(c)))) : c \in near(i)}
           Give(e, i) == [e EXCEPT ![i] = Min({amount(e)} \cup room(e, i))]
           C == CHOOSE S : S = [k \in 0..L |-> IF k = 0 THEN fixed ELSE Give(S[k - 1], order[k])]
           V == [Slots -> Int]
           a == fixed
           F == [k \in 1..L |-> [v \in V |-> Give(v, order[k])]]
<1>1. L \in Nat
      <2>1. open \subseteq Slots /\ IsFiniteSet(Slots)
            BY SlotsFinite DEF BaselineSlots
      <2>2. IsFiniteSet(open)
            BY <2>1, FS_Subset
      <2>3. QED
            BY <2>2, FS_CardinalityType
<1>2. p.ev.soc \in Int /\ effective(p).target \in Int /\ Charger * SlotTicks \in Int
      BY InputFacts, EffectiveFacts, Figures, Products DEF EVs
<1>3. ASSUME NEW e \in V, NEW i PROVE Give(e, i) \in V
      <2>1. amount(e) \in Int
            <3>1. Total(e) \in Int
                  BY TotalType
            <3>2. effective(p).target - p.ev.soc - Total(e) \in Int
                  BY <1>2, <3>1
            <3>3. QED
                  BY <1>2, <3>2 DEF Clamp, Least, Most
      <2>2. near(i) \subseteq Limits(p) /\ IsFiniteSet(near(i))
            BY Limited, FS_Subset
      <2>3. ASSUME NEW c \in near(i)
            PROVE  Most(0, c.at - p.ev.soc - Upto(e, Max(Covered(c)))) \in Int
            <3>1. Covered(c) # {} /\ c \in Limits(p)
                  OBVIOUS
            <3>2. Max(Covered(c)) \in 0..N /\ c.at \in Int
                  BY <3>1, Limited, Figures DEF Slots, Constraints
            <3>3. Upto(e, Max(Covered(c))) \in Int
                  BY <3>2, UptoType
            <3>4. c.at - p.ev.soc - Upto(e, Max(Covered(c))) \in Int
                  BY <1>2, <3>2, <3>3
            <3>5. QED
                  BY <3>4 DEF Most
      <2>4. room(e, i) \subseteq Int
            BY <2>3
      <2>5. IsFiniteSet(room(e, i))
            <3> DEFINE f == [c \in near(i) |-> Most(0, c.at - p.ev.soc - Upto(e, Max(Covered(c))))]
                       S == near(i)
            <3>1. room(e, i) = {f[c] : c \in S}
                  OBVIOUS
            <3> HIDE DEF f, S
            <3>2. IsFiniteSet({f[c] : c \in S})
                  BY <2>2, Images DEF S
            <3>3. QED
                  BY <3>1, <3>2
      <2> HIDE DEF amount, room
      <2>6. Min({amount(e)} \cup room(e, i)) \in Int
            BY <2>1, <2>4, <2>5, LeastOf
      <2>7. QED
            BY <2>6
<1>4. fixed \in V
      BY InputFacts DEF Maybe
<1> HIDE DEF L, order, Give, fixed, V
<1>5. Leads(F, L, V) /\ a \in V
      BY <1>3, <1>4 DEF Leads
<1>6. PICK g \in [0..L -> V] : g[0] = a /\ \A k \in 1..L : g[k] = F[k][g[k - 1]]
      <2> HIDE DEF F, a
      <2>1. QED
            BY <1>1, <1>5, Iterates
<1>7. \A k \in 1..L : g[k] = Give(g[k - 1], order[k])
      <2> SUFFICES ASSUME NEW k \in 1..L PROVE g[k] = Give(g[k - 1], order[k])
          OBVIOUS
      <2>1. g[k - 1] \in V
            BY <1>1
      <2>2. \A v \in V : F[k][v] = Give(v, order[k])
            OBVIOUS
      <2> HIDE DEF F
      <2>3. QED
            BY <1>6, <2>1, <2>2
<1>8. g = [k \in 0..L |-> IF k = 0 THEN fixed ELSE Give(g[k - 1], order[k])]
      BY <1>1, <1>6, <1>7
<1>9. C = [k \in 0..L |-> IF k = 0 THEN fixed ELSE Give(C[k - 1], order[k])]
      BY <1>8
<1>10. BaselineEV(p, method) = C[L]
      BY DEF BaselineEV, L, order, Give, fixed
<1> DEFINE G == {k \in 0..L : C[k] \in V}
<1> HIDE DEF C
<1>11. 0 \in G
      BY <1>1, <1>4, <1>9
<1>12. ASSUME NEW k \in 1..L, k - 1 \in G PROVE k \in G
      <2>1. C[k - 1] \in V /\ C[k] = Give(C[k - 1], order[k])
            BY <1>1, <1>9, <1>12
      <2>2. QED
            BY <1>1, <1>3, <2>1
<1>13. \A k \in 0..L : k \in G
      <2> HIDE DEF G
      <2>1. QED
            BY <1>1, <1>11, <1>12, Rising
<1>14. L \in 0..L
      BY <1>1
<1>15. QED
      BY <1>10, <1>13, <1>14 DEF V

LEMMA Times ==
    ASSUME NEW i \in Int
    PROVE  Start(i) \in Int /\ Finish(i) \in Int /\ Finish(i) = Start(i) + SlotTicks
<1>1. SlotTicks \in Int
      BY Figures
<1>2. (i - 1) * SlotTicks \in Int /\ i * SlotTicks \in Int
      BY <1>1, Products
<1>3. i * SlotTicks = (i - 1) * SlotTicks + SlotTicks
      BY <1>1
<1>4. QED
      BY <1>2, <1>3 DEF Start, Finish

LEMMA CycleLoadType ==
    ASSUME NEW p \in PlannerInputs, NEW start \in 0..N, NEW i \in Slots
    PROVE  CycleLoad(p, start, i) \in Int
<1> DEFINE from == IF Running(p.appliance) THEN 0 ELSE Start(start)
           to == from + IF Running(p.appliance) THEN p.appliance.left ELSE Cycle
<1>1. /\ Start(i) \in Int /\ Finish(i) \in Int /\ Start(start) \in Int /\ Cycle \in Int
      /\ p.appliance.left \in Int /\ ApplianceLoad \in Int
      <2>1. i \in Int /\ start \in Int
            BY SlotsFinite, Figures
      <2>2. Start(i) \in Int /\ Finish(i) \in Int /\ Start(start) \in Int
            BY <2>1, Times
      <2>3. p.appliance.left \in Int
            BY InputFacts DEF Appliances
      <2>4. QED
            BY <2>2, <2>3, Figures
<1>2. from \in Int /\ to \in Int
      BY <1>1
<1> HIDE DEF from, to
<1>3. Most(0, Least(Finish(i), to) - Most(Start(i), from)) \in Int
      BY <1>1, <1>2 DEF Most, Least
<1>4. ApplianceLoad * Most(0, Least(Finish(i), to) - Most(Start(i), from)) \in Int
      BY <1>1, <1>3, Products
<1>5. QED
      BY <1>4 DEF CycleLoad, from, to

LEMMA BaselineStartType ==
    ASSUME NEW p \in PlannerInputs, NEW method
    PROVE  BaselineStart(p, method) \in 0..N
<1> DEFINE open == appliance_windows(p)
           Bill(i) == Total([k \in Slots |-> Price[k] * CycleLoad(p, i, k)])
           cheap == {i \in open : method = "greedy" => \A k \in open : Bill(i) <= Bill(k)}
<1>1. open \subseteq Slots
      BY DEF appliance_windows
<1>2. ASSUME NEW i \in Slots PROVE Bill(i) \in Int
      <2>1. i \in 0..N
            BY SlotsFinite
      <2>2. ASSUME NEW k \in Slots PROVE Price[k] * CycleLoad(p, i, k) \in Int
            <3>1. Price[k] \in Int /\ CycleLoad(p, i, k) \in Int
                  BY <2>1, CycleLoadType, Figures
            <3>2. QED
                  BY <3>1, Products
      <2> DEFINE f == [k \in Slots |-> Price[k] * CycleLoad(p, i, k)]
      <2>3. f \in [Slots -> Int]
            BY <2>2
      <2> HIDE DEF f
      <2>4. Total(f) \in Int
            BY <2>3, TotalType
      <2>5. QED
            BY <2>4 DEF f
<1>3. ASSUME open # {} PROVE cheap # {}
      <2> DEFINE f == [i \in open |-> Bill(i)]
                 bills == {f[i] : i \in open}
      <2>1. bills \subseteq Int /\ bills # {} /\ IsFiniteSet(bills)
            <3>1. IsFiniteSet(open)
                  BY <1>1, SlotsFinite
            <3>2. \A i \in open : f[i] \in Int
                  BY <1>1, <1>2
            <3> HIDE DEF f, open
            <3>3. IsFiniteSet(bills)
                  BY <3>1, Images
            <3>4. QED
                  BY <1>3, <3>2, <3>3
      <2> HIDE DEF bills, Bill
      <2>2. Min(bills) \in bills /\ \A x \in bills : Min(bills) <= x
            BY <2>1, Extremes
      <2>3. PICK i \in open : Min(bills) = f[i]
            BY <2>2 DEF bills
      <2>4. \A k \in open : Bill(i) <= Bill(k)
            BY <2>2, <2>3 DEF bills
      <2>5. QED
            BY <2>4
<1> HIDE DEF Bill
<1>4. ASSUME open # {} PROVE Min(cheap) \in 0..N
      <2>1. cheap # {} /\ cheap \subseteq Slots
            BY <1>1, <1>3, <1>4
      <2>2. cheap \subseteq Int /\ IsFiniteSet(cheap)
            BY <2>1, SlotsFinite
      <2> HIDE DEF cheap
      <2>3. Min(cheap) \in cheap
            BY <2>1, <2>2, Extremes
      <2>4. QED
            BY <2>1, <2>3, SlotsFinite
<1>5. 0 \in 0..N
      BY Figures
<1>6. QED
      BY <1>4, <1>5 DEF BaselineStart, Bill

LEMMA EnvelopeType ==
    ASSUME NEW p \in PlannerInputs
    PROVE  \A t \in 1..N + 1 : /\ comfort_envelope(p)[t] \subseteq Int
                               /\ IsFiniteSet(comfort_envelope(p)[t])
<1> DEFINE temps == Min(Range(p.lower))..Max(Range(p.upper))
           tightens == {t \in 2..N : p.lower[t] > p.lower[t - 1] \/ p.upper[t] < p.upper[t - 1]}
           Band(t) == {v \in temps : IF t \in tightens THEN v = p.targets[t]
                                     ELSE p.lower[t] <= v /\ v <= p.upper[t]}
           Left(v) == v + Passive([p.zone EXCEPT !.temp = v], SlotTicks)
           Body(t, next) == {v \in Band(t) : \E w \in next : Abs(w - Left(v)) <= Hvac * SlotTicks}
           C == CHOOSE S : S = [t \in 1..N + 1 |-> IF t = N + 1 THEN Band(t) ELSE Body(t, S[t + 1])]
           V == SUBSET temps
           a == Band(N + 1)
           F == [t \in 1..N |-> [v \in V |-> Body(t, v)]]
<1>0. N \in Nat
      BY Figures
<1>1. \A t : Band(t) \in V
      OBVIOUS
<1> HIDE DEF Band, Left
<1>2. ASSUME NEW t, NEW next PROVE Body(t, next) \in V
      BY <1>1
<1> HIDE DEF Body, V
<1>3. Leads(F, N, V) /\ a \in V
      BY <1>1, <1>2 DEF Leads
<1>4. PICK g \in [1..N + 1 -> V] : g[N + 1] = a /\ \A k \in 1..N : g[k] = F[k][g[k + 1]]
      <2> HIDE DEF F, a
      <2>1. a \in V /\ Leads(F, N, V)
            BY <1>3
      <2> HIDE DEF V
      <2>2. QED
            BY <2>1, SlotsDescend
<1>5. \A k \in 1..N : g[k] = Body(k, g[k + 1])
      <2> SUFFICES ASSUME NEW k \in 1..N PROVE g[k] = Body(k, g[k + 1])
          OBVIOUS
      <2>1. g[k + 1] \in V
            BY <1>0
      <2>2. \A v \in V : F[k][v] = Body(k, v)
            OBVIOUS
      <2> HIDE DEF F
      <2>3. QED
            BY <1>4, <2>1, <2>2
<1>6. g = [t \in 1..N + 1 |-> IF t = N + 1 THEN Band(t) ELSE Body(t, g[t + 1])]
      BY <1>0, <1>4, <1>5
<1>7. C = [t \in 1..N + 1 |-> IF t = N + 1 THEN Band(t) ELSE Body(t, C[t + 1])]
      BY <1>6
<1>8. comfort_envelope(p) = C
      BY DEF comfort_envelope, Body, Band, Left
<1> HIDE DEF C
<1>9. ASSUME NEW t \in 1..N + 1 PROVE C[t] \in V
      BY <1>1, <1>2, <1>7
<1>10. temps \subseteq Int /\ IsFiniteSet(temps)
      <2> DEFINE lows == {p.lower[k] : k \in 1..N + 1}
                 highs == {p.upper[k] : k \in 1..N + 1}
      <2>1. p.lower \in [1..N + 1 -> Int] /\ p.upper \in [1..N + 1 -> Int]
            BY InputFacts
      <2>2. IsFiniteSet(1..N + 1) /\ 1 \in 1..N + 1
            <3>1. N + 1 \in Int /\ 1 \in Int
                  BY <1>0
            <3>2. IsFiniteSet(1..N + 1)
                  BY <3>1, FS_Interval
            <3>3. QED
                  BY <1>0, <3>2
      <2>3. lows \subseteq Int /\ highs \subseteq Int /\ lows # {} /\ highs # {}
            BY <2>1, <2>2
      <2>4. IsFiniteSet(lows) /\ IsFiniteSet(highs)
            BY <2>2, Images
      <2>5. Range(p.lower) = lows /\ Range(p.upper) = highs
            BY <2>1 DEF Range
      <2> HIDE DEF lows, highs
      <2>6. Min(lows) \in Int /\ Max(highs) \in Int
            BY <2>3, <2>4, Extremes
      <2>7. QED
            BY <2>5, <2>6, FS_Interval
<1>11. QED
      BY <1>8, <1>9, <1>10, FS_Subset DEF V

LEMMA OfThree ==
    ASSUME NEW a \in Int, NEW b \in Int, NEW c \in Int
    PROVE  /\ Min({a, b, c}) \in {a, b, c} /\ Max({a, b, c}) \in {a, b, c}
<1> DEFINE S == {a, b, c}
<1>1. IsFiniteSet(S)
      <2>1. IsFiniteSet({a})
            BY FS_Singleton
      <2>2. IsFiniteSet({a} \cup {b})
            BY <2>1, FS_AddElement
      <2>3. IsFiniteSet(({a} \cup {b}) \cup {c})
            BY <2>2, FS_AddElement
      <2>4. S = ({a} \cup {b}) \cup {c}
            OBVIOUS
      <2>5. QED
            BY <2>3, <2>4
<1>2. S \subseteq Int /\ S # {}
      OBVIOUS
<1> HIDE DEF S
<1>3. Min(S) \in S /\ Max(S) \in S
      BY <1>1, <1>2, Extremes
<1>4. QED
      BY <1>3 DEF S

LEMMA Positive ==
    /\ \A a, b \in Nat : a * b \in Nat
    /\ \A a, b \in Nat \ {0} : a * b \in Nat \ {0}
OBVIOUS

LEMMA BaselineZoneType ==
    ASSUME NEW p \in PlannerInputs, NEW i \in Slots, NEW z \in Zones
    PROVE  BaselineZone(p, i, z) \in Zones
<1> DEFINE reach == comfort_envelope(p)[i + 1]
           low == IF reach = {} THEN p.upper[i + 1] + 1 ELSE Min(reach)
           high == IF reach = {} THEN p.lower[i + 1] - 1 ELSE Max(reach)
           target == Min({high, p.upper[i], Max({low, p.lower[i], p.targets[i]})})
           mode == IF z.temp + Passive(z, SlotTicks) < target THEN "heat" ELSE "cool"
<1>1. i \in 1..N + 1 /\ i + 1 \in 1..N + 1
      BY Figures DEF Slots
<1>2. reach \subseteq Int /\ IsFiniteSet(reach)
      BY <1>1, EnvelopeType
<1>3. /\ p.upper[i] \in Int /\ p.lower[i] \in Int /\ p.targets[i] \in Int
      /\ p.upper[i + 1] \in Int /\ p.lower[i + 1] \in Int /\ p.held[i] \in Maybe(Int)
      <2>1. /\ p.lower \in [1..N + 1 -> Int] /\ p.upper \in [1..N + 1 -> Int]
            /\ p.targets \in [Slots -> Int] /\ p.held \in [Slots -> Maybe(Int)]
            BY InputFacts
      <2>2. QED
            BY <1>1, <2>1
<1> HIDE DEF reach
<1>4. low \in Int /\ high \in Int
      <2>1. CASE reach = {}
            BY <1>3, <2>1
      <2>2. CASE reach # {}
            <3>1. Min(reach) \in reach /\ Max(reach) \in reach
                  BY <1>2, <2>2, Extremes
            <3>2. Min(reach) \in Int /\ Max(reach) \in Int
                  BY <1>2, <3>1
            <3>3. QED
                  BY <2>2, <3>2
      <2>3. QED
            BY <2>1, <2>2
<1> HIDE DEF low, high
<1>5. target \in Int
      <2> DEFINE most == Max({low, p.lower[i], p.targets[i]})
      <2>1. most \in Int
            <3>1. most \in {low, p.lower[i], p.targets[i]}
                  BY <1>3, <1>4, OfThree
            <3> HIDE DEF most
            <3>2. QED
                  BY <1>3, <1>4, <3>1
      <2> HIDE DEF most
      <2>2. Min({high, p.upper[i], most}) \in {high, p.upper[i], most}
            BY <1>3, <1>4, <2>1, OfThree
      <2>3. QED
            BY <1>3, <1>4, <2>1, <2>2 DEF most
<1> HIDE DEF target
<1>6. mode \in {"heat", "cool", "off"}
      OBVIOUS
<1> HIDE DEF mode
<1>7. p.zone.mode \in {"heat", "cool", "off"}
      BY InputFacts DEF Zones
<1>8. CASE p.held[i] # Free
      <2>1. BaselineZone(p, i, z) = [z EXCEPT !.target = p.held[i], !.mode = p.zone.mode]
            BY <1>8 DEF BaselineZone
      <2>2. p.held[i] \in Int
            BY <1>3, <1>8 DEF Maybe
      <2>3. QED
            BY <1>7, <2>1, <2>2 DEF Zones
<1>9. CASE p.held[i] = Free
      <2>1. BaselineZone(p, i, z) = [z EXCEPT !.target = target, !.mode = mode]
            BY <1>9 DEF BaselineZone, target, mode, low, high, reach
      <2>2. QED
            BY <1>5, <1>6, <2>1 DEF Zones
<1>10. QED
       BY <1>8, <1>9

LEMMA BaselineRateType ==
    ASSUME NEW p \in PlannerInputs, NEW i \in Slots, NEW net \in Int, NEW soc \in Int,
           NEW ceiling \in Int
    PROVE  BaselineRate(p, i, net, soc, ceiling) \in Int
<1> DEFINE Charge(n) == Min({r \in Rates : -r <= n})
           Discharge(n) == Max({r \in Rates : r <= n})
           opening == p.battery.soc
           day == Start(i) < TimerStart
           restore == i \in Night \/ (~day /\ soc < opening)
           room == (Most(0, ceiling - soc) * Loss) \div SlotTicks
           back == (Most(0, opening - soc) * Loss) \div SlotTicks
           spare == Most(0, soc - IF day THEN Reserve ELSE opening) \div (Loss * SlotTicks)
<1>1. ASSUME NEW n \in Nat PROVE Charge(n) \in Int /\ Discharge(n) \in Int
      <2> DEFINE A == {r \in Rates : -r <= n}
                 B == {r \in Rates : r <= n}
      <2>1. A \subseteq Int /\ B \subseteq Int /\ 0 \in A /\ 0 \in B
            <3>1. Rates \subseteq Int /\ 0 \in Rates /\ -0 <= n /\ 0 <= n
                  BY Figures
            <3>2. QED
                  BY <3>1
      <2>2. IsFiniteSet(A) /\ IsFiniteSet(B)
            BY Figures, FS_Subset
      <2> HIDE DEF A, B
      <2>3. Min(A) \in Int /\ Max(B) \in Int
            BY <2>1, <2>2, Extremes
      <2>4. QED
            BY <2>3 DEF A, B
<1>2. opening \in Int /\ Power \in Nat /\ Loss \in Nat \ {0} /\ SlotTicks \in Nat \ {0} /\ Reserve \in Int
      BY InputFacts, Figures DEF Batteries
<1>3. ASSUME NEW v \in Int
      PROVE  (Most(0, v) * Loss) \div SlotTicks \in Nat /\ Most(0, v) \div (Loss * SlotTicks) \in Nat
      <2>1. Most(0, v) \in Nat
            BY DEF Most
      <2>2. Most(0, v) * Loss \in Nat /\ Loss * SlotTicks \in Nat \ {0}
            BY <1>2, <2>1, Positive
      <2>3. \A x \in Nat, y \in Nat \ {0} : x \div y \in Nat
            OBVIOUS
      <2>4. QED
            BY <1>2, <2>1, <2>2, <2>3
<1>4. room \in Nat /\ back \in Nat /\ spare \in Nat
      <2>1. ceiling - soc \in Int /\ opening - soc \in Int
            /\ soc - (IF day THEN Reserve ELSE opening) \in Int
            BY <1>2
      <2>2. QED
            BY <1>3, <2>1
<1> HIDE DEF Charge, Discharge, room, back, spare, day
<1>5. CASE p.fixedBattery[i] # Free
      <2>1. p.fixedBattery[i] \in Int
            BY <1>5, InputFacts DEF Maybe
      <2>2. QED
            BY <1>5, <2>1 DEF BaselineRate
<1>6. CASE p.fixedBattery[i] = Free /\ net < 0
      <2>1. Min({-net, Power, room}) \in Nat
            <3> DEFINE sun == -net
            <3>1. sun \in Nat
                  BY <1>6
            <3> HIDE DEF sun
            <3>2. sun \in Int /\ Power \in Int /\ room \in Int
                  BY <1>2, <1>4, <3>1
            <3>3. Min({sun, Power, room}) \in {sun, Power, room}
                  BY <3>2, OfThree
            <3>4. Min({sun, Power, room}) \in Nat
                  BY <1>2, <1>4, <3>1, <3>3
            <3>5. QED
                  BY <3>4 DEF sun
      <2>2. BaselineRate(p, i, net, soc, ceiling) = Charge(Min({-net, Power, room}))
            BY <1>6 DEF BaselineRate, Charge, room
      <2>3. QED
            BY <1>1, <2>1, <2>2
<1>7. CASE p.fixedBattery[i] = Free /\ ~(net < 0) /\ restore
      <2>1. Least(Power, back) \in Nat
            BY <1>2, <1>4 DEF Least
      <2>2. BaselineRate(p, i, net, soc, ceiling) = Charge(Least(Power, back))
            BY <1>7 DEF BaselineRate, Charge, back, day
      <2>3. QED
            BY <1>1, <2>1, <2>2
<1>8. CASE p.fixedBattery[i] = Free /\ ~(net < 0) /\ ~restore
      <2>1. Min({net, Power, spare}) \in Nat
            <3>1. net \in Nat
                  BY <1>8
            <3>2. Min({net, Power, spare}) \in {net, Power, spare}
                  BY <1>2, <1>4, <3>1, OfThree
            <3>3. QED
                  BY <1>2, <1>4, <3>1, <3>2
      <2>2. BaselineRate(p, i, net, soc, ceiling) = Discharge(Min({net, Power, spare}))
            BY <1>8 DEF BaselineRate, Discharge, spare, day
      <2>3. QED
            BY <1>1, <2>1, <2>2
<1>9. QED
      BY <1>5, <1>6, <1>7, <1>8

LEMMA BaselineType ==
    ASSUME NEW p \in PlannerInputs, NEW method
    PROVE  baseline(p, method) \in Schedules
<1> DEFINE ev == BaselineEV(p, method)
           start == BaselineStart(p, method)
           Warm(i, z) == ZoneAdvance(BaselineZone(p, i, z), SlotTicks)
           Z == CHOOSE S : S = [i \in 0..N |-> IF i = 0 THEN p.zone ELSE Warm(i, S[i - 1])]
           set == [i \in Slots |-> BaselineZone(p, i, Z[i - 1])]
           net == [i \in Slots |-> BaseLoad - Solar[i] +
                     (ev[i] + CycleLoad(p, start, i) + Abs(Heat(set[i], SlotTicks))) \div SlotTicks]
           Room(i, above) == Least(Capacity, above +
                               IF i \in Night THEN 0
                               ELSE Clamp(0, Power, net[i]) * SlotTicks * Loss)
           Ceiling == CHOOSE S : S = [i \in 1..N + 1 |->
                               IF i = N + 1 THEN p.battery.soc ELSE Room(i, S[i + 1])]
           Bat(i, before) == LET b == BatteryAdvance(before, SlotTicks)
                                 soc == IF i = 1 THEN p.battery.soc ELSE b.soc
                             IN [soc |-> soc, rate |-> BaselineRate(p, i, net[i], soc, Ceiling[i + 1])]
           B == CHOOSE S : S = [i \in 0..N |-> IF i = 0 THEN p.battery ELSE Bat(i, S[i - 1])]
<1>0. N \in Nat /\ SlotTicks \in Int /\ Slots = 1..N
      BY Figures DEF Slots
<1>1. baseline(p, method) =
        [ev |-> ev, start |-> start, battery |-> [i \in Slots |-> B[i].rate],
         targets |-> [i \in Slots |-> set[i].target], modes |-> [i \in Slots |-> set[i].mode]]
      BY DEF baseline
<1>2. ev \in [Slots -> Int] /\ start \in 0..N
      BY BaselineEVType, BaselineStartType
<1> HIDE DEF ev, start
<1>3. ASSUME NEW i \in 1..N, NEW z \in Zones PROVE Warm(i, z) \in Zones
      BY <1>0, BaselineZoneType, ZoneType
<1>4. Z = [i \in 0..N |-> IF i = 0 THEN p.zone ELSE Warm(i, Z[i - 1])]
      <2> DEFINE V == Zones
                 a == p.zone
                 F == [k \in 1..N |-> [v \in V |-> Warm(k, v)]]
      <2> HIDE DEF Warm
      <2>1. Leads(F, N, V) /\ a \in V /\ N \in Nat
            BY <1>0, <1>3, InputFacts DEF Leads
      <2>2. PICK g \in [0..N -> V] : g[0] = a /\ \A k \in 1..N : g[k] = F[k][g[k - 1]]
            <3> HIDE DEF F, V, a
            <3>1. QED
                  BY <2>1, Iterates
      <2>3. \A k \in 1..N : g[k] = Warm(k, g[k - 1])
            <3> SUFFICES ASSUME NEW k \in 1..N PROVE g[k] = Warm(k, g[k - 1])
                OBVIOUS
            <3>1. g[k - 1] \in V
                  BY <1>0
            <3> HIDE DEF V
            <3>2. \A v \in V : F[k][v] = Warm(k, v)
                  OBVIOUS
            <3> HIDE DEF F
            <3>3. QED
                  BY <2>2, <3>1, <3>2
      <2>4. g = [i \in 0..N |-> IF i = 0 THEN p.zone ELSE Warm(i, g[i - 1])]
            BY <1>0, <2>2, <2>3
      <2>5. QED
            BY <2>4
<1> HIDE DEF Z
<1>5. \A i \in 0..N : Z[i] \in Zones
      <2> DEFINE G == {k \in 0..N : Z[k] \in Zones}
      <2> HIDE DEF Warm
      <2>1. Z[0] = p.zone /\ \A k \in 1..N : Z[k] = Warm(k, Z[k - 1])
            BY <1>0, <1>4
      <2>2. 0 \in G
            BY <1>0, <2>1, InputFacts
      <2>3. ASSUME NEW k \in 1..N, k - 1 \in G PROVE k \in G
            BY <1>0, <1>3, <2>1, <2>3
      <2>4. \A k \in 0..N : k \in G
            <3> HIDE DEF G
            <3>1. QED
                  BY <1>0, <2>2, <2>3, Rising
      <2>5. QED
            BY <2>4
<1>6. \A i \in Slots : set[i] \in Zones
      <2> SUFFICES ASSUME NEW i \in Slots PROVE set[i] \in Zones
          OBVIOUS
      <2>1. Z[i - 1] \in Zones
            BY <1>0, <1>5
      <2>2. QED
            BY <2>1, BaselineZoneType
<1> HIDE DEF set
<1>7. net \in [Slots -> Int]
      <2> SUFFICES ASSUME NEW i \in Slots PROVE net[i] \in Int
          OBVIOUS
      <2>1. Heat(set[i], SlotTicks) \in Int
            BY <1>0, <1>6, ZoneType
      <2>2. Abs(Heat(set[i], SlotTicks)) \in Int
            BY <2>1 DEF Abs
      <2>3. ev[i] \in Int /\ CycleLoad(p, start, i) \in Int
            BY <1>2, CycleLoadType
      <2>4. ev[i] + CycleLoad(p, start, i) + Abs(Heat(set[i], SlotTicks)) \in Int
            BY <2>2, <2>3
      <2>5. (ev[i] + CycleLoad(p, start, i) + Abs(Heat(set[i], SlotTicks))) \div SlotTicks \in Int
            BY <2>4, Figures, Quotients
      <2>6. BaseLoad - Solar[i] \in Int
            BY Figures
      <2>7. QED
            BY <2>5, <2>6
<1> HIDE DEF net
<1>8. ASSUME NEW i \in 1..N, NEW v \in Int PROVE Room(i, v) \in Int
      <2>1. Clamp(0, Power, net[i]) \in Int
            BY <1>0, <1>7, Figures DEF Clamp, Least, Most
      <2>2. Clamp(0, Power, net[i]) * SlotTicks * Loss \in Int
            <3>1. Clamp(0, Power, net[i]) * SlotTicks \in Int /\ Loss \in Int
                  BY <1>0, <2>1, Figures, Products
            <3>2. QED
                  BY <3>1, Products
      <2>3. v + (IF i \in Night THEN 0 ELSE Clamp(0, Power, net[i]) * SlotTicks * Loss) \in Int
            BY <2>2
      <2>4. QED
            BY <2>3, Figures DEF Least
<1> HIDE DEF Room
<1>9. p.battery \in Batteries /\ p.battery.soc \in Int
      BY InputFacts DEF Batteries
<1>10. Ceiling = [i \in 1..N + 1 |-> IF i = N + 1 THEN p.battery.soc ELSE Room(i, Ceiling[i + 1])]
      <2> DEFINE V == Int
                 a == p.battery.soc
                 F == [k \in 1..N |-> [v \in V |-> Room(k, v)]]
      <2>1. N \in Nat /\ a \in V /\ Leads(F, N, V)
            BY <1>0, <1>8, <1>9 DEF Leads
      <2>2. PICK g \in [1..(N + 1) -> V] : g[N + 1] = a /\ \A k \in 1..N : g[k] = F[k][g[k + 1]]
            <3> HIDE DEF F, V, a
            <3>1. QED
                  BY <2>1, SlotsDescend
      <2>3. \A k \in 1..N : g[k] = Room(k, g[k + 1])
            <3> SUFFICES ASSUME NEW k \in 1..N PROVE g[k] = Room(k, g[k + 1])
                OBVIOUS
            <3>1. g[k + 1] \in V
                  BY <1>0
            <3> HIDE DEF V
            <3>2. \A v \in V : F[k][v] = Room(k, v)
                  OBVIOUS
            <3> HIDE DEF F
            <3>3. QED
                  BY <2>2, <3>1, <3>2
      <2>4. g = [i \in 1..N + 1 |-> IF i = N + 1 THEN p.battery.soc ELSE Room(i, g[i + 1])]
            BY <1>0, <2>2, <2>3
      <2>5. QED
            BY <2>4
<1> HIDE DEF Ceiling
<1>11. \A i \in 1..N + 1 : Ceiling[i] \in Int
      <2> DEFINE G == {k \in 1..N + 1 : Ceiling[k] \in Int}
      <2>1. Ceiling[N + 1] = p.battery.soc /\ \A k \in 1..N : Ceiling[k] = Room(k, Ceiling[k + 1])
            BY <1>0, <1>10
      <2>2. N + 1 \in G
            BY <1>0, <1>9, <2>1
      <2>3. ASSUME NEW k \in 1..N, k + 1 \in G PROVE k \in G
            <3>1. Ceiling[k + 1] \in Int /\ Ceiling[k] = Room(k, Ceiling[k + 1])
                  BY <2>1, <2>3
            <3>2. Room(k, Ceiling[k + 1]) \in Int
                  BY <1>8, <3>1
            <3>3. k \in 1..N + 1
                  BY <1>0
            <3>4. QED
                  BY <3>1, <3>2, <3>3
      <2>4. \A k \in 1..(N + 1) : k \in G
            <3> HIDE DEF G
            <3>1. N \in Nat
                  BY <1>0
            <3>2. QED
                  BY <2>2, <2>3, <3>1, Falling
      <2>5. QED
            BY <2>4
<1>12. ASSUME NEW i \in 1..N, NEW v \in Batteries PROVE Bat(i, v) \in Batteries
      <2> DEFINE b == BatteryAdvance(v, SlotTicks)
                 soc == IF i = 1 THEN p.battery.soc ELSE b.soc
      <2>1. b \in Batteries
            BY <1>0, BatteryType
      <2> HIDE DEF b
      <2>2. soc \in Int
            BY <1>9, <2>1 DEF Batteries
      <2> HIDE DEF soc
      <2>3. i \in Slots /\ net[i] \in Int /\ Ceiling[i + 1] \in Int
            BY <1>0, <1>7, <1>11
      <2>4. BaselineRate(p, i, net[i], soc, Ceiling[i + 1]) \in Int
            BY <2>2, <2>3, BaselineRateType
      <2>5. Bat(i, v) = [soc |-> soc, rate |-> BaselineRate(p, i, net[i], soc, Ceiling[i + 1])]
            BY DEF soc, b
      <2>6. QED
            BY <2>2, <2>4, <2>5 DEF Batteries
<1> HIDE DEF Bat
<1>13. B = [i \in 0..N |-> IF i = 0 THEN p.battery ELSE Bat(i, B[i - 1])]
      <2> DEFINE V == Batteries
                 a == p.battery
                 F == [k \in 1..N |-> [v \in V |-> Bat(k, v)]]
      <2>1. Leads(F, N, V) /\ a \in V /\ N \in Nat
            BY <1>0, <1>9, <1>12 DEF Leads
      <2>2. PICK g \in [0..N -> V] : g[0] = a /\ \A k \in 1..N : g[k] = F[k][g[k - 1]]
            <3> HIDE DEF F, V, a
            <3>1. QED
                  BY <2>1, Iterates
      <2>3. \A k \in 1..N : g[k] = Bat(k, g[k - 1])
            <3> SUFFICES ASSUME NEW k \in 1..N PROVE g[k] = Bat(k, g[k - 1])
                OBVIOUS
            <3>1. g[k - 1] \in V
                  BY <1>0
            <3> HIDE DEF V
            <3>2. \A v \in V : F[k][v] = Bat(k, v)
                  OBVIOUS
            <3> HIDE DEF F
            <3>3. QED
                  BY <2>2, <3>1, <3>2
      <2>4. g = [i \in 0..N |-> IF i = 0 THEN p.battery ELSE Bat(i, g[i - 1])]
            BY <1>0, <2>2, <2>3
      <2>5. QED
            BY <2>4
<1> HIDE DEF B
<1>14. \A i \in 0..N : B[i] \in Batteries
      <2> DEFINE G == {k \in 0..N : B[k] \in Batteries}
      <2>1. B[0] = p.battery /\ \A k \in 1..N : B[k] = Bat(k, B[k - 1])
            BY <1>0, <1>13
      <2>2. 0 \in G
            BY <1>0, <1>9, <2>1
      <2>3. ASSUME NEW k \in 1..N, k - 1 \in G PROVE k \in G
            BY <1>0, <1>12, <2>1, <2>3
      <2>4. \A k \in 0..N : k \in G
            <3> HIDE DEF G
            <3>1. QED
                  BY <1>0, <2>2, <2>3, Rising
      <2>5. QED
            BY <2>4
<1> DEFINE battery == [i \in Slots |-> B[i].rate]
           targets == [i \in Slots |-> set[i].target]
           modes == [i \in Slots |-> set[i].mode]
<1>15. battery \in [Slots -> Int]
      BY <1>0, <1>14 DEF Batteries
<1>16. targets \in [Slots -> Int] /\ modes \in [Slots -> Modes]
      BY <1>6 DEF Zones, Modes
<1> HIDE DEF battery, targets, modes
<1>17. baseline(p, method) = [ev |-> ev, start |-> start, battery |-> battery,
                              targets |-> targets, modes |-> modes]
      BY <1>1 DEF battery, targets, modes
<1>18. QED
      BY <1>2, <1>15, <1>16, <1>17 DEF Schedules

LEMMA ReplayExports ==
    ASSUME NEW p \in PlannerInputs, NEW x \in Schedules
    PROVE  \A i \in Slots : replay(p, x).exports[i] \in Int
<1> DEFINE r == Course(p, x)[N]
<1>1. N \in 0..N /\ Slots = 1..N
      BY Figures DEF Slots
<1>2. r \in Replays /\ Len(r.exports) = N
      BY <1>1, OpeningType, CourseFacts
<1> HIDE DEF r
<1>3. r.exports \in Seq(Int)
      BY <1>2 DEF Replays
<1>4. \A i \in Slots : r.exports[i] \in Int
      BY <1>1, <1>2, <1>3
<1>5. replay(p, x).exports = r.exports
      BY <1>2 DEF replay, Judged, r, Replays
<1>6. QED
      BY <1>4, <1>5

LEMMA RoundedType ==
    ASSUME NEW p \in PlannerInputs, p.step # 0, NEW x \in Schedules
    PROVE  Rounded(p, x) \in Schedules
<1> DEFINE Round(t) == LET q == t \div p.step
                           r == 2 * (t % p.step)
                       IN p.step * IF r < p.step \/ (r = p.step /\ q % 2 = 0)
                                   THEN q ELSE q + 1
           targets == [i \in Slots |-> Round(x.targets[i])]
<1>1. p.step \in Nat \ {0} /\ p.step \in Int
      BY InputFacts
<1>2. ASSUME NEW t \in Int PROVE Round(t) \in Int
      <2>1. t \div p.step \in Int /\ t \div p.step + 1 \in Int
            BY <1>1, Quotients
      <2>2. p.step * (t \div p.step) \in Int /\ p.step * (t \div p.step + 1) \in Int
            BY <1>1, <2>1, Products
      <2>3. QED
            BY <2>2
<1> HIDE DEF Round
<1>3. \A i \in Slots : x.targets[i] \in Int
      BY ScheduleFacts
<1>4. targets \in [Slots -> Int]
      BY <1>2, <1>3
<1>5. Rounded(p, x) = [x EXCEPT !.targets = targets]
      BY DEF Rounded, Round, Schedules
<1> HIDE DEF targets
<1>6. QED
      BY <1>4, <1>5 DEF Schedules

LEMMA TrimmedType ==
    ASSUME NEW p \in PlannerInputs, NEW x \in Schedules, NEW exports,
           \A i \in Slots : exports[i] \in Int
    PROVE  Trimmed(p, x, exports) \in [Slots -> Int]
<1> DEFINE cut == [i \in Slots |-> IF x.battery[i] > 0 /\ p.fixedBattery[i] = Free
                                THEN Least(exports[i], x.battery[i] * SlotTicks)
                                ELSE 0]
           can(a, i) == IF x.battery[i] < 0 /\ p.fixedBattery[i] = Free
                        THEN Least(a.left, -x.battery[i] * SlotTicks) ELSE 0
           Back(a, i) == [left |-> a.left - can(a, i),
                          rate |-> [a.rate EXCEPT ![i] = @ + can(a, i) \div SlotTicks]]
           first == [left |-> Total(cut) * Loss * Loss,
                     rate |-> [i \in Slots |-> x.battery[i] - cut[i] \div SlotTicks]]
           V == [left : Int, rate : [Slots -> Int]]
           C == CHOOSE S : S = [k \in 0..N |-> IF k = 0 THEN first ELSE Back(S[k - 1], N + 1 - k)]
           a == first
           F == [k \in 1..N |-> [v \in V |-> Back(v, N + 1 - k)]]
<1>0. /\ N \in Nat /\ SlotTicks \in Nat \ {0} /\ SlotTicks \in Int /\ Loss \in Int
      /\ \A k \in 1..N : N + 1 - k \in Slots
      BY Figures DEF Slots
<1>1. \A i \in Slots : x.battery[i] \in Int /\ x.battery[i] * SlotTicks \in Int
                       /\ -x.battery[i] * SlotTicks \in Int
      <2> SUFFICES ASSUME NEW i \in Slots
                   PROVE  x.battery[i] \in Int /\ x.battery[i] * SlotTicks \in Int
                          /\ -x.battery[i] * SlotTicks \in Int
          OBVIOUS
      <2>1. x.battery[i] \in Int /\ -x.battery[i] \in Int
            BY ScheduleFacts
      <2>2. QED
            BY <1>0, <2>1, Products
<1>2. cut \in [Slots -> Int]
      BY <1>1 DEF Least
<1>3. first \in V
      <2>1. Total(cut) \in Int
            BY <1>2, TotalType
      <2>2. Total(cut) * Loss \in Int
            BY <1>0, <2>1, Products
      <2>3. Total(cut) * Loss * Loss \in Int
            BY <1>0, <2>2, Products
      <2>4. ASSUME NEW i \in Slots PROVE x.battery[i] - cut[i] \div SlotTicks \in Int
            <3>1. cut[i] \in Int
                  BY <1>2
            <3> HIDE DEF cut
            <3>2. cut[i] \div SlotTicks \in Int
                  BY <1>0, <3>1, Quotients
            <3>3. QED
                  BY <1>1, <3>2
      <2> HIDE DEF cut
      <2>5. QED
            BY <2>3, <2>4
<1> HIDE DEF cut
<1>4. ASSUME NEW v \in V, NEW i \in Slots PROVE Back(v, i) \in V
      <2>1. v.left \in Int /\ v.rate \in [Slots -> Int]
            OBVIOUS
      <2>2. can(v, i) \in Int
            BY <1>1, <2>1 DEF Least
      <2> HIDE DEF can
      <2>3. can(v, i) \div SlotTicks \in Int
            BY <1>0, <2>2, Quotients
      <2>4. v.left - can(v, i) \in Int
            BY <2>1, <2>2
      <2>5. [v.rate EXCEPT ![i] = @ + can(v, i) \div SlotTicks] \in [Slots -> Int]
            BY <2>1, <2>3
      <2>6. QED
            BY <2>4, <2>5
<1> HIDE DEF first, Back, V
<1>5. Leads(F, N, V) /\ a \in V /\ N \in Nat
      BY <1>0, <1>3, <1>4 DEF Leads
<1>6. PICK g \in [0..N -> V] : g[0] = a /\ \A k \in 1..N : g[k] = F[k][g[k - 1]]
      <2> HIDE DEF F, a
      <2>1. QED
            BY <1>5, Iterates
<1>7. \A k \in 1..N : g[k] = Back(g[k - 1], N + 1 - k)
      <2> SUFFICES ASSUME NEW k \in 1..N PROVE g[k] = Back(g[k - 1], N + 1 - k)
          OBVIOUS
      <2>1. g[k - 1] \in V
            BY <1>0
      <2>2. \A v \in V : F[k][v] = Back(v, N + 1 - k)
            OBVIOUS
      <2> HIDE DEF F
      <2>3. QED
            BY <1>6, <2>1, <2>2
<1>8. g = [k \in 0..N |-> IF k = 0 THEN first ELSE Back(g[k - 1], N + 1 - k)]
      BY <1>0, <1>6, <1>7
<1>9. C = [k \in 0..N |-> IF k = 0 THEN first ELSE Back(C[k - 1], N + 1 - k)]
      BY <1>8
<1>10. Trimmed(p, x, exports) = C[N].rate
      BY DEF Trimmed, first, Back, cut
<1> DEFINE G == {k \in 0..N : C[k] \in V}
<1> HIDE DEF C
<1>11. 0 \in G
      BY <1>0, <1>3, <1>9
<1>12. ASSUME NEW k \in 1..N, k - 1 \in G PROVE k \in G
      <2>1. C[k - 1] \in V /\ C[k] = Back(C[k - 1], N + 1 - k)
            BY <1>0, <1>9, <1>12
      <2>2. QED
            BY <1>0, <1>4, <2>1
<1>13. \A k \in 0..N : k \in G
      <2> HIDE DEF G
      <2>1. QED
            BY <1>0, <1>11, <1>12, Rising
<1>14. C[N] \in V
      BY <1>0, <1>13
<1>15. QED
      BY <1>10, <1>14 DEF V

LEMMA QuantizedType ==
    ASSUME NEW p \in PlannerInputs, NEW x \in Schedules
    PROVE  quantized(p, x) \in Schedules
<1>1. CASE p.step = 0
      BY <1>1 DEF quantized
<1>2. CASE p.step # 0
      <2> DEFINE y == Rounded(p, x)
                 e == replay(p, y).exports
      <2>1. y \in Schedules
            BY <1>2, RoundedType
      <2> HIDE DEF y
      <2>2. \A i \in Slots : e[i] \in Int
            BY <2>1, ReplayExports
      <2> HIDE DEF e
      <2>3. Trimmed(p, x, e) \in [Slots -> Int]
            BY <2>2, TrimmedType
      <2>4. quantized(p, x) = [y EXCEPT !.battery = Trimmed(p, x, e)]
            BY <1>2 DEF quantized, y, e
      <2>5. QED
            BY <2>1, <2>3, <2>4 DEF Schedules
<1>3. QED
      BY <1>1, <1>2

\* What is checked before it is proposed.
LEMMA CandidateType ==
    ASSUME NEW p \in PlannerInputs, NEW answer, answer.x = Free \/ answer.x \in Schedules
    PROVE  Candidate(p, answer) = Free \/ Candidate(p, answer) \in Schedules
BY QuantizedType, BaselineType DEF Candidate

-----------------------------------------------------------------------------
(* What the members' requests lead to.                                     *)

\* Rows of table constraints, as the members' requests leave them.
Rows == [member : Residents, kind : Kinds, at : Int, upper : Maybe(Int), from : Int,
         to : Int, said : Int]
Sound(asks) ==
    /\ IsFiniteSet(asks) /\ asks \subseteq Rows
    /\ \A r \in asks : /\ OnBoundary(r.from)
                       /\ r.kind = "temperature_band" => r.upper \in Int

LEMMA AskFacts ==
    ASSUME NEW asks, Sound(asks), NEW S \in SUBSET asks
    PROVE  /\ IsFiniteSet(S) /\ S \subseteq Rows
           /\ {r.at : r \in S} \subseteq Int /\ IsFiniteSet({r.at : r \in S})
           /\ {r.to : r \in S} \subseteq Int /\ IsFiniteSet({r.to : r \in S})
           /\ IsFiniteSet({r.upper : r \in S})
<1>1. IsFiniteSet(S) /\ S \subseteq Rows
      BY FS_Subset DEF Sound
<1>2. \A r \in S : r.at \in Int /\ r.to \in Int
      BY <1>1 DEF Rows
<1>3. QED
      BY <1>1, <1>2, Fields

\* A finite set as a sequence has its elements.
LEMMA Listed ==
    ASSUME NEW S, IsFiniteSet(S)
    PROVE  SetToSeq(S) \in Seq(S) /\ ToSet(SetToSeq(S)) = S
<1> DEFINE n == Cardinality(S)
           T == 1..n
           f == SetToSeq(S)
<1>1. n \in Nat /\ ExistsBijection(T, S)
      BY FS_CardinalityType
<1>2. PICK g \in [T -> S] : IsInjective(g)
      BY <1>1 DEF ExistsBijection, Bijection, Injection, IsInjective
<1>3. f \in [T -> S] /\ IsInjective(f)
      BY <1>2 DEF SetToSeq
<1>4. IsFiniteSet(T) /\ Cardinality(T) = n
      <2>1. Cardinality(T) = IF 1 > n THEN 0 ELSE n - 1 + 1
            BY <1>1, FS_Interval
      <2>2. IsFiniteSet(T)
            BY <1>1, FS_Interval
      <2> HIDE DEF n
      <2>3. QED
            BY <1>1, <2>1, <2>2
<1> HIDE DEF f, T
<1>5. f \in Surjection(T, S)
      <2>1. f \in Injection(T, S)
            BY <1>3 DEF Injection, IsInjective
      <2>2. QED
            BY <1>4, <2>1, FS_Injection
<1>6. S = {f[k] : k \in DOMAIN f}
      BY <1>3, <1>5 DEF Surjection
<1>7. f \in Seq(S)
      BY <1>1, <1>3 DEF T
<1>8. QED
      BY <1>6, <1>7 DEF ToSet, f

\* The one element of a set, or something else.
LEMMA OnlyOne ==
    ASSUME NEW S, NEW v
    PROVE  LET e == IF Cardinality(S) = 1 THEN CHOOSE w \in S : TRUE ELSE v
           IN  e = v \/ e \in S
<1>1. S = {} => Cardinality(S) = 0
      BY FS_EmptySet
<1>2. QED
      BY <1>1

\* Each request is one constraint, in some order.
LEMMA MappedFacts ==
    ASSUME NEW asks, Sound(asks)
    PROVE  /\ Mapped(asks) \in Seq(Constraints)
           /\ ToSet(Mapped(asks)) =
                {[kind |-> r.kind, from |-> r.from, to |-> r.to,
                  at |-> IF r.kind \in {"ev_not_before", "appliance_not_before"}
                         THEN Least(r.at, r.to) ELSE r.at] : r \in asks}
<1> DEFINE One(r) == [kind |-> r.kind, from |-> r.from, to |-> r.to,
                      at |-> IF r.kind \in {"ev_not_before", "appliance_not_before"}
                             THEN Least(r.at, r.to) ELSE r.at]
           told == {One(r) : r \in asks}
           f == [r \in asks |-> One(r)]
<1>1. told = {f[r] : r \in asks}
      OBVIOUS
<1>2. IsFiniteSet(told)
      <2> HIDE DEF told, f
      <2>1. IsFiniteSet({f[r] : r \in asks})
            BY Images DEF Sound
      <2>2. QED
            BY <1>1, <2>1
<1>3. told \subseteq Constraints
      <2> SUFFICES ASSUME NEW r \in asks PROVE One(r) \in Constraints
          OBVIOUS
      <2>1. r.at \in Int /\ r.to \in Int /\ r.from \in Int /\ r.kind \in Kinds
            BY DEF Sound, Rows
      <2>2. Least(r.at, r.to) \in Int
            BY <2>1 DEF Least
      <2>3. QED
            BY <2>1, <2>2 DEF Constraints
<1>4. Mapped(asks) = SetToSeq(told)
      BY DEF Mapped
<1> HIDE DEF told
<1>5. SetToSeq(told) \in Seq(told) /\ ToSet(SetToSeq(told)) = told
      BY <1>2, Listed
<1>6. Seq(told) \subseteq Seq(Constraints)
      BY <1>3
<1>7. QED
      BY <1>4, <1>5, <1>6 DEF told

LEMMA WantedType ==
    ASSUME NEW p \in PlannerInputs, NEW asks, Sound(asks), NEW i
    PROVE  Wanted(p, asks, i) \subseteq Int
<1> SUFFICES ASSUME NEW w \in Ranked(p, asks, i) PROVE w.at \in Int
    BY DEF Wanted
<1>1. \/ w \in {[at |-> r.at, rank |-> comfort_rank(p, r), by |-> {r}] :
                   r \in InSlot(asks, "temperature", i)}
      \/ w \in {[at |-> v.at, rank |-> v.rank, by |-> {}] :
                   v \in {u \in windows(p, asks) : u.slot = i}}
      BY DEF Ranked
<1>2. \A r \in InSlot(asks, "temperature", i) : r.at \in Int
      BY DEF InSlot, In, Sound, Rows
<1>3. ASSUME NEW v \in windows(p, asks) PROVE v.at \in Int
      <2>1. PICK m \in Residents : v.at = p.taste[m] /\ p.taste[m] # Free
            BY DEF windows
      <2>2. p.taste[m] \in Maybe(Int)
            BY InputFacts
      <2>3. QED
            BY <2>1, <2>2 DEF Maybe
<1>4. QED
      BY <1>1, <1>2, <1>3

\* The input that the requests lead to: each request is a constraint, a deadline,
\* a band or a held target of it.
LEMMA CoordinatedFacts ==
    ASSUME NEW p \in PlannerInputs, NEW asks, Sound(asks)
    PROVE  LET q == coordinated(p, asks) IN
           /\ q \in PlannerInputs
           /\ q.constraints = p.constraints \o Mapped(asks)
           /\ q.talk = p.talk
           /\ \A r \in asks :
                /\ r.kind = "ev_target" => q.deadline <= r.to
                /\ r.kind = "ev_deadline" => q.deadline <= r.at
                /\ r.kind = "appliance_deadline" => q.applianceDeadline <= r.at
           /\ \A i \in Slots : \A r \in InSlot(asks, "temperature_band", i) :
                q.lower[i] >= r.at /\ q.upper[i] <= r.upper
           /\ \A i \in Slots : \A r \in InSlot(asks, "manual_hold", i) :
                Cardinality(InSlot(asks, "manual_hold", i)) <= 1 => q.held[i] = r.at
<1> DEFINE Band(i) == InSlot(asks, "temperature_band", i)
           Held0(i) == InSlot(asks, "manual_hold", i)
           Low(i) == Max({p.lower[i]} \cup {r.at : r \in Band(i)})
           High(i) == Min({p.upper[i]} \cup {r.upper : r \in Band(i)})
           Only(set, otherwise) == IF Cardinality(set) = 1 THEN CHOOSE v \in set : TRUE ELSE otherwise
           wanted == [i \in Slots |-> Only(Wanted(p, asks, i), Free)]
           ats == [i \in Slots |-> {r.at : r \in InSlot(asks, "manual_hold", i)}]
           target == Only(Targets(asks), p.target)
           deadline == Deadline(p, asks)
           late == Min({p.applianceDeadline} \cup {r.at : r \in In(asks, "appliance_deadline")})
           constraints == p.constraints \o Mapped(asks)
           lower == Updated(p.lower, [i \in Slots |-> Low(i)])
           upper == Updated(p.upper, [i \in Slots |-> High(i)])
           targets == [i \in Slots |-> Clamp(Low(i), High(i),
                         IF wanted[i] = Free THEN p.targets[i] ELSE wanted[i])]
           held == [i \in Slots |-> Only(ats[i], p.held[i])]
           q == coordinated(p, asks)
<1>0. Slots \subseteq 1..N + 1
      BY Figures DEF Slots
<1>1. /\ p.lower \in [1..N + 1 -> Int] /\ p.upper \in [1..N + 1 -> Int]
      /\ p.targets \in [Slots -> Int] /\ p.held \in [Slots -> Maybe(Int)]
      /\ p.target \in Int /\ p.deadline \in Int /\ p.applianceDeadline \in Int
      /\ p.constraints \in Seq(Constraints)
      BY InputFacts
<1>2. ASSUME NEW i \in Slots
      PROVE  /\ Low(i) \in Int /\ \A r \in Band(i) : r.at <= Low(i)
             /\ High(i) \in Int /\ \A r \in Band(i) : High(i) <= r.upper
      <2> DEFINE A == {r.at : r \in Band(i)}
                 B == {r.upper : r \in Band(i)}
      <2>1. Band(i) \subseteq asks
            BY DEF InSlot, In
      <2>2. A \subseteq Int /\ IsFiniteSet(A) /\ IsFiniteSet(B)
            BY <2>1, AskFacts
      <2>3. B \subseteq Int
            BY DEF InSlot, In, Sound
      <2>4. p.lower[i] \in Int /\ p.upper[i] \in Int
            BY <1>0, <1>1
      <2>5. (\A r \in Band(i) : r.at \in A) /\ (\A r \in Band(i) : r.upper \in B)
            OBVIOUS
      <2> HIDE DEF A, B
      <2>6. Max({p.lower[i]} \cup A) \in Int /\ \A x \in A : x <= Max({p.lower[i]} \cup A)
            BY <2>2, <2>4, LeastOf
      <2>7. Min({p.upper[i]} \cup B) \in Int /\ \A x \in B : Min({p.upper[i]} \cup B) <= x
            BY <2>2, <2>3, <2>4, LeastOf
      <2>8. QED
            BY <2>5, <2>6, <2>7 DEF A, B
<1> HIDE DEF Low, High
<1>3. ASSUME NEW S, NEW v PROVE Only(S, v) = v \/ Only(S, v) \in S
      BY OnlyOne
<1>4. wanted \in [Slots -> Maybe(Int)]
      <2>1. ASSUME NEW i \in Slots PROVE Only(Wanted(p, asks, i), Free) \in Maybe(Int)
            <3>1. Wanted(p, asks, i) \subseteq Int
                  BY WantedType
            <3> HIDE DEF Only
            <3>2. QED
                  BY <1>3, <3>1 DEF Maybe
      <2> HIDE DEF Only
      <2>2. QED
            BY <2>1
<1>5. target \in Int
      <2>1. Targets(asks) \subseteq Int
            BY AskFacts DEF Targets, In
      <2> HIDE DEF Only
      <2>2. QED
            BY <1>1, <1>3, <2>1
<1>6. ASSUME NEW i \in Slots
      PROVE  held[i] \in Maybe(Int) /\ \A r \in Held0(i) : Cardinality(Held0(i)) <= 1 => held[i] = r.at
      <2>1. Held0(i) \subseteq asks
            BY DEF InSlot, In
      <2>2. ats[i] \subseteq Int /\ IsFiniteSet(Held0(i))
            BY <2>1, AskFacts
      <2>3. held[i] \in Maybe(Int)
            <3>1. p.held[i] \in Maybe(Int)
                  BY <1>1
            <3> HIDE DEF ats, Only
            <3>2. QED
                  BY <1>3, <2>2, <3>1 DEF Maybe
      <2>4. ASSUME NEW r \in Held0(i), Cardinality(Held0(i)) <= 1 PROVE held[i] = r.at
            <3>1. Cardinality(Held0(i)) = 1
                  <4>1. Cardinality(Held0(i)) # 0 /\ Cardinality(Held0(i)) \in Nat
                        BY <2>2, FS_EmptySet, FS_CardinalityType
                  <4>2. QED
                        BY <2>4, <4>1
            <3>2. PICK s : Held0(i) = {s}
                  BY <2>2, <3>1, FS_Singleton
            <3>3. ats[i] = {r.at}
                  BY <3>2
            <3>4. Cardinality(ats[i]) = 1
                  BY <3>3, FS_Singleton
            <3>5. QED
                  BY <3>3, <3>4
      <2>5. QED
            BY <2>3, <2>4
<1>7. /\ deadline \in Int
      /\ \A r \in asks : r.kind = "ev_target" => deadline <= r.to
      /\ \A r \in asks : r.kind = "ev_deadline" => deadline <= r.at
      <2> DEFINE A == {r.to : r \in In(asks, "ev_target")}
                 B == {r.at : r \in In(asks, "ev_deadline")}
                 S == ({End} \cup A) \cup B
      <2>1. A \subseteq Int /\ IsFiniteSet(A) /\ B \subseteq Int /\ IsFiniteSet(B)
            BY AskFacts DEF In
      <2>2. /\ \A r \in asks : r.kind = "ev_target" => r.to \in A
            /\ \A r \in asks : r.kind = "ev_deadline" => r.at \in B
            BY DEF In
      <2>3. deadline = Min({p.deadline} \cup S)
            <3>1. {p.deadline, End} \cup A \cup B = {p.deadline} \cup S
                  OBVIOUS
            <3>2. QED
                  BY <3>1 DEF Deadline
      <2> HIDE DEF A, B
      <2>4. S \subseteq Int /\ IsFiniteSet(S)
            <3>1. IsFiniteSet(A \cup {End}) /\ End \in Int
                  BY <2>1, FS_AddElement, Figures
            <3>2. IsFiniteSet((A \cup {End}) \cup B)
                  BY <2>1, <3>1, FS_Union
            <3>3. S = (A \cup {End}) \cup B
                  OBVIOUS
            <3>4. QED
                  BY <2>1, <3>1, <3>2, <3>3
      <2>5. \A x \in A \cup B : x \in S
            OBVIOUS
      <2> HIDE DEF S
      <2>6. Min({p.deadline} \cup S) \in Int /\ \A x \in S : Min({p.deadline} \cup S) <= x
            BY <1>1, <2>4, LeastOf
      <2>7. QED
            BY <2>2, <2>3, <2>5, <2>6
<1>8. late \in Int /\ \A r \in asks : r.kind = "appliance_deadline" => late <= r.at
      <2> DEFINE B == {r.at : r \in In(asks, "appliance_deadline")}
      <2>1. B \subseteq Int /\ IsFiniteSet(B)
            BY AskFacts DEF In
      <2>2. \A r \in asks : r.kind = "appliance_deadline" => r.at \in B
            BY DEF In
      <2> HIDE DEF B
      <2>3. Min({p.applianceDeadline} \cup B) \in Int
            /\ \A x \in B : Min({p.applianceDeadline} \cup B) <= x
            BY <1>1, <2>1, LeastOf
      <2>4. QED
            BY <2>2, <2>3 DEF B
<1>9. constraints \in Seq(Constraints)
      BY <1>1, MappedFacts
<1>10. /\ lower \in [1..N + 1 -> Int] /\ upper \in [1..N + 1 -> Int]
       /\ \A i \in Slots : lower[i] = Low(i) /\ upper[i] = High(i)
       BY <1>0, <1>1, <1>2 DEF Updated
<1>11. targets \in [Slots -> Int]
       <2> SUFFICES ASSUME NEW i \in Slots PROVE targets[i] \in Int
           OBVIOUS
       <2> DEFINE t == IF wanted[i] = Free THEN p.targets[i] ELSE wanted[i]
       <2>1. t \in Int
             <3>1. wanted[i] \in Maybe(Int) /\ p.targets[i] \in Int
                   BY <1>1, <1>4
             <3> HIDE DEF wanted
             <3>2. QED
                   BY <3>1 DEF Maybe
       <2> HIDE DEF t
       <2>2. Clamp(Low(i), High(i), t) \in Int
             BY <1>2, <2>1 DEF Clamp, Least, Most
       <2>3. QED
             BY <2>2 DEF t
<1>12. q = [p EXCEPT !.target = target, !.deadline = deadline, !.applianceDeadline = late,
                     !.constraints = constraints, !.lower = lower, !.upper = upper,
                     !.targets = targets, !.preferences = wanted, !.held = held]
       BY DEF coordinated, Low, High, PlannerInputs
<1>13. held \in [Slots -> Maybe(Int)]
       BY <1>6
<1> HIDE DEF target, deadline, late, constraints, lower, upper, targets, wanted, held, q
<1>14. q \in PlannerInputs
       BY <1>4, <1>5, <1>7, <1>8, <1>9, <1>10, <1>11, <1>12, <1>13 DEF PlannerInputs, Constraints
<1>15. /\ q.deadline = deadline /\ q.applianceDeadline = late /\ q.constraints = constraints
       /\ q.lower = lower /\ q.upper = upper /\ q.held = held /\ q.talk = p.talk
       BY <1>12 DEF PlannerInputs
<1>16. QED
       BY <1>2, <1>6, <1>7, <1>8, <1>10, <1>14, <1>15 DEF q, constraints

\* A plan that is proposed passed the replay, and no request was in conflict.
LEMMA ProposedFacts ==
    ASSUME NEW p, NEW q \in PlannerInputs, NEW asks, NEW r \in coordinate(p, q, asks),
           r.schedule # Free
    PROVE  /\ conflicts(p, q, asks) = {}
           /\ r.schedule \in Schedules /\ Valid(replay(q, r.schedule))
<1> DEFINE bases == Baselines(q)
           answers == solve(q) \cup {[status |-> "cold_start", x |-> Free]}
<1>1. conflicts(p, q, asks) = {}
      BY DEF coordinate
<1>2. PICK answer \in answers : r = Outcome(p, asks, plan(q, answer, bases))
      BY <1>1 DEF coordinate
<1>3. answer.x = Free \/ answer.x \in Schedules
      BY <1>2, SolveType
<1> DEFINE made == plan(q, answer, bases)
           x == Candidate(q, answer)
<1>4. x = Free \/ x \in Schedules
      BY <1>3, CandidateType
<1> HIDE DEF bases, answers
<1>5. r.schedule = made.schedule
      <2> HIDE DEF made
      <2>1. r = Outcome(p, asks, made)
            BY <1>2 DEF made
      <2>2. QED
            BY <2>1 DEF Outcome
<1> HIDE DEF x
<1>6. made = Checked(q, answer.status, bases, x)
      BY DEF plan, x
<1> HIDE DEF made
<1>7. x # Free /\ Valid(replay(q, x)) /\ made.schedule = x
      BY <1>5, <1>6 DEF Checked, Proposed
<1>8. QED
      BY <1>1, <1>4, <1>5, <1>7

\* Without a conflict there is one target for the car and one hold for a slot.
LEMMA NoConflicts ==
    ASSUME NEW p, NEW q, NEW asks, conflicts(p, q, asks) = {}
    PROVE  /\ ~(Cardinality(Targets(asks)) > 1)
           /\ \A i \in Slots : ~(Cardinality(InSlot(asks, "manual_hold", i)) > 1)
<1>1. \A why, of, condition : condition => Because(why, of, condition) # {}
      BY DEF Because
<1>2. ~(Cardinality(Targets(asks)) > 1)
      <2> SUFFICES ASSUME Cardinality(Targets(asks)) > 1 PROVE FALSE
          OBVIOUS
      <2>1. [why |-> "targets disagree", of |-> In(asks, "ev_target")]
              \in Because("targets disagree", In(asks, "ev_target"), Cardinality(Targets(asks)) > 1)
            BY DEF Because
      <2>2. [why |-> "targets disagree", of |-> In(asks, "ev_target")] \in CarConflicts(p, q, asks)
            BY <2>1, Zenon DEF CarConflicts
      <2>3. QED
            BY <2>2 DEF conflicts
<1>3. ASSUME NEW i \in Slots, Cardinality(InSlot(asks, "manual_hold", i)) > 1 PROVE FALSE
      <2> DEFINE H == InSlot(asks, "manual_hold", i)
                 e == [why |-> "holds", of |-> H]
      <2>1. e \in Because("holds", H, Cardinality(H) > 1)
            BY <1>3 DEF Because
      <2> HIDE DEF e
      <2>2. e \in SlotConflicts(p, q, asks, i)
            BY <2>1, Zenon DEF SlotConflicts
      <2>3. e \in RoomConflicts(p, q, asks)
            BY <2>2, Zenon DEF RoomConflicts
      <2>4. QED
            BY <2>3 DEF conflicts
<1>4. QED
      BY <1>2, <1>3

\* Every request on record is honoured by a schedule that passed.
LEMMA ScheduleHonours ==
    ASSUME NEW p \in PlannerInputs, NEW asks, Sound(asks), NEW q, q = coordinated(p, asks),
           conflicts(p, q, asks) = {}, NEW x \in Schedules, Valid(replay(q, x)),
           NEW r \in asks
    PROVE  Honours(r, x, Course(q, x))
<1> DEFINE course == Course(q, x)
           mine == {i \in Slots : active(r, Start(i), Finish(i))}
           charging == {i \in Slots : x.ev[i] > 0}
           told(s) == [kind |-> s.kind, from |-> s.from, to |-> s.to,
                       at |-> IF s.kind \in {"ev_not_before", "appliance_not_before"}
                              THEN Least(s.at, s.to) ELSE s.at]
<1>1. /\ q \in PlannerInputs /\ q.constraints = p.constraints \o Mapped(asks)
      /\ r.kind = "ev_target" => q.deadline <= r.to
      /\ r.kind = "ev_deadline" => q.deadline <= r.at
      /\ r.kind = "appliance_deadline" => q.applianceDeadline <= r.at
      /\ \A i \in Slots : r \in InSlot(asks, "temperature_band", i) =>
            q.lower[i] >= r.at /\ q.upper[i] <= r.upper
      /\ \A i \in Slots : r \in InSlot(asks, "manual_hold", i) =>
            (Cardinality(InSlot(asks, "manual_hold", i)) <= 1 => q.held[i] = r.at)
      BY CoordinatedFacts
<1>2. /\ r.kind \in Kinds /\ r.at \in Int /\ r.from \in Int /\ r.to \in Int
      /\ r.kind = "temperature_band" => r.upper \in Int
      /\ OnBoundary(r.from)
      BY DEF Sound, Rows
<1>3. /\ p.constraints \in Seq(Constraints) /\ Mapped(asks) \in Seq(Constraints)
      /\ ToSet(Mapped(asks)) = {told(s) : s \in asks}
      BY InputFacts, MappedFacts
<1>4. ToSet(Mapped(asks)) \subseteq ToSet(q.constraints)
      <2> DEFINE a == p.constraints
                 b == Mapped(asks)
      <2>1. a \in Seq(Constraints) /\ b \in Seq(Constraints) /\ q.constraints = a \o b
            BY <1>1, <1>3
      <2> HIDE DEF a, b
      <2>2. ASSUME NEW k \in DOMAIN b
            PROVE  Len(a) + k \in DOMAIN (a \o b) /\ (a \o b)[Len(a) + k] = b[k]
            BY <2>1
      <2>3. QED
            BY <2>1, <2>2 DEF ToSet, b
<1>5. told(r) \in ToSet(q.constraints)
      BY <1>3, <1>4
<1>6. /\ course[N].ev.soc = effective(q).target
      /\ \A i \in 0..N : course[i].reasons = {}
      BY <1>1, ValidCourse
<1>7. /\ \A i \in Slots : course[i] = ReplaySlot(q, x, i, course[i - 1])
      /\ \A i \in 0..N : course[i] \in Replays
      BY <1>1, OpeningType, CourseFacts
<1> HIDE DEF course
<1>8. ASSUME NEW i \in Slots
      PROVE  /\ course[i] \in Replays /\ course[i - 1] \in Replays
             /\ course[i].appliance.left >= 0
             /\ q.held[i] # Free => x.targets[i] = q.held[i]
             /\ x.ev[i] > 0 => Chargeable(q, i)
             /\ \A c \in Ceilings(q, i) : ~(course[i].ev.soc > c)
             /\ x.start = i => ~(Start(i) < effective(q).release)
             /\ Finish(i) >= q.applianceDeadline => ~Running(course[i].appliance)
             /\ ~(Least(course[i - 1].zone.temp, course[i].zone.temp) < q.lower[i])
             /\ ~(Most(course[i - 1].zone.temp, course[i].zone.temp) > q.upper[i])
      <2>1. i \in 0..N /\ i - 1 \in 0..N
            BY Figures DEF Slots
      <2>2. course[i] \in Replays /\ course[i - 1] \in Replays /\ course[i].reasons = {}
            BY <1>6, <1>7, <2>1
      <2>3. course[i] = ReplaySlot(q, x, i, course[i - 1])
            BY <1>7
      <2> DEFINE before == course[i - 1]
      <2> HIDE DEF before
      <2>4. before \in Replays /\ ReplaySlot(q, x, i, before).reasons = {}
            BY <2>2, <2>3 DEF before
      <2>5. ReplaySlot(q, x, i, before).appliance.left >= 0
            BY <2>4, SlotType
      <2>6. LET n == ReplaySlot(q, x, i, before) IN
            /\ q.held[i] # Free => x.targets[i] = q.held[i]
            /\ x.ev[i] > 0 => Chargeable(q, i)
            /\ \A c \in Ceilings(q, i) : ~(n.ev.soc > c)
            /\ x.start = i => ~(Start(i) < effective(q).release)
            /\ Finish(i) >= q.applianceDeadline => ~Running(n.appliance)
            /\ ~(Least(before.zone.temp, n.zone.temp) < q.lower[i])
            /\ ~(Most(before.zone.temp, n.zone.temp) > q.upper[i])
            BY <1>1, <2>4, SlotAccepted
      <2>7. QED
            BY <2>2, <2>3, <2>5, <2>6 DEF before
<1>9. /\ effective(q).target \in Int /\ effective(q).evStart \in Int /\ effective(q).release \in Int
      /\ r.kind = "ev_not_before" => Least(r.at, r.to) <= effective(q).evStart
      /\ r.kind = "appliance_not_before" => Least(r.at, r.to) <= effective(q).release
      BY <1>1, <1>5, EffectiveFacts
<1>10. \A i \in Slots : Start(i) \in Int /\ Finish(i) \in Int
       BY SlotsFinite, Times
<1>11. q.deadline \in Int /\ q.applianceDeadline \in Int
       BY <1>1, InputFacts
<1>12. \A i \in charging : Finish(i) <= q.deadline /\ Start(i) >= effective(q).evStart
       BY <1>8 DEF Chargeable
<1>13. CASE r.kind = "ev_target"
       <2> DEFINE cs == q.constraints
                  targets == {k \in DOMAIN cs : cs[k].kind = "ev_target"}
       <2>1. course[N].ev.soc = r.at
             <3> DEFINE a == p.constraints
                        b == Mapped(asks)
             <3>1. /\ cs = a \o b /\ Len(a) \in Nat
                   /\ DOMAIN b = 1..Len(b) /\ Len(b) \in Nat
                   /\ DOMAIN cs = 1..Len(a) + Len(b)
                   /\ \A k \in DOMAIN cs : k > Len(a) => cs[k] = b[k - Len(a)]
                   BY <1>1, <1>3
             <3>2. PICK m \in DOMAIN b : b[m] = told(r)
                   BY <1>3 DEF ToSet
             <3> HIDE DEF a, b
             <3>3. Len(a) + m \in DOMAIN cs /\ cs[Len(a) + m] = b[m]
                   BY <3>1, <3>2
             <3>4. Len(a) + m \in targets
                   BY <1>13, <3>2, <3>3
             <3>5. PICK k \in targets :
                         /\ \A j \in targets : j <= k
                         /\ effective(q).target = cs[k].at
                   BY <1>1, <3>4, EffectiveFacts
             <3>6. k \in DOMAIN cs /\ k >= Len(a) + m /\ cs[k].kind = "ev_target"
                   BY <3>4, <3>5
             <3>7. k - Len(a) \in DOMAIN b /\ cs[k] = b[k - Len(a)]
                   BY <3>1, <3>2, <3>6
             <3>8. b[k - Len(a)] \in ToSet(b)
                   BY <3>7 DEF ToSet
             <3>9. PICK s \in asks : cs[k] = told(s)
                   BY <1>3, <3>7, <3>8 DEF b
             <3>10. s.kind = "ev_target" /\ cs[k].at = s.at
                    BY <3>6, <3>9
             <3>11. s.at \in Targets(asks) /\ r.at \in Targets(asks)
                    BY <1>13, <3>10 DEF Targets, In
             <3>12. s.at = r.at
                    <4> DEFINE T == Targets(asks)
                    <4>1. IsFiniteSet(T)
                          BY AskFacts DEF Targets, In
                    <4>2. ~(Cardinality(T) > 1)
                          BY NoConflicts
                    <4> HIDE DEF T
                    <4>3. Cardinality(T) \in Nat /\ (Cardinality(T) = 0 <=> T = {})
                          BY <4>1, FS_CardinalityType, FS_EmptySet
                    <4>4. Cardinality(T) = 1
                          BY <3>11, <4>2, <4>3 DEF T
                    <4>5. PICK v : T = {v}
                          BY <4>1, <4>4, FS_Singleton
                    <4>6. QED
                          BY <3>11, <4>5 DEF T
             <3>13. QED
                    BY <1>6, <3>5, <3>10, <3>12
       <2>2. \A i \in charging : Finish(i) <= r.to
             BY <1>1, <1>2, <1>10, <1>11, <1>12, <1>13
       <2>3. QED
             BY <1>13, <2>1, <2>2 DEF Honours, course
<1>14. CASE r.kind = "ev_ceiling"
       <2>1. ASSUME NEW i \in mine PROVE course[i].ev.soc <= r.at
             <3>1. told(r) \in Limits(q)
                   BY <1>5, <1>14 DEF Limits
             <3>2. i \in Covered(told(r))
                   <4>1. r.from < Finish(i) /\ Start(i) < r.to
                         BY DEF active
                   <4>2. r.from <= Start(i) \/ Finish(i) <= r.from
                         BY <1>2 DEF OnBoundary
                   <4>3. QED
                         BY <1>2, <1>10, <4>1, <4>2 DEF Covered
             <3>3. told(r).at \in Ceilings(q, i) /\ told(r).at = r.at
                   BY <1>14, <3>1, <3>2 DEF Ceilings
             <3>4. ~(course[i].ev.soc > r.at) /\ course[i].ev.soc \in Int
                   BY <1>8, <3>3 DEF Replays, EVs
             <3>5. QED
                   BY <1>2, <3>4
       <2>2. QED
             BY <1>14, <2>1 DEF Honours, course
<1>15. CASE r.kind = "ev_not_before"
       <2>1. \A i \in charging : Start(i) >= Least(r.at, r.to)
             BY <1>2, <1>9, <1>10, <1>12, <1>15 DEF Least
       <2>2. QED
             BY <1>15, <2>1 DEF Honours
<1>16. CASE r.kind = "ev_deadline"
       <2>1. \A i \in charging : Finish(i) <= r.at
             BY <1>1, <1>2, <1>10, <1>11, <1>12, <1>16
       <2>2. QED
             BY <1>16, <2>1 DEF Honours
<1>17. CASE r.kind = "appliance_not_before"
       <2>1. x.start # 0 => Start(x.start) >= Least(r.at, r.to)
             <3>1. x.start # 0 => x.start \in Slots
                   BY Figures DEF Schedules, Slots
             <3>2. QED
                   BY <1>2, <1>8, <1>9, <1>10, <1>17, <3>1 DEF Least
       <2>2. QED
             BY <1>17, <2>1 DEF Honours
<1>18. CASE r.kind = "appliance_deadline"
       <2>1. ASSUME NEW i \in Slots, Finish(i) >= r.at PROVE course[i].appliance.left = 0
             <3>1. Finish(i) >= q.applianceDeadline
                   BY <1>1, <1>2, <1>10, <1>11, <1>18, <2>1
             <3>2. ~(course[i].appliance.left > 0) /\ course[i].appliance.left \in Int
                   BY <1>8, <3>1 DEF Running, Replays, Appliances
             <3>3. QED
                   BY <1>8, <3>2
       <2>2. QED
             BY <1>18, <2>1 DEF Honours, course
<1>19. CASE r.kind = "temperature_band"
       <2>1. ASSUME NEW i \in mine
             PROVE  {course[i - 1].zone.temp, course[i].zone.temp} \subseteq r.at..r.upper
             <3>1. q.lower[i] >= r.at /\ q.upper[i] <= r.upper
                   BY <1>1, <1>19 DEF InSlot, In
             <3>2. q.lower[i] \in Int /\ q.upper[i] \in Int
                   <4>1. q.lower \in [1..N + 1 -> Int] /\ q.upper \in [1..N + 1 -> Int]
                         BY <1>1, InputFacts
                   <4>2. i \in 1..N + 1
                         BY Figures DEF Slots
                   <4>3. QED
                         BY <4>1, <4>2
             <3> DEFINE u == course[i - 1].zone.temp
                        v == course[i].zone.temp
             <3>3. u \in Int /\ v \in Int
                   BY <1>8 DEF Replays, Zones
             <3>4. ~(Least(u, v) < q.lower[i]) /\ ~(Most(u, v) > q.upper[i])
                   BY <1>8
             <3> HIDE DEF u, v
             <3>5. u \in r.at..r.upper /\ v \in r.at..r.upper
                   BY <1>2, <1>19, <3>1, <3>2, <3>3, <3>4 DEF Least, Most
             <3>6. QED
                   BY <3>5 DEF u, v
       <2>2. QED
             BY <1>19, <2>1 DEF Honours, course
<1>20. CASE r.kind = "manual_hold"
       <2>1. ASSUME NEW i \in mine PROVE x.targets[i] = r.at
             <3> DEFINE H == InSlot(asks, "manual_hold", i)
             <3>1. r \in H
                   BY <1>20 DEF InSlot, In
             <3>2. IsFiniteSet(H)
                   <4>1. H \subseteq asks
                         BY DEF InSlot, In
                   <4>2. QED
                         BY <4>1, AskFacts
             <3>3. ~(Cardinality(H) > 1)
                   BY NoConflicts
             <3>4. Cardinality(H) <= 1
                   <4> HIDE DEF H
                   <4>1. Cardinality(H) \in Nat
                         BY <3>2, FS_CardinalityType
                   <4>2. QED
                         BY <3>3, <4>1
             <3>5. q.held[i] = r.at
                   BY <1>1, <3>1, <3>4
             <3>6. QED
                   BY <1>2, <1>8, <3>5, Figures
       <2>2. QED
             BY <1>20, <2>1 DEF Honours
<1>21. CASE r.kind = "temperature"
       BY <1>21 DEF Honours
<1>22. QED
       BY <1>2, <1>13, <1>14, <1>15, <1>16, <1>17, <1>18, <1>19, <1>20, <1>21 DEF Kinds

-----------------------------------------------------------------------------
(* The timetable: what a sequence of events says of it.                    *)

EventKinds == Comings \cup Sleeps \cup {"member", "failed", "changed"}
Happenings == [at : Int, kind : EventKinds]
States == [ev : EVs, battery : Batteries, zone : Zones, appliance : Appliances,
           device : Devices, presence : [present : BOOLEAN, asleep : BOOLEAN],
           events : Seq(Happenings)]
Worlds == [s : States, at : Int]

\* Of the timetable, P has happened: each transition once, in order.
Tells(events, P) ==
    LET kept == {i \in DOMAIN events : events[i] \in Timetable}
    IN /\ {events[i] : i \in kept} = P
       /\ \A i, j \in kept : i < j => events[i] # events[j] /\ events[i].at <= events[j].at
By(t) == {e \in Timetable : e.at <= t}
Kept(w) == Tells(w.s.events, By(w.at))

\* What a transition of the timetable is.
LEMMA Timetabled ==
    ASSUME NEW e \in Timetable
    PROVE  /\ e \in Happenings /\ e.at \in 0..End /\ e.at \in Int /\ e.kind \in Comings \cup Sleeps
BY TwinAssumption DEF Happenings, EventKinds, Comings, Sleeps

\* One more event that is told: a transition not yet told, or none of the timetable.
LEMMA TellsMore ==
    ASSUME NEW events \in Seq(Happenings), NEW P, Tells(events, P), NEW e \in Happenings
    PROVE  /\ Append(events, e) \in Seq(Happenings)
           /\ e \notin Timetable => Tells(Append(events, e), P)
           /\ e \in Timetable /\ e \notin P /\ (\A d \in P : d.at <= e.at)
                => Tells(Append(events, e), P \cup {e})
<1> DEFINE more == Append(events, e)
           n == Len(events)
           kept == {i \in DOMAIN events : events[i] \in Timetable}
           cur == {i \in DOMAIN more : more[i] \in Timetable}
<1>1. /\ n \in Nat /\ DOMAIN events = 1..n /\ DOMAIN more = 1..(n + 1) /\ more \in Seq(Happenings)
      /\ more[n + 1] = e /\ \A i \in 1..n : more[i] = events[i]
      OBVIOUS
<1>2. /\ {events[i] : i \in kept} = P
      /\ \A i, j \in kept : i < j => events[i] # events[j] /\ events[i].at <= events[j].at
      BY DEF Tells
<1> HIDE DEF more, n
<1>3. ASSUME e \notin Timetable PROVE Tells(more, P)
      <2>1. cur = kept /\ \A i \in kept : more[i] = events[i]
            BY <1>1, <1>3
      <2>2. {more[i] : i \in cur} = P
            BY <1>2, <2>1
      <2>3. QED
            BY <1>2, <2>1, <2>2 DEF Tells
<1>4. ASSUME e \in Timetable, e \notin P, \A d \in P : d.at <= e.at PROVE Tells(more, P \cup {e})
      <2>1. cur = kept \cup {n + 1} /\ \A i \in kept : more[i] = events[i] /\ i \in 1..n
            BY <1>1, <1>4
      <2> HIDE DEF kept, cur
      <2>2. {more[i] : i \in cur} = P \cup {e}
            BY <1>1, <1>2, <2>1
      <2>3. ASSUME NEW i \in cur, NEW j \in cur, i < j
            PROVE  more[i] # more[j] /\ more[i].at <= more[j].at
            <3>1. i \in kept
                  BY <1>1, <2>1, <2>3
            <3>2. CASE j \in kept
                  BY <1>2, <2>1, <2>3, <3>1, <3>2
            <3>3. CASE j = n + 1
                  <4>1. events[i] \in P /\ more[i] = events[i] /\ more[j] = e
                        BY <1>1, <1>2, <2>1, <3>1, <3>3
                  <4>2. QED
                        BY <1>4, <4>1
            <3>4. QED
                  BY <2>1, <3>2, <3>3
      <2>4. QED
            BY <2>2, <2>3 DEF Tells, cur
<1>5. QED
      BY <1>1, <1>3, <1>4 DEF more

Falls(t, kinds) == {e \in Timetable : e.at = t /\ e.kind \in kinds}

\* One sort of transition at an instant: at most one is due, and it is told.
LEMMA MovedKept ==
    ASSUME NEW s \in States, NEW P, Tells(s.events, P), NEW t, NEW kinds \in {Comings, Sleeps},
           \A d \in P : d.at <= t, \A d \in P : d.at = t => d.kind \notin kinds
    PROVE  LET m == Moved(s, t, kinds) IN
           m \in States /\ Tells(m.events, P \cup Falls(t, kinds)) /\ m.device = s.device
<1> DEFINE due == Falls(t, kinds)
           e == CHOOSE e \in due : TRUE
<1>1. CASE due = {}
      <2>1. Moved(s, t, kinds) = s /\ P \cup due = P
            BY <1>1, Zenon DEF Moved, Falls
      <2>2. QED
            BY <2>1
<1>2. CASE due # {}
      <2>1. e \in due
            BY <1>2
      <2>2. due = {e}
            <3>1. \A d \in due : d = e
                  <4> SUFFICES ASSUME NEW d \in due PROVE d = e
                      OBVIOUS
                  <4>1. d \in Timetable /\ e \in Timetable /\ d.at = e.at /\ d.kind \in kinds
                        /\ e.kind \in kinds
                        BY <2>1 DEF Falls
                  <4>2. d.kind \in Comings <=> e.kind \in Comings
                        BY <4>1 DEF Comings, Sleeps
                  <4> HIDE DEF e
                  <4>3. QED
                        BY <4>1, <4>2, TwinAssumption
            <3>2. QED
                  BY <2>1, <3>1
      <2>3. Moved(s, t, kinds) = [s EXCEPT !.presence = PresenceChange(@, e.kind),
                                           !.events = Append(@, e)]
            BY <1>2, Zenon DEF Moved, Falls
      <2> HIDE DEF e
      <2>4. e \in Timetable /\ e \in Happenings /\ e.at = t /\ e.kind \in kinds
            BY <2>1, Timetabled DEF Falls
      <2>5. e \notin P /\ \A d \in P : d.at <= e.at
            BY <2>4
      <2>6. s.events \in Seq(Happenings) /\ s.presence \in [present : BOOLEAN, asleep : BOOLEAN]
            BY DEF States
      <2>7. Append(s.events, e) \in Seq(Happenings) /\ Tells(Append(s.events, e), P \cup {e})
            BY <2>4, <2>5, <2>6, TellsMore
      <2>8. PresenceChange(s.presence, e.kind) \in [present : BOOLEAN, asleep : BOOLEAN]
            <3>1. e.kind \in {"arrive", "leave", "sleep", "wake"}
                  BY <2>4 DEF Comings, Sleeps
            <3>2. QED
                  BY <2>6, <3>1 DEF PresenceChange
      <2> DEFINE presence == PresenceChange(s.presence, e.kind)
                 events == Append(s.events, e)
      <2> HIDE DEF presence, events, due
      <2>9. Moved(s, t, kinds) = [s EXCEPT !.presence = presence, !.events = events]
            BY <2>3 DEF presence, events
      <2>10. events \in Seq(Happenings) /\ Tells(events, P \cup due)
            BY <2>2, <2>7 DEF events
      <2>11. presence \in [present : BOOLEAN, asleep : BOOLEAN]
            BY <2>8 DEF presence
      <2>12. QED
            BY <2>9, <2>10, <2>11 DEF States, due
<1>3. QED
      BY <1>1, <1>2

\* All that is due at an instant is told there.
LEMMA EventsKept ==
    ASSUME NEW s \in States, NEW a \in Int, NEW t \in Int, a < t, Tells(s.events, By(a)),
           \A e \in Timetable : a < e.at => t <= e.at
    PROVE  Events(s, t) \in States /\ Tells(Events(s, t).events, By(t))
<1> DEFINE come == Falls(t, Comings)
           slept == Falls(t, Sleeps)
           m == Moved(s, t, Comings)
           n == Moved(m, t, Sleeps)
           after == DeviceAdvance(s.device, t)
           P == By(a)
           Q == P \cup come
<1>1. \A e \in Timetable : e.at \in Int /\ e.kind \in Comings \cup Sleeps
      BY Timetabled
<1>2. (\A d \in P : d.at <= t) /\ (\A d \in P : d.at = t => d.kind \notin Comings)
      BY <1>1 DEF By
<1>3. m \in States /\ Tells(m.events, Q) /\ m.device = s.device
      <2>1. Comings \in {Comings, Sleeps} /\ Tells(s.events, P)
            OBVIOUS
      <2> HIDE DEF P
      <2>2. QED
            BY <1>2, <2>1, MovedKept
<1>4. (\A d \in Q : d.at <= t) /\ (\A d \in Q : d.at = t => d.kind \notin Sleeps)
      BY <1>1, <1>2 DEF By, Comings, Sleeps, Falls
<1> HIDE DEF m
<1>5. n \in States /\ Tells(n.events, Q \cup slept) /\ n.device = s.device
      <2>1. Sleeps \in {Comings, Sleeps}
            OBVIOUS
      <2> HIDE DEF Q
      <2>2. QED
            BY <1>3, <1>4, <2>1, MovedKept
<1>6. Q \cup slept = By(t)
      BY <1>1 DEF By, Falls
<1> HIDE DEF n, P
<1>7. CASE after = s.device
      <2>1. Events(s, t) = n
            BY <1>7, Zenon DEF Events, n, m
      <2>2. QED
            BY <1>5, <1>6, <2>1
<1>8. CASE after # s.device
      <2> DEFINE e == [at |-> t, kind |-> IF after.on = s.device.on THEN "failed" ELSE "changed"]
      <2>1. Events(s, t) = [n EXCEPT !.device = after, !.events = Append(@, e)]
            BY <1>8, Zenon DEF Events, n, m
      <2>2. e \in Happenings
            BY DEF Happenings, EventKinds
      <2>3. e \notin Timetable
            BY <1>1 DEF Comings, Sleeps
      <2>4. after \in Devices
            <3>1. s.device \in Devices
                  BY DEF States
            <3> DEFINE v == s.device
            <3> HIDE DEF v
            <3>2. v \in Devices => [on |-> IF v.fails THEN v.on ELSE ~v.on, due |-> 0,
                                     fails |-> FALSE] \in Devices
                  <4> SUFFICES ASSUME v \in Devices
                               PROVE  [on |-> IF v.fails THEN v.on ELSE ~v.on, due |-> 0,
                                       fails |-> FALSE] \in Devices
                      OBVIOUS
                  <4>1. v.on \in BOOLEAN /\ v.fails \in BOOLEAN
                        BY DEF Devices
                  <4>2. (IF v.fails THEN v.on ELSE ~v.on) \in BOOLEAN
                        BY <4>1
                  <4>3. QED
                        BY <4>2 DEF Devices
            <3>3. v \in Devices => DeviceAdvance(v, t) \in Devices
                  BY <3>2 DEF DeviceAdvance
            <3>4. QED
                  BY <3>1, <3>3 DEF v
      <2> HIDE DEF e, after
      <2>5. n.events \in Seq(Happenings)
            BY <1>5 DEF States
      <2>6. Append(n.events, e) \in Seq(Happenings) /\ Tells(Append(n.events, e), By(t))
            BY <1>5, <1>6, <2>2, <2>3, <2>5, TellsMore
      <2>7. QED
            BY <1>5, <2>1, <2>4, <2>6 DEF States
<1>9. QED
      BY <1>7, <1>8

-----------------------------------------------------------------------------
(* The world as it is advanced.                                            *)

LEMMA StepType ==
    ASSUME NEW s \in States, NEW d \in Int
    PROVE  Step(s, d) \in States /\ Step(s, d).events = s.events
<1>1. /\ s.ev \in EVs /\ s.battery \in Batteries /\ s.zone \in Zones /\ s.appliance \in Appliances
      BY DEF States
<1> DEFINE a == EVAdvance(s.ev, d)
           b == BatteryAdvance(s.battery, d)
           c == ZoneAdvance(s.zone, d)
           e == ApplianceAdvance(s.appliance, d)
<1>2. a \in EVs /\ b \in Batteries /\ c \in Zones /\ e \in Appliances
      BY <1>1, EVType, BatteryType, ZoneType, ApplianceType
<1>3. Step(s, d) = [s EXCEPT !.ev = a, !.battery = b, !.zone = c, !.appliance = e]
      BY DEF Step
<1> HIDE DEF a, b, c, e
<1>4. QED
      BY <1>2, <1>3 DEF States

LEMMA CeilType == ASSUME NEW a \in Int, NEW b \in Nat \ {0} PROVE Ceil(a, b) \in Int
<1>1. a + b - 1 \in Int
      OBVIOUS
<1>2. QED
      BY <1>1, Quotients DEF Ceil

LEMMA ToLimitType ==
    ASSUME NEW s \in States
    PROVE  ToLimit(s) \subseteq Int /\ IsFiniteSet(ToLimit(s))
<1> DEFINE e == s.ev
           b == s.battery
           room == IF b.rate > 0 THEN Most(0, b.soc - Reserve) \div Loss
                   ELSE (Capacity - b.soc) * Loss
           u == Ceil(e.limit - e.soc, Charger)
           v == Ceil(room, Least(Abs(b.rate), Power))
<1>1. e.limit \in Int /\ e.soc \in Int /\ b.rate \in Int /\ b.soc \in Int
      BY DEF States, EVs, Batteries
<1>2. u \in Int
      <2>1. e.limit - e.soc \in Int
            BY <1>1
      <2> HIDE DEF e
      <2>2. QED
            BY <2>1, CeilType, Figures
<1>3. b.rate # 0 => v \in Int
      <2>1. room \in Int
            <3>1. Most(0, b.soc - Reserve) \in Int /\ Capacity - b.soc \in Int
                  BY <1>1, Figures DEF Most
            <3>2. Most(0, b.soc - Reserve) \div Loss \in Int /\ (Capacity - b.soc) * Loss \in Int
                  BY <3>1, Figures, Quotients, Products
            <3>3. QED
                  BY <3>2
      <2>2. b.rate # 0 => Least(Abs(b.rate), Power) \in Nat \ {0}
            BY <1>1, Figures DEF Least, Abs
      <2> HIDE DEF room, b
      <2>3. QED
            BY <2>1, <2>2, CeilType
<1>4. ToLimit(s) = (IF e.charging /\ e.soc < e.limit THEN {u} ELSE {})
                   \cup (IF b.rate # 0 /\ room > 0 THEN {v} ELSE {})
      BY DEF ToLimit
<1> DEFINE A == IF e.charging /\ e.soc < e.limit THEN {u} ELSE {}
           B == IF b.rate # 0 /\ room > 0 THEN {v} ELSE {}
<1> HIDE DEF u, v, room, e, b
<1>5. A \subseteq Int /\ B \subseteq Int
      BY <1>2, <1>3
<1>6. IsFiniteSet(A) /\ IsFiniteSet(B)
      BY FS_EmptySet, FS_Singleton
<1>7. IsFiniteSet(A \cup B)
      <2> HIDE DEF A, B
      <2>1. QED
            BY <1>6, FS_Union
<1>8. QED
      BY <1>4, <1>5, <1>7

\* A quotient rounded down leaves less than the divisor.
LEMMA NextMultiple ==
    ASSUME NEW a \in Int, NEW b \in Nat \ {0}
    PROVE  (a \div b + 1) * b \in Int /\ (a \div b + 1) * b > a
<1>1. a \div b \in Int
      BY Quotients
<1>2. a = b * (a \div b) + (a % b) /\ a % b \in 0..(b - 1)
      OBVIOUS
<1> DEFINE q == a \div b
           r == a % b
<1>3. q \in Int /\ a = b * q + r /\ r \in 0..(b - 1)
      BY <1>1, <1>2
<1> HIDE DEF q, r
<1>4. (q + 1) * b = b * q + b
      BY <1>3
<1>5. b * q \in Int
      BY <1>3, Products
<1>6. (q + 1) * b \in Int /\ (q + 1) * b > a
      BY <1>3, <1>4, <1>5
<1>7. QED
      BY <1>6 DEF q

\* The next boundary lies ahead, and no transition comes before it.
LEMMA BoundaryFacts ==
    ASSUME NEW w \in Worlds
    PROVE  /\ Boundary(w) \in Int /\ Boundary(w) > w.at
           /\ \A e \in Timetable : w.at < e.at => Boundary(w) <= e.at
<1> DEFINE m == (w.at \div Minute + 1) * Minute
           A == {m, End, w.s.device.due}
           B == {w.at + d : d \in ToLimit(w.s)}
           C == IF Running(w.s.appliance) THEN {w.at + w.s.appliance.left} ELSE {}
           All == A \cup Scheduled \cup B \cup C
           S == {t \in All : t > w.at}
<1>1. w.at \in Int /\ w.s \in States /\ w.s.device.due \in Int /\ w.s.appliance.left \in Int
      BY DEF Worlds, States, Devices, Appliances
<1>2. m \in Int /\ m > w.at
      BY <1>1, NextMultiple, Figures
<1> HIDE DEF m
<1>3. A \subseteq Int /\ IsFiniteSet(A)
      <2>1. IsFiniteSet({m})
            BY FS_Singleton
      <2>2. IsFiniteSet({m} \cup {End})
            BY <2>1, FS_AddElement
      <2>3. IsFiniteSet(({m} \cup {End}) \cup {w.s.device.due})
            BY <2>2, FS_AddElement
      <2>4. A = ({m} \cup {End}) \cup {w.s.device.due}
            OBVIOUS
      <2>5. A \subseteq Int
            BY <1>1, <1>2, Figures
      <2> HIDE DEF A
      <2>6. QED
            BY <2>3, <2>4, <2>5
<1>4. Scheduled \subseteq Int /\ IsFiniteSet(Scheduled)
      <2>1. Scheduled \subseteq 0..End
            BY Timetabled DEF Scheduled
      <2>2. IsFiniteSet(0..End)
            BY FS_Interval, Figures
      <2>3. 0..End \subseteq Int
            BY Figures
      <2>4. IsFiniteSet(Scheduled)
            BY <2>1, <2>2, FS_Subset
      <2>5. QED
            BY <2>1, <2>3, <2>4
<1>5. B \subseteq Int /\ IsFiniteSet(B)
      <2> DEFINE L == ToLimit(w.s)
                 cur == w.at
                 f == [d \in L |-> cur + d]
      <2>1. L \subseteq Int /\ IsFiniteSet(L) /\ cur \in Int
            BY <1>1, ToLimitType
      <2> HIDE DEF L
      <2>2. \A d \in L : f[d] \in Int
            <3> HIDE DEF cur
            <3>1. QED
                  BY <2>1
      <2>3. {w.at + d : d \in L} = {f[d] : d \in L}
            OBVIOUS
      <2> HIDE DEF f
      <2>4. IsFiniteSet({f[d] : d \in L})
            BY <2>1, Images
      <2>5. QED
            BY <2>2, <2>3, <2>4 DEF L
<1>6. C \subseteq Int /\ IsFiniteSet(C)
      <2> DEFINE n == w.at + w.s.appliance.left
      <2>1. n \in Int
            BY <1>1
      <2> HIDE DEF n
      <2>2. IsFiniteSet({n}) /\ IsFiniteSet({})
            BY FS_EmptySet, FS_Singleton
      <2>3. C = IF Running(w.s.appliance) THEN {n} ELSE {}
            BY DEF n
      <2> HIDE DEF C
      <2>4. QED
            BY <2>1, <2>2, <2>3
<1> HIDE DEF A, B, C
<1>7. All \subseteq Int /\ IsFiniteSet(All)
      <2>1. IsFiniteSet(A \cup Scheduled)
            BY <1>3, <1>4, FS_Union
      <2>2. IsFiniteSet((A \cup Scheduled) \cup B)
            BY <1>5, <2>1, FS_Union
      <2>3. IsFiniteSet(((A \cup Scheduled) \cup B) \cup C)
            BY <1>6, <2>2, FS_Union
      <2>4. QED
            BY <1>3, <1>4, <1>5, <1>6, <2>3
<1>8. m \in S /\ \A e \in Timetable : w.at < e.at => e.at \in S
      <2>1. m \in A
            BY DEF A
      <2>2. \A e \in Timetable : e.at \in Scheduled
            BY DEF Scheduled
      <2>3. QED
            BY <1>1, <1>2, <1>4, <2>1, <2>2
<1>9. Boundary(w) = Min(S)
      BY DEF Boundary, A, B, C, m
<1> HIDE DEF All
<1>10. S \subseteq Int /\ IsFiniteSet(S) /\ S # {} /\ \A t \in S : t > w.at
       BY <1>7, <1>8, FS_Subset
<1> HIDE DEF S
<1>11. Min(S) \in S /\ \A x \in S : Min(S) <= x
       BY <1>10, Extremes
<1>12. QED
       BY <1>8, <1>9, <1>10, <1>11

\* The worlds that have kept the timetable, and what an instant makes of one.
Faithful == {w \in Worlds : Kept(w)}
Turns(v, u) ==
    IF Boundary(v) = u THEN [s |-> Events(Step(v.s, u - v.at), u), at |-> u] ELSE v

\* An instant keeps the timetable.
LEMMA TurnsKept ==
    ASSUME NEW v \in Faithful, NEW u \in Int
    PROVE  Turns(v, u) \in Faithful
<1>1. CASE Boundary(v) # u
      BY <1>1 DEF Turns
<1>2. CASE Boundary(v) = u
      <2>1. v \in Worlds /\ v.s \in States /\ v.at \in Int /\ Tells(v.s.events, By(v.at))
            BY DEF Faithful, Worlds, Kept
      <2>2. v.at < u /\ \A e \in Timetable : v.at < e.at => u <= e.at
            BY <1>2, <2>1, BoundaryFacts
      <2> DEFINE s == Step(v.s, u - v.at)
      <2>3. s \in States /\ s.events = v.s.events
            <3>1. u - v.at \in Int
                  BY <2>1
            <3>2. QED
                  BY <2>1, <3>1, StepType
      <2> HIDE DEF s
      <2>4. Tells(s.events, By(v.at))
            BY <2>1, <2>3
      <2>5. Events(s, u) \in States /\ Tells(Events(s, u).events, By(u))
            BY <2>1, <2>2, <2>3, <2>4, EventsKept
      <2>6. Turns(v, u) = [s |-> Events(s, u), at |-> u]
            BY <1>2, Zenon DEF Turns, s
      <2> DEFINE after == Events(s, u)
      <2> HIDE DEF after
      <2>7. after \in States /\ Tells(after.events, By(u)) /\ Turns(v, u) = [s |-> after, at |-> u]
            BY <2>5, <2>6 DEF after
      <2>8. QED
            BY <2>7 DEF Faithful, Worlds, Kept
<1>3. QED
      BY <1>1, <1>2

\* A passage goes from instant to instant.
LEMMA PassageTurns ==
    ASSUME NEW w \in Faithful, NEW t \in Int, w.at <= t
    PROVE  /\ Passage(w, t)[w.at] = w
           /\ \A u \in (w.at + 1)..t : Passage(w, t)[u] = Turns(Passage(w, t)[u - 1], u)
<1> DEFINE cur == w.at
           n == t - cur
           Body(W) == [u \in cur..t |-> IF u = cur THEN w ELSE
                         LET v == W[u - 1] IN
                         IF Boundary(v) = u
                         THEN [s |-> Events(Step(v.s, u - v.at), u), at |-> u] ELSE v]
           World == CHOOSE W : W = Body(W)
           V == Faithful
           F == [k \in 1..n |-> [v \in V |-> Turns(v, cur + k)]]
<1>1. cur \in Int /\ n \in Nat /\ cur <= t
      <2>1. cur \in Int
            BY DEF Faithful, Worlds
      <2> HIDE DEF cur
      <2>2. cur <= t
            BY DEF cur
      <2>3. QED
            BY <2>1, <2>2
<1>2. Passage(w, t) = World
      BY DEF Passage
<1>3. w = w /\ cur = w.at
      OBVIOUS
<1> HIDE DEF cur
<1>4. \A W : Body(W) = [u \in cur..t |-> IF u = cur THEN w ELSE Turns(W[u - 1], u)]
      BY DEF Turns
<1> HIDE DEF Body
<1>5. Leads(F, n, V) /\ w \in V
      BY <1>1, TurnsKept DEF Leads
<1>6. PICK g \in [0..n -> V] : g[0] = w /\ \A k \in 1..n : g[k] = F[k][g[k - 1]]
      <2> HIDE DEF F, V, n
      <2>1. QED
            BY <1>1, <1>5, Iterates
<1>7. \A k \in 1..n : g[k] = Turns(g[k - 1], cur + k)
      <2> SUFFICES ASSUME NEW k \in 1..n PROVE g[k] = Turns(g[k - 1], cur + k)
          OBVIOUS
      <2>1. g[k - 1] \in V
            BY <1>1
      <2>2. \A v \in V : F[k][v] = Turns(v, cur + k)
            OBVIOUS
      <2> HIDE DEF F, V
      <2>3. QED
            BY <1>6, <2>1, <2>2
<1> DEFINE h == [u \in cur..t |-> g[u - cur]]
<1>8. h = Body(h)
      <2>1. ASSUME NEW u \in cur..t
            PROVE  h[u] = IF u = cur THEN w ELSE Turns(h[u - 1], u)
            <3>1. CASE u = cur
                  BY <1>1, <1>6, <3>1
            <3>2. CASE u # cur
                  <4>1. u - cur \in 1..n /\ u - 1 \in cur..t /\ u - 1 - cur = u - cur - 1
                        /\ cur + (u - cur) = u
                        BY <1>1, <3>2
                  <4>2. g[u - cur] = Turns(g[u - cur - 1], cur + (u - cur))
                        BY <1>7, <4>1
                  <4>3. h[u] = g[u - cur] /\ h[u - 1] = g[u - cur - 1]
                        BY <4>1
                  <4> HIDE DEF h
                  <4>4. QED
                        BY <3>2, <4>1, <4>2, <4>3
            <3>3. QED
                  BY <3>1, <3>2
      <2>2. h = [u \in cur..t |-> h[u]]
            OBVIOUS
      <2> HIDE DEF h
      <2>3. QED
            BY <1>4, <2>1, <2>2
<1>9. World = Body(World)
      BY <1>8
<1> HIDE DEF World, h
<1>10. World = [u \in cur..t |-> IF u = cur THEN w ELSE Turns(World[u - 1], u)]
      BY <1>4, <1>9
<1>11. World[cur] = w /\ \A u \in (cur + 1)..t : World[u] = Turns(World[u - 1], u)
      BY <1>1, <1>10
<1>12. QED
      BY <1>2, <1>11 DEF cur

\* A passage keeps the timetable and leaves no boundary behind.
LEMMA PassageFacts ==
    ASSUME NEW w \in Faithful, NEW t \in Int, w.at <= t
    PROVE  LET v == Passage(w, t)[t] IN
           v \in Faithful /\ v.at <= t /\ Boundary(v) > t
<1> DEFINE cur == w.at
           P == Passage(w, t)
           n == t - cur
           Good == {k \in 0..n : /\ P[cur + k] \in Faithful /\ P[cur + k].at <= cur + k
                                 /\ Boundary(P[cur + k]) > cur + k}
<1>1. cur \in Int /\ \A v \in Faithful : v \in Worlds /\ v.at \in Int
      BY DEF Faithful, Worlds
<1>2. P[cur] = w /\ \A u \in (cur + 1)..t : P[u] = Turns(P[u - 1], u)
      BY PassageTurns
<1>3. w.at = cur /\ cur <= t
      OBVIOUS
<1> HIDE DEF cur, P
<1>4. n \in Nat
      BY <1>1, <1>3
<1>5. 0 \in Good
      <2>1. Boundary(w) > cur
            BY <1>1, <1>3, BoundaryFacts
      <2>2. cur + 0 = cur
            BY <1>1
      <2>3. QED
            BY <1>1, <1>2, <1>3, <1>4, <2>1, <2>2
<1>6. ASSUME NEW k \in 1..n, k - 1 \in Good PROVE k \in Good
      <2> DEFINE u == cur + k
                 v == P[u - 1]
      <2>1. u \in (cur + 1)..t /\ u \in Int /\ cur + (k - 1) = u - 1 /\ k \in 0..n
            BY <1>1, <1>4
      <2>2. v \in Faithful /\ v.at <= u - 1 /\ Boundary(v) > u - 1
            BY <1>6, <2>1
      <2>3. P[u] = Turns(v, u)
            BY <1>2, <2>1
      <2> HIDE DEF u, v
      <2>4. P[u] \in Faithful
            BY <2>1, <2>2, <2>3, TurnsKept
      <2>5. Boundary(v) \in Int /\ v.at \in Int
            BY <1>1, <2>2, BoundaryFacts
      <2>6. P[u].at <= u /\ Boundary(P[u]) > u
            <3>1. CASE Boundary(v) = u
                  <4>1. P[u].at = u
                        BY <2>3, <3>1 DEF Turns
                  <4>2. Boundary(P[u]) > P[u].at
                        BY <1>1, <2>4, BoundaryFacts
                  <4>3. QED
                        BY <2>1, <4>1, <4>2
            <3>2. CASE Boundary(v) # u
                  <4>1. P[u] = v
                        BY <2>3, <3>2 DEF Turns
                  <4>2. QED
                        BY <2>1, <2>2, <2>5, <3>2, <4>1
            <3>3. QED
                  BY <3>1, <3>2
      <2>7. QED
            BY <2>1, <2>4, <2>6 DEF u
<1>7. \A k \in 0..n : k \in Good
      <2> HIDE DEF Good, n
      <2>1. QED
            BY <1>4, <1>5, <1>6, Rising
<1>8. n \in Good /\ cur + n = t
      BY <1>1, <1>4, <1>7
<1>9. QED
      BY <1>8 DEF P

\* A read keeps the timetable, in the world it leaves and in the state it shows.
LEMMA AdvanceToFacts ==
    ASSUME NEW w \in Faithful, NEW t \in Int
    PROVE  /\ AdvanceTo(w, t).world \in Faithful /\ AdvanceTo(w, t).view \in States
           /\ w.at <= t => /\ AdvanceTo(w, t).world.at <= t
                           /\ Tells(AdvanceTo(w, t).view.events, By(t))
<1> DEFINE v == IF w.at >= t THEN w ELSE Passage(w, t)[t]
           view == IF v.at >= t THEN v.s ELSE Step(v.s, t - v.at)
<1>1. AdvanceTo(w, t) = [world |-> v, view |-> view]
      BY DEF AdvanceTo
<1>2. /\ \A x \in Faithful : x \in Worlds /\ x.at \in Int /\ x.s \in States
      /\ \A e \in Timetable : e.at \in Int
      BY Timetabled DEF Faithful, Worlds
<1>3. /\ v \in Faithful
      /\ w.at <= t => v.at <= t /\ (v.at = t \/ Boundary(v) > t)
      <2>1. CASE w.at >= t
            BY <1>2, <2>1
      <2>2. CASE ~(w.at >= t)
            <3>1. w.at <= t
                  BY <1>2, <2>2
            <3>2. QED
                  BY <2>2, <3>1, PassageFacts
      <2>3. QED
            BY <2>1, <2>2
<1> HIDE DEF v
<1>4. view \in States
      <2>1. v.s \in States /\ t - v.at \in Int
            BY <1>2, <1>3
      <2>2. QED
            BY <2>1, StepType
<1>5. ASSUME w.at <= t PROVE Tells(view.events, By(t))
      <2>1. v.at \in Int /\ v \in Worlds /\ v.s \in States /\ Tells(v.s.events, By(v.at))
            BY <1>2, <1>3 DEF Faithful, Kept
      <2>2. CASE v.at = t
            BY <2>1, <2>2
      <2>3. CASE Boundary(v) > t /\ v.at < t
            <3>1. By(v.at) = By(t)
                  <4>1. Boundary(v) \in Int /\ \A e \in Timetable : v.at < e.at => Boundary(v) <= e.at
                        BY <2>1, BoundaryFacts
                  <4>2. QED
                        BY <1>2, <2>1, <2>3, <4>1 DEF By
            <3>2. t - v.at \in Int /\ ~(v.at >= t)
                  BY <2>1, <2>3
            <3>3. view = Step(v.s, t - v.at)
                  BY <3>2
            <3>4. view.events = v.s.events
                  BY <2>1, <3>2, <3>3, StepType
            <3>5. QED
                  BY <2>1, <3>1, <3>4
      <2>4. QED
            BY <1>3, <1>5, <2>1, <2>2, <2>3
<1> HIDE DEF view
<1>6. QED
      BY <1>1, <1>3, <1>4, <1>5

\* The world opens with what falls at once.
LEMMA FreshFacts ==
    ASSUME NEW p \in PlannerInputs
    PROVE  Fresh(p) \in Faithful /\ Fresh(p).at = 0
<1> DEFINE s == [ev |-> p.ev, battery |-> p.battery, zone |-> p.zone,
                 appliance |-> p.appliance, device |-> Device,
                 presence |-> [present |-> TRUE, asleep |-> FALSE], events |-> <<>>]
<1>1. s \in States
      <2>1. /\ p.ev \in EVs /\ p.battery \in Batteries /\ p.zone \in Zones
            /\ p.appliance \in Appliances
            BY InputFacts
      <2>2. Device \in Devices
            BY EnergyAssumption
      <2>3. QED
            BY <2>1, <2>2 DEF States
<1>2. Tells(s.events, By(-1))
      <2>1. By(-1) = {}
            BY Timetabled DEF By
      <2>2. s.events = <<>>
            OBVIOUS
      <2> HIDE DEF s
      <2>3. QED
            BY <2>1, <2>2 DEF Tells
<1>3. \A e \in Timetable : -1 < e.at => 0 <= e.at
      BY Timetabled
<1>4. Fresh(p) = [s |-> Events(s, 0), at |-> 0]
      BY DEF Fresh
<1> HIDE DEF s
<1>5. Events(s, 0) \in States /\ Tells(Events(s, 0).events, By(0))
      <2>1. -1 \in Int /\ 0 \in Int /\ -1 < 0
            OBVIOUS
      <2>2. QED
            BY <1>1, <1>2, <1>3, <2>1, EventsKept
<1> DEFINE after == Events(s, 0)
<1> HIDE DEF after
<1>6. after \in States /\ Tells(after.events, By(0)) /\ Fresh(p) = [s |-> after, at |-> 0]
      BY <1>4, <1>5 DEF after
<1>7. QED
      BY <1>6 DEF Faithful, Worlds, Kept

-----------------------------------------------------------------------------
(* The commands of a plan and what they do to the state.                   *)

Params(device) ==
    CASE device = "ev" -> [charging : BOOLEAN, limit : Int] \cup [charging : BOOLEAN]
      [] device = "battery" -> [rate : Int]
      [] device = "zone" -> [target : Int, mode : Modes]
      [] device = "appliance" -> {<<>>}
Commanded == {"ev", "battery", "zone", "appliance"}
Command(c) == /\ c = [device |-> c.device, at |-> c.at, until |-> c.until, params |-> c.params]
              /\ c.device \in Commanded /\ c.at \in Int /\ c.until \in Int
              /\ c.params \in Params(c.device)

\* A command leaves the events alone.
LEMMA EffectType ==
    ASSUME NEW s \in States, NEW c, Command(c)
    PROVE  Effect(s, c) \in States /\ Effect(s, c).events = s.events
<1>1. /\ s.ev \in EVs /\ s.battery \in Batteries /\ s.zone \in Zones /\ s.appliance \in Appliances
      BY DEF States
<1> DEFINE params == c.params
<1>2. c.device \in Commanded /\ params \in Params(c.device)
      BY DEF Command
<1>3. Effect(s, c) = IF c.device = "appliance" THEN [s EXCEPT !.appliance.left = Cycle]
                     ELSE [s EXCEPT ![c.device] = Updated(@, params)]
      BY DEF Effect
<1> HIDE DEF params
<1>4. CASE c.device = "ev"
      <2> DEFINE e == s.ev
                 new == Updated(e, params)
      <2>1. e \in EVs /\ params \in [charging : BOOLEAN, limit : Int] \cup [charging : BOOLEAN]
            BY <1>1, <1>2, <1>4 DEF Params
      <2>2. Effect(s, c) = [s EXCEPT !.ev = new]
            BY <1>3, <1>4
      <2> HIDE DEF e
      <2>3. new \in EVs
            <3>1. CASE params \in [charging : BOOLEAN, limit : Int]
                  <4>1. new = [soc |-> e.soc, charging |-> params.charging, limit |-> params.limit]
                        BY <2>1, <3>1 DEF Updated, EVs
                  <4>2. QED
                        BY <2>1, <3>1, <4>1 DEF EVs
            <3>2. CASE params \in [charging : BOOLEAN]
                  <4>1. new = [soc |-> e.soc, charging |-> params.charging, limit |-> e.limit]
                        BY <2>1, <3>2 DEF Updated, EVs
                  <4>2. QED
                        BY <2>1, <3>2, <4>1 DEF EVs
            <3>3. QED
                  BY <2>1, <3>1, <3>2
      <2> HIDE DEF new
      <2>4. QED
            BY <2>2, <2>3 DEF States
<1>5. CASE c.device = "battery"
      <2> DEFINE b == s.battery
                 new == Updated(b, params)
      <2>1. b \in Batteries /\ params \in [rate : Int]
            BY <1>1, <1>2, <1>5 DEF Params
      <2>2. Effect(s, c) = [s EXCEPT !.battery = new]
            BY <1>3, <1>5
      <2> HIDE DEF b
      <2>3. new \in Batteries
            <3>1. new = [soc |-> b.soc, rate |-> params.rate]
                  BY <2>1 DEF Updated, Batteries
            <3>2. QED
                  BY <2>1, <3>1 DEF Batteries
      <2> HIDE DEF new
      <2>4. QED
            BY <2>2, <2>3 DEF States
<1>6. CASE c.device = "zone"
      <2> DEFINE z == s.zone
                 new == Updated(z, params)
      <2>1. z \in Zones /\ params \in [target : Int, mode : Modes]
            BY <1>1, <1>2, <1>6 DEF Params
      <2>2. Effect(s, c) = [s EXCEPT !.zone = new]
            BY <1>3, <1>6
      <2> HIDE DEF z
      <2>3. new \in Zones
            <3>1. new = [temp |-> z.temp, target |-> params.target, mode |-> params.mode]
                  BY <2>1 DEF Updated, Zones
            <3>2. QED
                  BY <2>1, <3>1 DEF Zones, Modes
      <2> HIDE DEF new
      <2>4. QED
            BY <2>2, <2>3 DEF States
<1>7. CASE c.device = "appliance"
      <2>1. Effect(s, c) = [s EXCEPT !.appliance = [s.appliance EXCEPT !.left = Cycle]]
            BY <1>3, <1>7
      <2> DEFINE a == [s.appliance EXCEPT !.left = Cycle]
      <2>2. a \in Appliances
            BY <1>1, Figures DEF Appliances
      <2> HIDE DEF a
      <2>3. Effect(s, c) = [s EXCEPT !.appliance = a]
            BY <2>1 DEF a
      <2>4. QED
            BY <2>2, <2>3 DEF States
<1>8. QED
      BY <1>2, <1>4, <1>5, <1>6, <1>7 DEF Commanded

LEMMA EndingType ==
    ASSUME NEW c, Command(c), Ending(c) # Free
    PROVE  Command([device |-> c.device, at |-> c.until, until |-> 0, params |-> Ending(c)])
<1>1. c.device \in Commanded /\ c.until \in Int
      BY DEF Command
<1>2. Ending(c) \in Params(c.device)
      <2>1. CASE c.device = "ev" /\ c.params.charging
            BY <2>1 DEF Ending, Params
      <2>2. CASE c.device = "battery" /\ c.params.rate # 0
            BY <2>2 DEF Ending, Params
      <2>3. CASE ~(c.device = "ev" /\ c.params.charging) /\ ~(c.device = "battery" /\ c.params.rate # 0)
            BY <2>3 DEF Ending
      <2>4. QED
            BY <2>1, <2>2, <2>3
<1> DEFINE params == Ending(c)
<1> HIDE DEF params
<1>3. params \in Params(c.device)
      BY <1>2 DEF params
<1>4. Command([device |-> c.device, at |-> c.until, until |-> 0, params |-> params])
      BY <1>1, <1>3 DEF Command
<1>5. QED
      BY <1>4 DEF params

LEMMA SettingType ==
    ASSUME NEW p \in PlannerInputs, NEW x \in Schedules, NEW i \in Slots, NEW device \in Commanded
    PROVE  Setting(p, x, device, i) \in Params(device)
<1>1. x.ev[i] \in Int /\ x.battery[i] \in Int /\ x.targets[i] \in Int /\ x.modes[i] \in Modes
      BY ScheduleFacts
<1>2. CASE device = "ev"
      <2> DEFINE a == effective(p).target
                 b == p.ev.soc + Upto(x.ev, i)
                 limit == Min({Full, a, b})
      <2>1. a \in Int
            BY EffectiveFacts
      <2>2. b \in Int
            <3>1. x.ev \in [Slots -> Int] /\ i \in 0..N
                  BY DEF Schedules, Slots
            <3>2. Upto(x.ev, i) \in Int
                  BY <3>1, UptoType
            <3>3. p.ev.soc \in Int
                  BY InputFacts DEF EVs
            <3>4. QED
                  BY <3>2, <3>3
      <2>3. Setting(p, x, device, i) = [charging |-> x.ev[i] > 0, limit |-> limit]
            BY <1>2 DEF Setting
      <2> HIDE DEF a, b
      <2>4. limit \in Int
            BY <2>1, <2>2, OfThree, Figures
      <2> DEFINE on == x.ev[i] > 0
      <2>5. on \in BOOLEAN /\ Setting(p, x, device, i) = [charging |-> on, limit |-> limit]
            BY <2>3
      <2> HIDE DEF limit, on
      <2>6. [charging |-> on, limit |-> limit] \in [charging : BOOLEAN, limit : Int]
            BY <2>4, <2>5
      <2>7. QED
            BY <1>2, <2>5, <2>6 DEF Params
<1>3. CASE device = "battery"
      BY <1>1, <1>3 DEF Setting, Params
<1>4. CASE device = "zone"
      BY <1>1, <1>4 DEF Setting, Params
<1>5. CASE device = "appliance"
      BY <1>5 DEF Setting, Params
<1>6. QED
      BY <1>2, <1>3, <1>4, <1>5 DEF Commanded

\* What a plan emits are commands.
LEMMA ActionsType ==
    ASSUME NEW p \in PlannerInputs, NEW x \in Schedules, NEW c \in actions(p, x)
    PROVE  Command(c)
<1> DEFINE At(device) == {i \in Slots : Emitted(p, x, device, i)}
           Later(device, i) == {Start(k) : k \in {j \in At(device) : j > i}}
           Soon(device, i) == Min(Later(device, i) \cup {Finish(N)})
<1>1. PICK device \in Commanded, i \in Slots :
         c = [device |-> device, at |-> Start(i), until |-> Soon(device, i),
              params |-> Setting(p, x, device, i)]
      BY DEF actions, Commanded
<1> DEFINE S == Later(device, i)
           until == Min({Finish(N)} \cup S)
           params == Setting(p, x, device, i)
<1>2. until = Soon(device, i)
      <2>1. {Finish(N)} \cup S = S \cup {Finish(N)}
            OBVIOUS
      <2>2. QED
            BY <2>1
<1>3. S \subseteq Int /\ IsFiniteSet(S)
      <2> DEFINE L == {j \in At(device) : j > i}
                 f == [k \in L |-> Start(k)]
      <2>1. L \subseteq Slots /\ IsFiniteSet(L)
            <3>1. L \subseteq Slots
                  OBVIOUS
            <3>2. QED
                  BY <3>1, SlotsFinite, FS_Subset
      <2> HIDE DEF L
      <2>2. {f[k] : k \in L} = {Start(k) : k \in L}
            OBVIOUS
      <2>3. \A k \in L : Start(k) \in Int
            <3>1. L \subseteq Int
                  BY <2>1, SlotsFinite
            <3>2. QED
                  BY <3>1, Times
      <2> HIDE DEF f
      <2>4. IsFiniteSet({f[k] : k \in L})
            BY <2>1, Images
      <2>5. QED
            BY <2>2, <2>3, <2>4 DEF L
<1> HIDE DEF S, Soon
<1>4. until \in Int /\ Start(i) \in Int
      <2>1. N \in Slots
            BY Figures DEF Slots
      <2>2. N \in Int /\ i \in Int
            BY <2>1, SlotsFinite
      <2>3. Finish(N) \in Int /\ Start(i) \in Int
            BY <2>2, Times
      <2>4. QED
            BY <1>3, <2>3, LeastOf
<1>5. params \in Params(device)
      BY SettingType
<1> HIDE DEF until, params
<1>6. c = [device |-> device, at |-> Start(i), until |-> until, params |-> params]
      BY <1>1, <1>2 DEF params
<1>7. QED
      BY <1>4, <1>5, <1>6 DEF Command

-----------------------------------------------------------------------------
(* What holds while the members talk and the plan is carried out.          *)

Stages == {"scheduled", "executing", "dispatched"}
IsRow(r) == /\ r = [command |-> r.command, again |-> r.again, stage |-> r.stage]
            /\ Command(r.command) /\ r.again \in BOOLEAN /\ r.stage \in Stages

LEMMA RowType == ASSUME NEW c, Command(c), NEW again \in BOOLEAN PROVE IsRow(Row(c, again))
BY DEF Row, IsRow, Stages

LEMMA StageType ==
    ASSUME NEW r, IsRow(r), NEW stage \in Stages
    PROVE  IsRow([r EXCEPT !.stage = stage])
<1> DEFINE new == [command |-> r.command, again |-> r.again, stage |-> stage]
<1>1. [r EXCEPT !.stage = stage] = new
      BY DEF IsRow
<1>2. IsRow(new)
      BY DEF IsRow
<1>3. QED
      BY <1>1, <1>2

Carrying ==
    /\ IsRow(job.of)
    /\ job = [of |-> job.of, state |-> job.state]
    /\ job.state # Free =>
         job.state \in States /\ Tells(job.state.events, By(last)) /\ last = clock
EnergyIInv ==
    /\ input \in PlannerInputs /\ Sound(records)
    /\ clock \in Int /\ last \in Int /\ signed \in Int
    /\ result = Free => clock <= 0
    /\ input.talk => todo = {} /\ job = Free
    /\ ~input.talk => 0 <= clock /\ world.at <= clock
    /\ world \in Faithful
    /\ \A r \in todo : IsRow(r)
    /\ job # Free => Carrying
    /\ row # Free => row \in Faithful /\ 0 <= signed
    /\ RequestsHonoured

\* What a member may ask for.
Request(s) ==
    /\ s.kind \in Kinds /\ s.at \in Int /\ s.upper \in Maybe(Int) /\ s.from \in Int /\ s.to \in Int
    /\ OnBoundary(s.from)
    /\ s.kind = "temperature_band" => s.upper \in Int

\* What is parsed from a phrase is a request.
LEMMA ParseType ==
    ASSUME NEW m \in Residents, NEW f \in Phrases[m], NEW t \in Int, OnBoundary(t), NEW s \in parse(f, t)
    PROVE  Request(s)
<1> DEFINE Ends == IF f.until = Free THEN {End} ELSE time_at(f.until, t, End)
           Whens(end) == IF f.by = Free THEN {end} ELSE time_at(f.by, t, end)
           Item(end, time) ==
             [kind |-> f.kind, upper |-> f.upper, from |-> t,
              at |-> IF f.at = Free THEN time ELSE f.at,
              to |-> IF f.kind = "ev_target" THEN time ELSE end]
<1>0. PICK end \in Ends : \E time \in Whens(end) : s = Item(end, time)
      BY DEF parse
<1>1. PICK time \in Whens(end) : s = Item(end, time)
      BY <1>0
<1>2. /\ f \in [kind : Kinds, at : Maybe(Int), upper : Maybe(Int), by : Maybe(Int), until : Maybe(Int)]
      /\ f.kind = "temperature_band" => f.upper \in Int
      /\ DOMAIN Local \subseteq Int
      BY PhrasesAssumption
<1>3. \A hour, a, b : time_at(hour, a, b) \subseteq Int
      BY <1>2 DEF time_at
<1>4. end \in Int /\ time \in Int
      BY <1>0, <1>1, <1>3, Figures
<1>5. f.kind \in Kinds /\ f.upper \in Maybe(Int) /\ f.at \in Maybe(Int)
      BY <1>2
<1> DEFINE at == IF f.at = Free THEN time ELSE f.at
           to == IF f.kind = "ev_target" THEN time ELSE end
<1>6. at \in Int /\ to \in Int
      BY <1>4, <1>5 DEF Maybe
<1>7. s = [kind |-> f.kind, upper |-> f.upper, from |-> t, at |-> at, to |-> to]
      BY <1>1
<1> HIDE DEF at, to
<1>8. QED
      BY <1>2, <1>5, <1>6, <1>7 DEF Request

LEMMA AskedType ==
    ASSUME clock \in Int, OnBoundary(clock), NEW m \in Residents, NEW s \in Asked(m)
    PROVE  Request(s)
<1>1. CASE s \in Specs[m]
      <2>1. /\ Specs[m] \in SUBSET [kind : Kinds, at : Int, upper : Maybe(Int), from : Int, to : Int]
            /\ \A x \in Specs[m] : OnBoundary(x.from) /\ (x.kind = "temperature_band" => x.upper \in Int)
            BY SpecsAssumption
      <2>2. s \in [kind : Kinds, at : Int, upper : Maybe(Int), from : Int, to : Int]
            BY <1>1, <2>1
      <2>3. /\ s.kind \in Kinds /\ s.at \in Int /\ s.upper \in Maybe(Int) /\ s.from \in Int
            /\ s.to \in Int
            BY <2>2
      <2>4. OnBoundary(s.from) /\ (s.kind = "temperature_band" => s.upper \in Int)
            BY <1>1, <2>1
      <2>5. QED
            BY <2>3, <2>4 DEF Request
<1>2. CASE s \notin Specs[m]
      <2>1. PICK f \in Phrases[m] : s \in parse(f, clock)
            BY <1>2 DEF Asked
      <2>2. QED
            BY <2>1, ParseType
<1>3. QED
      BY <1>1, <1>2

LEMMA RecordSound ==
    ASSUME NEW m \in Residents, NEW s, Request(s), NEW t \in Int
    PROVE  Sound({Record(m, s, t)})
<1> DEFINE r == Record(m, s, t)
<1>1. r \in Rows /\ OnBoundary(r.from) /\ (r.kind = "temperature_band" => r.upper \in Int)
      <2>1. r = [member |-> m, kind |-> s.kind, at |-> s.at, upper |-> s.upper,
                 from |-> s.from, to |-> s.to, said |-> t]
            BY DEF Record
      <2>2. Request(s)
            OBVIOUS
      <2> HIDE DEF r
      <2>3. QED
            BY <2>1, <2>2 DEF Rows, Request
<1> HIDE DEF r
<1>2. IsFiniteSet({r})
      BY FS_Singleton
<1>3. QED
      BY <1>1, <1>2 DEF Sound, r

LEMMA HoldSound ==
    ASSUME NEW m \in Residents, NEW target \in Int, NEW t \in Int, OnBoundary(t)
    PROVE  Sound({Hold(m, target, t)})
<1> DEFINE r == Hold(m, target, t)
<1>1. r \in Rows /\ OnBoundary(r.from) /\ r.kind # "temperature_band"
      <2>1. t + HoldTicks \in Int
            BY PhrasesAssumption
      <2>2. QED
            BY <2>1 DEF Hold, Rows, Kinds, Maybe
<1> HIDE DEF r
<1>2. IsFiniteSet({r})
      BY FS_Singleton
<1>3. QED
      BY <1>1, <1>2 DEF Sound, r

\* The records stay sound, whatever is added or closed.
LEMMA CommittedSound ==
    ASSUME NEW asks, Sound(asks), NEW new, Sound(new), NEW previous, NEW t
    PROVE  Sound(commit_constraint(asks, previous, new, t))
<1> DEFINE left == {r \in asks \ previous : r.to > t}
<1>1. left \subseteq asks /\ IsFiniteSet(asks) /\ IsFiniteSet(new)
      BY DEF Sound
<1>2. commit_constraint(asks, previous, new, t) = left \cup new
      BY DEF commit_constraint
<1> HIDE DEF left
<1>3. IsFiniteSet(left \cup new)
      <2>1. IsFiniteSet(left)
            BY <1>1, FS_Subset
      <2>2. QED
            BY <1>1, <2>1, FS_Union
<1>4. QED
      BY <1>1, <1>2, <1>3 DEF Sound

LEMMA PastBoundary == \A t \in Int : t <= 0 => OnBoundary(t)
<1> SUFFICES ASSUME NEW t \in Int, t <= 0, NEW i \in Slots PROVE t <= Start(i)
    BY DEF OnBoundary
<1>1. i \in Int /\ i - 1 \in Nat
      BY Figures DEF Slots
<1>2. (i - 1) * SlotTicks \in Nat
      BY <1>1, Positive, Figures
<1>3. QED
      BY <1>2 DEF Start

\* The state as it is typed apart from the requests honoured, which only the
\* plan's own step can disturb.
LEMMA HonouredKept ==
    ASSUME RequestsHonoured, UNCHANGED <<records, input, result>>
    PROVE  RequestsHonoured'
BY DEF RequestsHonoured

LEMMA EnergyInitHolds == ASSUME EnergyInit PROVE EnergyIInv
<1>1. input \in PlannerInputs
      BY EnergyAssumption DEF EnergyInit
<1>2. Sound(records)
      BY FS_EmptySet DEF EnergyInit, Sound
<1>3. world \in Faithful /\ world.at = 0
      BY <1>1, FreshFacts DEF EnergyInit
<1>4. clock \in Int /\ clock <= 0 /\ (~input.talk => clock = 0) /\ last \in Int /\ signed \in Int
      BY EnergyAssumption DEF EnergyInit
<1>5. todo = {} /\ job = Free /\ row = Free /\ result = Free
      BY DEF EnergyInit
<1>6. QED
      BY <1>1, <1>2, <1>3, <1>4, <1>5 DEF EnergyIInv, RequestsHonoured

LEMMA IntakeHolds ==
    ASSUME EnergyIInv, Talking, NEW previous, NEW new, Sound(new), Intake(previous, new)
    PROVE  EnergyIInv'
<1>1. Sound(records')
      BY CommittedSound DEF EnergyIInv, Intake
<1>2. result = Free /\ RequestsHonoured'
      BY DEF Talking, Intake, RequestsHonoured
<1>3. UNCHANGED <<clock, world, last, input, result, todo, missed, job, row, signed, applied, crashes>>
      BY DEF Intake
<1>4. QED
      BY <1>1, <1>2, <1>3 DEF EnergyIInv, Carrying

LEMMA MembersHold ==
    ASSUME EnergyIInv, NEW m \in Residents,
           Say(m) \/ Change(m) \/ Replace(m) \/ Withdraw(m) \/ Turn(m)
    PROVE  EnergyIInv'
<1>1. Talking
      BY DEF Say, Change, Replace, Withdraw, Turn
<1>2. clock \in Int /\ OnBoundary(clock)
      BY <1>1, PastBoundary DEF EnergyIInv, Talking
<1>3. \A spec \in Asked(m) : Sound({Record(m, spec, clock)})
      BY <1>2, AskedType, RecordSound
<1>4. UNION {parse(f, clock) : f \in Phrases[m]} \subseteq Asked(m)
      BY DEF Asked
<1>5. CASE Say(m)
      <2>1. PICK spec \in Asked(m) : Intake({}, {Record(m, spec, clock)})
            BY <1>5 DEF Say
      <2>2. QED
            BY <1>1, <1>3, <2>1, IntakeHolds
<1>6. CASE Change(m)
      <2>1. PICK spec \in Asked(m), r \in records : Intake({r}, {Record(m, spec, clock)})
            BY <1>4, <1>6 DEF Change
      <2>2. QED
            BY <1>1, <1>3, <2>1, IntakeHolds
<1>7. CASE Replace(m)
      <2>1. PICK spec \in Asked(m), r \in records : Intake({r}, {Record(m, spec, clock)})
            BY <1>7 DEF Replace
      <2>2. QED
            BY <1>1, <1>3, <2>1, IntakeHolds
<1>8. CASE Withdraw(m)
      <2>1. PICK r \in records : Intake({r}, {})
            BY <1>8 DEF Withdraw
      <2>2. Sound({})
            BY FS_EmptySet DEF Sound
      <2>3. QED
            BY <1>1, <2>1, <2>2, IntakeHolds
<1>9. CASE Turn(m)
      <2>1. PICK target \in Range(input.lower) \cup Range(input.upper) :
               Intake(Holds(records, clock), {Hold(m, target, clock)})
            BY <1>9 DEF Turn
      <2>2. target \in Int
            <3>1. input.lower \in [1..N + 1 -> Int] /\ input.upper \in [1..N + 1 -> Int]
                  BY InputFacts DEF EnergyIInv
            <3>2. Range(input.lower) \subseteq Int /\ Range(input.upper) \subseteq Int
                  BY <3>1 DEF Range
            <3>3. QED
                  BY <3>2
      <2>3. Sound({Hold(m, target, clock)})
            BY <1>2, <2>2, HoldSound
      <2>4. QED
            BY <1>1, <2>1, <2>3, IntakeHolds
<1>10. QED
       BY <1>5, <1>6, <1>7, <1>8, <1>9

LEMMA ReleaseHolds == ASSUME EnergyIInv, Release PROVE EnergyIInv'
<1>1. PICK r \in records : Talking /\ Intake({r}, {})
      BY DEF Release
<1>2. Sound({})
      BY FS_EmptySet DEF Sound
<1>3. QED
      BY <1>1, <1>2, IntakeHolds

LEMMA PlanHolds == ASSUME EnergyIInv, Plan PROVE EnergyIInv'
<1> DEFINE asks == explicit(records)
           q == coordinated(input, asks)
<1>1. PICK r \in coordinate(input, q, asks) :
         /\ input' = q /\ result' = r
         /\ todo' = IF r.schedule = Free \/ input.talk THEN {}
                    ELSE {Row(c, FALSE) : c \in actions(q, r.schedule)}
      BY DEF Plan
<1>2. /\ clock = 0 /\ result = Free
      /\ UNCHANGED <<clock, world, last, records, said, missed, job, row, signed, applied, crashes>>
      BY DEF Plan
<1>3. Sound(asks)
      <2>1. IsFiniteSet(records) /\ asks \subseteq records
            BY DEF EnergyIInv, Sound, explicit
      <2>2. IsFiniteSet(asks)
            BY <2>1, FS_Subset
      <2> HIDE DEF asks
      <2>3. QED
            BY <2>1, <2>2 DEF EnergyIInv, Sound
<1>4. input \in PlannerInputs
      BY DEF EnergyIInv
<1> HIDE DEF asks
<1>5. q \in PlannerInputs /\ q.talk = input.talk
      BY <1>3, <1>4, CoordinatedFacts
<1>6. r.schedule # Free => /\ conflicts(input, q, asks) = {}
                           /\ r.schedule \in Schedules /\ Valid(replay(q, r.schedule))
      <2> HIDE DEF q
      <2>1. QED
            BY <1>5, ProposedFacts
<1>7. RequestsHonoured'
      <2>1. r.schedule # Free => \A s \in asks : Honours(s, r.schedule, Course(q, r.schedule))
            BY <1>3, <1>4, <1>6, ScheduleHonours
      <2>2. explicit(records') = asks
            BY <1>2 DEF asks
      <2> HIDE DEF q
      <2>3. QED
            BY <1>1, <2>1, <2>2 DEF RequestsHonoured
<1>8. \A d \in todo' : IsRow(d)
      <2> HIDE DEF q
      <2> SUFFICES ASSUME NEW d \in todo' PROVE IsRow(d)
          OBVIOUS
      <2>1. r.schedule # Free /\ \E c \in actions(q, r.schedule) : d = Row(c, FALSE)
            BY <1>1
      <2>2. PICK c \in actions(q, r.schedule) : d = Row(c, FALSE)
            BY <2>1
      <2>3. Command(c)
            BY <1>5, <1>6, <2>1, ActionsType
      <2>4. QED
            BY <2>2, <2>3, RowType
<1>9. input.talk => todo' = {}
      BY <1>1
<1> HIDE DEF q
<1>10. job' # Free => Carrying'
       BY <1>2 DEF EnergyIInv, Carrying
<1>11. input' = q /\ (input.talk => job' = Free) /\ (~input.talk => 0 <= clock' /\ world'.at <= clock')
       BY <1>1, <1>2 DEF EnergyIInv
<1>12. QED
       BY <1>2, <1>5, <1>7, <1>8, <1>9, <1>10, <1>11 DEF EnergyIInv

LEMMA ClockHolds == ASSUME EnergyIInv, Talks \/ TimePasses PROVE EnergyIInv'
<1>1. SlotTicks \in Int
      BY Figures
<1>2. CASE Talks
      <2>1. clock' \in Int /\ clock' <= 0 /\ clock < 0
            BY <1>1, <1>2 DEF Talks, EnergyIInv, Least
      <2>2. UNCHANGED <<world, last, asked, todo, missed, job, row, signed, applied, crashes>>
            BY <1>2 DEF Talks
      <2>3. UNCHANGED <<records, input, result>>
            BY <2>2 DEF asked
      <2>4. RequestsHonoured'
            BY <2>3, HonouredKept DEF EnergyIInv
      <2>5. input.talk /\ job = Free
            BY <2>1 DEF EnergyIInv
      <2>6. QED
            BY <2>1, <2>2, <2>3, <2>4, <2>5 DEF EnergyIInv
<1>3. CASE TimePasses
      <2>1. clock' = clock + 1 /\ job = Free /\ result # Free /\ ~input.talk
            BY <1>3 DEF TimePasses, Carried
      <2>2. UNCHANGED <<world, last, asked, todo, missed, job, row, signed, applied, crashes>>
            BY <1>3 DEF TimePasses
      <2>3. UNCHANGED <<records, input, result>>
            BY <2>2 DEF asked
      <2>4. RequestsHonoured'
            BY <2>3, HonouredKept DEF EnergyIInv
      <2>5. clock \in Int /\ 0 <= clock /\ world.at <= clock /\ world.at \in Int
            BY <2>1 DEF EnergyIInv, Faithful, Worlds
      <2>6. clock' \in Int /\ 0 <= clock' /\ world.at <= clock'
            BY <2>1, <2>5
      <2>7. QED
            BY <2>1, <2>2, <2>3, <2>4, <2>6 DEF EnergyIInv
<1>4. QED
      BY <1>2, <1>3

\* What a read at the clock leaves and shows, once the plan is carried out.
LEMMA ReadFacts ==
    ASSUME EnergyIInv, ~input.talk
    PROVE  LET cur == AdvanceTo(world, clock) IN
           /\ cur.world \in Faithful /\ cur.world.at <= clock
           /\ cur.view \in States /\ Tells(cur.view.events, By(clock))
<1>1. world \in Faithful /\ clock \in Int /\ world.at <= clock
      BY DEF EnergyIInv
<1>2. QED
      BY <1>1, AdvanceToFacts

LEMMA ReadHolds == ASSUME EnergyIInv, Read PROVE EnergyIInv'
<1> DEFINE w == AdvanceTo(world, clock).world
<1>1. /\ ~input.talk /\ result # Free /\ world' = w /\ last' = clock
      /\ UNCHANGED <<clock, asked, todo, missed, job, row, signed, applied, crashes>>
      BY DEF Read, Carried
<1>2. w \in Faithful /\ w.at <= clock
      BY <1>1, ReadFacts
<1> HIDE DEF w
<1>3. UNCHANGED <<records, input, result>>
      BY <1>1 DEF asked
<1>4. RequestsHonoured'
      BY <1>3, HonouredKept DEF EnergyIInv
<1>5. job # Free => Carrying'
      BY <1>1 DEF EnergyIInv, Carrying
<1>6. QED
      BY <1>1, <1>2, <1>3, <1>4, <1>5 DEF EnergyIInv

LEMMA MemberEventHolds ==
    ASSUME EnergyIInv, NEW kind \in {"arrive", "leave", "sleep", "wake"}, MemberEvent(kind)
    PROVE  EnergyIInv'
<1> DEFINE cur == AdvanceTo(world, clock).view
           e == [at |-> clock, kind |-> "member"]
           presence == PresenceChange(cur.presence, kind)
           events == Append(cur.events, e)
           s == [cur EXCEPT !.presence = presence, !.events = events]
<1>1. /\ ~input.talk /\ result # Free /\ job = Free /\ world' = [at |-> clock, s |-> s] /\ last' = clock
      /\ UNCHANGED <<clock, asked, todo, missed, job, row, signed, applied, crashes>>
      BY DEF MemberEvent, Carried
<1>2. cur \in States /\ Tells(cur.events, By(clock)) /\ clock \in Int
      BY <1>1, ReadFacts DEF EnergyIInv
<1> HIDE DEF cur
<1>3. presence \in [present : BOOLEAN, asleep : BOOLEAN]
      <2>1. cur.presence \in [present : BOOLEAN, asleep : BOOLEAN]
            BY <1>2 DEF States
      <2>2. QED
            BY <2>1 DEF PresenceChange
<1>4. events \in Seq(Happenings) /\ Tells(events, By(clock))
      <2>1. e \in Happenings
            BY <1>2 DEF Happenings, EventKinds
      <2>2. e \notin Timetable
            BY Timetabled DEF Comings, Sleeps
      <2>3. cur.events \in Seq(Happenings)
            BY <1>2 DEF States
      <2> HIDE DEF e
      <2>4. QED
            BY <1>2, <2>1, <2>2, <2>3, TellsMore
<1> HIDE DEF presence, events
<1>5. s \in States /\ s.events = events
      BY <1>2, <1>3, <1>4 DEF States
<1> HIDE DEF s
<1>6. world' \in Faithful /\ world'.at = clock
      BY <1>1, <1>2, <1>4, <1>5 DEF Faithful, Worlds, Kept
<1>7. UNCHANGED <<records, input, result>>
      BY <1>1 DEF asked
<1>8. RequestsHonoured'
      BY <1>7, HonouredKept DEF EnergyIInv
<1>9. QED
      BY <1>1, <1>2, <1>6, <1>7, <1>8 DEF EnergyIInv

\* A failure leaves no state to be carried on.
LEMMA FailsHold ==
    ASSUME EnergyIInv, NEW r, IsRow(r), Fails(r), ~input.talk,
           UNCHANGED <<clock, asked, row>>,
           world' \in Faithful, world'.at <= clock', last' \in Int
    PROVE  EnergyIInv'
<1>1. todo' = todo \ {r} /\ job' = [of |-> r, state |-> Free] /\ signed' = clock
      BY DEF Fails
<1>2. UNCHANGED <<records, input, result>>
      BY DEF asked
<1>3. RequestsHonoured'
      BY <1>2, HonouredKept DEF EnergyIInv
<1>4. Carrying'
      <2>1. job'.of = r /\ job' = [of |-> job'.of, state |-> job'.state] /\ job'.state = Free
            BY <1>1
      <2>2. QED
            BY <2>1 DEF Carrying
<1>5. \A d \in todo' : IsRow(d)
      BY <1>1 DEF EnergyIInv
<1>6. clock' = clock /\ clock \in Int /\ 0 <= clock
      BY DEF EnergyIInv
<1>7. signed' \in Int /\ 0 <= signed'
      BY <1>1, <1>6
<1>8. row' # Free => row' \in Faithful
      BY DEF EnergyIInv
<1>9. (result' = Free => clock' <= 0) /\ input' \in PlannerInputs /\ Sound(records')
      BY <1>2, <1>6 DEF EnergyIInv
<1>10. QED
       BY <1>2, <1>3, <1>4, <1>5, <1>6, <1>7, <1>8, <1>9 DEF EnergyIInv

LEMMA ComputeHolds == ASSUME EnergyIInv, Compute PROVE EnergyIInv'
<1> DEFINE cur == AdvanceTo(world, clock)
           view == cur.view
           w == cur.world
<1>1. PICK r \in Due :
         IF Refused(view, r.command) THEN Fails(r)
         ELSE /\ job' = [of |-> r, state |-> Effect(view, r.command)]
              /\ signed' = IF IsEnding(r) THEN signed ELSE clock
              /\ UNCHANGED <<todo, missed>>
      BY DEF Compute
<1>2. /\ world' = w /\ last' = clock
      /\ UNCHANGED <<clock, asked, row, applied, crashes>>
      BY DEF Compute
<1>3. r \in todo /\ ~input.talk
      <2>1. r \in todo
            BY DEF Due
      <2>2. QED
            BY <2>1 DEF EnergyIInv
<1>4. w \in Faithful /\ w.at <= clock /\ view \in States /\ Tells(view.events, By(clock))
      BY <1>3, ReadFacts
<1>5. IsRow(r) /\ Command(r.command)
      BY <1>3 DEF EnergyIInv, IsRow
<1>6. clock \in Int
      BY DEF EnergyIInv
<1> HIDE DEF cur, w, view
<1>7. CASE Refused(view, r.command)
      <2>1. Fails(r)
            BY <1>1, <1>7
      <2>2. world' \in Faithful /\ world'.at <= clock' /\ last' \in Int
            BY <1>2, <1>4, <1>6
      <2>3. UNCHANGED <<clock, asked, row>>
            BY <1>2
      <2>4. QED
            BY <1>3, <1>5, <2>1, <2>2, <2>3, FailsHold
<1>8. CASE ~Refused(view, r.command)
      <2> DEFINE s == Effect(view, r.command)
      <2>1. s \in States /\ Tells(s.events, By(clock))
            BY <1>4, <1>5, EffectType
      <2> HIDE DEF s
      <2>2. /\ job' = [of |-> r, state |-> s] /\ todo' = todo
            /\ signed' = signed \/ signed' = clock
            BY <1>1, <1>8 DEF s
      <2>3. Carrying'
            <3>1. /\ job'.of = r /\ job'.state = s
                  /\ job' = [of |-> job'.of, state |-> job'.state]
                  BY <2>2
            <3>2. last' = clock' /\ Tells(job'.state.events, By(last'))
                  BY <1>2, <2>1, <3>1
            <3>3. QED
                  BY <1>5, <2>1, <3>1, <3>2 DEF Carrying
      <2>4. UNCHANGED <<records, input, result>>
            BY <1>2 DEF asked
      <2>5. RequestsHonoured'
            BY <2>4, HonouredKept DEF EnergyIInv
      <2>6. signed' \in Int /\ (row' # Free => 0 <= signed')
            BY <1>2, <1>3, <2>2 DEF EnergyIInv
      <2>7. QED
            BY <1>2, <1>3, <1>4, <1>6, <2>2, <2>3, <2>4, <2>5, <2>6 DEF EnergyIInv
<1>9. QED
      BY <1>7, <1>8

\* The next stage of the row under way, with what else is put on record then.
LEMMA AdvancedHolds ==
    ASSUME EnergyIInv, job # Free, job.state # Free, NEW stage \in Stages,
           NEW more, \A d \in more : IsRow(d),
           job' = [job EXCEPT !.of = [job.of EXCEPT !.stage = stage]],
           todo' = (todo \ {job.of}) \cup {job'.of} \cup more, signed' = clock,
           row' = row \/ row' = [s |-> job.state, at |-> last],
           UNCHANGED <<clock, world, last, asked>>
    PROVE  EnergyIInv'
<1>1. Carrying /\ ~input.talk /\ clock \in Int /\ 0 <= clock
      BY DEF EnergyIInv
<1> DEFINE new == [job.of EXCEPT !.stage = stage]
<1>2. IsRow(new)
      BY <1>1, StageType DEF Carrying
<1> HIDE DEF new
<1>3. /\ job' = [of |-> new, state |-> job.state]
      /\ job'.of = new /\ job'.state = job.state
      <2>1. job = [of |-> job.of, state |-> job.state] /\ job' = [job EXCEPT !.of = new]
            BY <1>1 DEF Carrying, new
      <2>2. QED
            BY <2>1
<1>4. /\ job.state \in States /\ Tells(job.state.events, By(last)) /\ last = clock
      BY <1>1 DEF Carrying
<1>5. Carrying'
      <2>1. job' = [of |-> job'.of, state |-> job'.state]
            BY <1>3
      <2>2. QED
            BY <1>2, <1>3, <1>4, <2>1 DEF Carrying
<1>6. \A d \in todo' : IsRow(d)
      BY <1>2, <1>3 DEF EnergyIInv
<1>7. row' # Free => row' \in Faithful
      BY <1>1, <1>4 DEF Faithful, Worlds, Kept, EnergyIInv
<1>8. UNCHANGED <<records, input, result>>
      BY DEF asked
<1>9. RequestsHonoured'
      BY <1>8, HonouredKept DEF EnergyIInv
<1>10. QED
       BY <1>1, <1>5, <1>6, <1>7, <1>8, <1>9 DEF EnergyIInv

LEMMA ClaimHolds == ASSUME EnergyIInv, Claim PROVE EnergyIInv'
<1> DEFINE c == job.of.command
           end == [device |-> c.device, at |-> c.until, until |-> 0, params |-> Ending(c)]
           more == IF Ending(c) = Free THEN {} ELSE {Row(end, job.of.again)}
<1>1. /\ job # Free /\ job.state # Free
      /\ job' = [job EXCEPT !.of = [job.of EXCEPT !.stage = "executing"]]
      /\ todo' = (todo \ {job.of}) \cup {job'.of} \cup more
      /\ signed' = clock /\ row' = row /\ UNCHANGED <<clock, world, last, asked>>
      BY DEF Claim, Doing
<1>2. Command(c) /\ job.of.again \in BOOLEAN
      BY <1>1 DEF EnergyIInv, Carrying, IsRow
<1>3. \A d \in more : IsRow(d)
      <2> SUFFICES ASSUME Ending(c) # Free PROVE IsRow(Row(end, job.of.again))
          OBVIOUS
      <2>1. Command(end)
            BY <1>2, EndingType
      <2> HIDE DEF end
      <2>2. QED
            BY <1>2, <2>1, RowType
<1> HIDE DEF more
<1>4. QED
      BY <1>1, <1>3, AdvancedHolds DEF Stages

LEMMA CommitHolds == ASSUME EnergyIInv, Commit PROVE EnergyIInv'
<1> DEFINE more == {}
<1>1. /\ job # Free /\ job.state # Free
      /\ job' = [job EXCEPT !.of = [job.of EXCEPT !.stage = "dispatched"]]
      /\ todo' = (todo \ {job.of}) \cup {job'.of} \cup more
      /\ signed' = clock /\ row' = [s |-> job.state, at |-> last]
      /\ UNCHANGED <<clock, world, last, asked>>
      BY DEF Commit, Doing
<1>2. \A d \in more : IsRow(d)
      OBVIOUS
<1> HIDE DEF more
<1>3. QED
      BY <1>1, <1>2, AdvancedHolds DEF Stages

LEMMA PublishHolds == ASSUME EnergyIInv, Publish PROVE EnergyIInv'
<1> DEFINE w == AdvanceTo([s |-> job.state, at |-> last], clock).world
<1>1. /\ job # Free /\ job.state # Free
      /\ world' = w /\ last' = clock /\ signed' = clock /\ job' = Free
      /\ todo' = todo \ {job.of} /\ UNCHANGED <<clock, asked, row, crashes>>
      BY DEF Publish, Doing
<1>2. Carrying /\ clock \in Int /\ ~input.talk
      BY <1>1 DEF EnergyIInv
<1>3. w \in Faithful /\ w.at <= clock
      <2> DEFINE v == [s |-> job.state, at |-> last]
      <2>1. v \in Faithful /\ v.at <= clock
            BY <1>1, <1>2 DEF Carrying, Faithful, Worlds, Kept
      <2> HIDE DEF v
      <2>2. AdvanceTo(v, clock).world \in Faithful /\ AdvanceTo(v, clock).world.at <= clock
            BY <1>2, <2>1, AdvanceToFacts
      <2>3. QED
            BY <2>2 DEF v
<1> HIDE DEF w
<1>4. UNCHANGED <<records, input, result>>
      BY <1>1 DEF asked
<1>5. RequestsHonoured'
      BY <1>4, HonouredKept DEF EnergyIInv
<1>6. \A d \in todo' : IsRow(d)
      BY <1>1 DEF EnergyIInv
<1>7. QED
      BY <1>1, <1>2, <1>3, <1>4, <1>5, <1>6 DEF EnergyIInv

LEMMA FailureHolds == ASSUME EnergyIInv, Uncertain \/ Falter PROVE EnergyIInv'
<1>1. PICK r : IsRow(r) /\ Fails(r) /\ ~input.talk
      <2>1. CASE Uncertain
            <3>1. PICK r \in Due : Fails(r)
                  BY <2>1 DEF Uncertain
            <3>2. IsRow(r) /\ ~input.talk
                  BY DEF Due, EnergyIInv
            <3>3. QED
                  BY <3>1, <3>2
      <2>2. CASE Falter
            <3>1. job # Free /\ Fails(job.of)
                  BY <2>2 DEF Falter
            <3>2. IsRow(job.of) /\ ~input.talk
                  BY <3>1 DEF EnergyIInv, Carrying
            <3>3. QED
                  BY <3>1, <3>2
      <2>3. QED
            BY <2>1, <2>2
<1>2. UNCHANGED <<clock, world, last, asked, row>>
      BY DEF Uncertain, Falter
<1>3. world' \in Faithful /\ world'.at <= clock' /\ last' \in Int
      BY <1>1, <1>2 DEF EnergyIInv
<1>4. QED
      BY <1>1, <1>2, <1>3, FailsHold

LEMMA SettleHolds == ASSUME EnergyIInv, Settle PROVE EnergyIInv'
<1> DEFINE c == job.of.command
           new == [c EXCEPT !.at = clock]
           w == AdvanceTo(world, clock).world
<1>1. /\ job # Free /\ world' = w /\ last' = clock /\ signed' = clock /\ job' = Free
      /\ UNCHANGED <<clock, asked, row>>
      /\ todo' \subseteq todo \cup {Row(new, TRUE)}
      BY DEF Settle
<1>2. ~input.talk /\ clock \in Int /\ 0 <= clock /\ Command(c)
      BY <1>1 DEF EnergyIInv, Carrying, IsRow
<1>3. w \in Faithful /\ w.at <= clock
      BY <1>2, ReadFacts
<1> HIDE DEF w
<1>4. IsRow(Row(new, TRUE))
      <2>1. Command(new)
            <3>1. new = [device |-> c.device, at |-> clock, until |-> c.until, params |-> c.params]
                  BY <1>2 DEF Command
            <3>2. c.device \in Commanded /\ c.until \in Int /\ c.params \in Params(c.device)
                  BY <1>2 DEF Command
            <3> HIDE DEF c, new
            <3>3. QED
                  BY <1>2, <3>1, <3>2 DEF Command
      <2> HIDE DEF new
      <2>2. QED
            BY <2>1, RowType
<1> HIDE DEF new
<1>5. \A d \in todo' : IsRow(d)
      BY <1>1, <1>4 DEF EnergyIInv
<1>6. UNCHANGED <<records, input, result>>
      BY <1>1 DEF asked
<1>7. RequestsHonoured'
      BY <1>6, HonouredKept DEF EnergyIInv
<1>8. QED
      BY <1>1, <1>2, <1>3, <1>5, <1>6, <1>7 DEF EnergyIInv

LEMMA RestoreHolds == ASSUME EnergyIInv, Restore PROVE EnergyIInv'
<1>1. /\ ~input.talk /\ result # Free /\ job' = Free /\ UNCHANGED <<asked, todo, row, signed>>
      BY DEF Restore, Carried
<1>2. UNCHANGED <<records, input, result>>
      BY <1>1 DEF asked
<1>3. RequestsHonoured'
      BY <1>2, HonouredKept DEF EnergyIInv
<1>4. world' \in Faithful /\ clock' \in Int /\ last' \in Int /\ 0 <= clock' /\ world'.at <= clock'
      <2>1. CASE row = Free
            <3>1. world' = Fresh(input) /\ clock' = 0 /\ last' = 0
                  BY <2>1 DEF Restore
            <3>2. input \in PlannerInputs
                  BY DEF EnergyIInv
            <3>3. QED
                  BY <3>1, <3>2, FreshFacts
      <2>2. CASE row # Free
            <3>1. /\ clock' = Most(row.at, signed) /\ last' = clock'
                  /\ world' = AdvanceTo(row, clock').world
                  BY <2>2 DEF Restore
            <3>2. row \in Faithful /\ row.at \in Int /\ signed \in Int
                  BY <2>2 DEF EnergyIInv, Faithful, Worlds
            <3>3. clock' \in Int /\ row.at <= clock' /\ signed <= clock'
                  BY <3>1, <3>2 DEF Most
            <3>4. AdvanceTo(row, clock').world \in Faithful /\ AdvanceTo(row, clock').world.at <= clock'
                  <4> DEFINE t == clock'
                             w == row
                  <4>1. w \in Faithful /\ t \in Int /\ w.at <= t
                        BY <3>2, <3>3
                  <4> HIDE DEF t, w
                  <4>2. AdvanceTo(w, t).world \in Faithful /\ AdvanceTo(w, t).world.at <= t
                        BY <4>1, AdvanceToFacts
                  <4>3. QED
                        BY <4>2 DEF t, w
            <3>5. 0 <= clock'
                  BY <2>2, <3>2, <3>3 DEF EnergyIInv
            <3>6. QED
                  BY <3>1, <3>3, <3>4, <3>5
      <2>3. QED
            BY <2>1, <2>2
<1>5. QED
      BY <1>1, <1>2, <1>3, <1>4 DEF EnergyIInv

LEMMA EnergyNextHolds == ASSUME EnergyIInv, [EnergyNext]_energyVars PROVE EnergyIInv'
<1>1. CASE EnergyNext
      BY <1>1, MembersHold, ReleaseHolds, ClockHolds, PlanHolds, ReadHolds, ComputeHolds,
         ClaimHolds, CommitHolds, PublishHolds, FailureHolds, SettleHolds, RestoreHolds,
         MemberEventHolds DEF EnergyNext
<1>2. CASE UNCHANGED energyVars
      <2>1. /\ UNCHANGED <<clock, world, last, records, input, result, todo, missed, job, row, signed>>
            BY <1>2 DEF energyVars, asked
      <2>2. RequestsHonoured'
            BY <2>1, HonouredKept DEF EnergyIInv
      <2>3. QED
            <3>1. job # Free => Carrying'
                  BY <2>1 DEF EnergyIInv, Carrying
            <3>2. QED
                  BY <2>1, <2>2, <3>1 DEF EnergyIInv
<1>3. QED
      BY <1>1, <1>2

\* The strengthened invariant: whatever the members say, the solver answers,
\* the adapters read and however often the process restarts, the records stay
\* sound, the state well-typed, and the world, the state of a command under way
\* and the checkpoint all tell the timetable up to the instant they stand for.
THEOREM EnergyInvariant == EnergySpec => []EnergyIInv
<1>1. EnergyInit => EnergyIInv
      BY EnergyInitHolds
<1>2. EnergyIInv /\ [EnergyNext]_energyVars => EnergyIInv'
      BY EnergyNextHolds
<1>3. QED
      BY <1>1, <1>2, PTL DEF EnergySpec

\* A plan that is proposed honours every hard request on record, on the twin's
\* own physics, for every input, request and answer of the solver
\* (planner/coordinator.py:778).
THEOREM EveryRequestHonoured == EnergySpec => []RequestsHonoured
<1>1. EnergyIInv => RequestsHonoured
      BY DEF EnergyIInv
<1>2. QED
      BY <1>1, EnergyInvariant, PTL

\* Every scheduled transition of the member happens once, in order, when the
\* world passes it, for every timetable, whoever reads and whenever the process
\* restarts (twin/world.py, advance_to).
THEOREM TimetableAlwaysKept == EnergySpec => []TimetableKept
<1>1. EnergyIInv => TimetableKept
      <2> SUFFICES ASSUME EnergyIInv PROVE TimetableKept
          OBVIOUS
      <2>1. Tells(world.s.events, By(world.at))
            BY DEF EnergyIInv, Faithful, Kept
      <2>2. QED
            BY <2>1, Zenon DEF TimetableKept, Tells, By
<1>2. QED
      BY <1>1, EnergyInvariant, PTL
=============================================================================
