---------------------------- MODULE PlansProofs -----------------------------
(***************************************************************************)
(* Proofs about plans, their consent and their budget, for every number of *)
(* workers, every horizon and everything the solver may propose.           *)
(*                                                                         *)
(* A worker publishes from memory what it computed outside any transaction. *)
(* The invariant says what its memory still tells of the tables: as long as *)
(* the generation it claimed is the job's, nobody asked for anything since, *)
(* nothing was opened since, and only endings were recorded.  With it a     *)
(* replacement keeps every share that is still spent, although the openings *)
(* it looks at were read earlier.                                          *)
(***************************************************************************)
EXTENDS Plans, FiniteSetTheorems, SequenceTheorems, WellFoundedInduction, TLAPS

Outstanding(o) == Attempted(o) /\ ~o.ended

\* Every version but the last is over; consent is recorded with the requests it
\* covered; the shares of a version are of its own grant or of earlier ones.
RowKept(p, v) ==
    /\ v < Latest => p.status \in TERMINAL
    /\ p.status = "approved" => p.approver
    /\ p.approver => p.agreed = p.asked
    /\ IsFiniteSet(p.allocations)
    /\ \A s \in p.allocations : s.grant <= v /\ (p.status = "proposed" => s.grant # v)
Lineage == \A v \in 1..Len(plans) : RowKept(plans[v], v)

\* The job is the last version's: idle while that was computed from the job's
\* facts, and explicit as soon as a member asks for more than it answers.
JobKept ==
    IF plans = <<>>
    THEN usage = 0 /\ job.state = "idle" /\ \A w \in Workers : work[w].pc = "idle"
    ELSE /\ job.plan = Latest
         /\ job.state = "idle" => plans[Latest].basis = job.facts
         /\ ~job.explicit => plans[Latest].asked = wishes

\* What the rows a worker read tell of the openings now.
Reads(rows) ==
    /\ Len(rows) = Len(ops)
    /\ \A v \in 1..Len(ops) :
        /\ rows[v].stop = ops[v].stop
        /\ Outstanding(ops[v]) => Outstanding(rows[v])

Computing(k) == k.pc \in {"compute", "repoll", "publish"} \/ (k.pc = "unread" /\ k.plan # 0)
Knows(k) ==
    /\ k.pc \in {"idle", "poll", "list"} => k.plan = 0
    /\ k.pc \in {"start", "compute", "repoll", "publish", "block"} => k.plan # 0
    /\ k.plan <= Len(plans)
    /\ Computing(k) =>
        /\ k.before <= facts /\ k.generation <= job.generation
        /\ k.generation = job.generation =>
            /\ k.before = facts => k.asked = wishes
            /\ k.plan = Latest => job.state # "idle" /\ Reads(k.rows)
WorkersKnow == \A w \in Workers : Knows(work[w])

Inv == TypeOK /\ Lineage /\ JobKept /\ WorkersKnow /\ BudgetKept

-----------------------------------------------------------------------------
(* Sums over finite sets.                                                  *)

\* g adds up f over every subset of S, one chosen element after the other.
Chosen(s) == CHOOSE x \in s : TRUE
Adds(g, f, S) == g = [s \in SUBSET S |-> IF s = {} THEN 0 ELSE f[Chosen(s)] + g[s \ {Chosen(s)}]]
SumOn(f, S) == (CHOOSE g : Adds(g, f, S))[S]

\* Induction over a finite set, for what can be written as a set of subsets.
LEMMA FiniteInduction ==
    ASSUME NEW S, IsFiniteSet(S), NEW T,
           \A s \in SUBSET S : (\A u \in SUBSET s : u # s => u \in T) => s \in T
    PROVE  \A s \in SUBSET S : s \in T
<1> DEFINE bad == {s \in SUBSET S : s \notin T}
<1> SUFFICES ASSUME bad # {} PROVE FALSE
    OBVIOUS
<1>1. IsWellFoundedOn(StrictSubsetOrdering(S), SUBSET S)
      <2>1. IsWellFoundedOn(StrictSubsetOrdering(S), FiniteSubsetsOf(S))
            BY FS_StrictSubsetOrderingWellFounded
      <2>2. FiniteSubsetsOf(S) = SUBSET S
            BY FS_FiniteSubsetsOfFinite
      <2>3. QED
            BY <2>1, <2>2, Zenon
<1>2. bad \subseteq SUBSET S
      OBVIOUS
<1>3. PICK m \in bad : \A y \in bad : ~(<<y, m>> \in StrictSubsetOrdering(S))
      <2> HIDE DEF bad
      <2>1. QED
            BY <1>1, <1>2, WFMin
<1>4. \A u \in SUBSET m : u # m => u \in T
      <2> SUFFICES ASSUME NEW u \in SUBSET m, u # m, u \notin T PROVE FALSE
          OBVIOUS
      <2>1. <<u, m>> \in StrictSubsetOrdering(S)
            BY DEF StrictSubsetOrdering
      <2>2. QED
            BY <1>3, <2>1
<1>5. QED
      BY <1>4

LEMMA ChosenIn == ASSUME NEW s, s # {} PROVE Chosen(s) \in s
BY DEF Chosen

\* Two ways of adding up agree on the subsets both know.
LEMMA AddsAgree ==
    ASSUME NEW A, NEW B, IsFiniteSet(A), NEW f, NEW g, NEW h, Adds(g, f, A), Adds(h, f, B)
    PROVE  \A s \in SUBSET A : s \in SUBSET B => g[s] = h[s]
<1> DEFINE T == {s \in SUBSET A : s \in SUBSET B => g[s] = h[s]}
<1>1. ASSUME NEW s \in SUBSET A, \A u \in SUBSET s : u # s => u \in T, s \in SUBSET B
      PROVE  g[s] = h[s]
      <2>1. CASE s = {}
            BY <2>1 DEF Adds
      <2>2. CASE s # {}
            <3>1. PICK c \in s : c = Chosen(s)
                  BY <2>2, ChosenIn
            <3>2. g[s \ {c}] = h[s \ {c}]
                  BY <1>1, <3>1
            <3>3. g[s] = f[c] + g[s \ {c}]
                  BY <2>2, <3>1 DEF Adds
            <3>4. h[s] = f[c] + h[s \ {c}]
                  BY <1>1, <2>2, <3>1 DEF Adds
            <3>5. QED
                  BY <3>2, <3>3, <3>4
      <2>3. QED
            BY <2>1, <2>2
<1>2. \A s \in SUBSET A : (\A u \in SUBSET s : u # s => u \in T) => s \in T
      BY <1>1
<1>3. \A s \in SUBSET A : s \in T
      <2> HIDE DEF T
      <2>1. QED
            BY <1>2, FiniteInduction
<1>4. QED
      BY <1>3

\* Every finite set can be added up.
LEMMA AddsExists ==
    ASSUME NEW S, IsFiniteSet(S), NEW f
    PROVE  \E g : Adds(g, f, S)
<1> DEFINE T == {s \in SUBSET S : \E g : Adds(g, f, s)}
<1>1. ASSUME NEW s \in SUBSET S, \A u \in SUBSET s : u # s => u \in T
      PROVE  \E g : Adds(g, f, s)
      <2>0. \A u \in SUBSET s : IsFiniteSet(u)
            BY FS_Subset
      <2>1. \A u \in SUBSET s : u # s => Adds(CHOOSE g : Adds(g, f, u), f, u)
            BY <1>1
      <2> DEFINE part(u) == SumOn(f, u)
                 value(u) == IF u = {} THEN 0 ELSE f[Chosen(u)] + part(u \ {Chosen(u)})
                 whole == [u \in SUBSET s |-> value(u)]
      <2>2. ASSUME NEW u \in SUBSET s, u # s
            PROVE  part(u) = value(u)
            <3>1. PICK g : g = CHOOSE k : Adds(k, f, u)
                  OBVIOUS
            <3>2. Adds(g, f, u) /\ part(u) = g[u]
                  BY <2>1, <2>2, <3>1 DEF SumOn
            <3>3. CASE u = {}
                  BY <3>2, <3>3 DEF Adds
            <3>4. CASE u # {}
                  <4>1. PICK c \in u : c = Chosen(u)
                        BY <3>4, ChosenIn
                  <4>2. g[u] = f[c] + g[u \ {c}]
                        BY <3>2, <3>4, <4>1 DEF Adds
                  <4>3. PICK w : w = u \ {c}
                        OBVIOUS
                  <4>4. w \in SUBSET s /\ w # s /\ w \in SUBSET u
                        BY <2>2, <4>1, <4>3
                  <4>5. PICK h : h = CHOOSE k : Adds(k, f, w)
                        OBVIOUS
                  <4>6. Adds(h, f, w) /\ part(w) = h[w]
                        BY <2>1, <4>4, <4>5 DEF SumOn
                  <4>7. g[w] = h[w]
                        BY <2>0, <3>2, <4>4, <4>6, AddsAgree
                  <4>8. QED
                        BY <3>2, <3>4, <4>1, <4>2, <4>3, <4>6, <4>7
            <3>5. QED
                  BY <3>3, <3>4
      <2>3. ASSUME NEW u \in SUBSET s, u # {}
            PROVE  value(u) = f[Chosen(u)] + whole[u \ {Chosen(u)}]
            <3>1. PICK c \in u : c = Chosen(u)
                  BY <2>3, ChosenIn
            <3>2. PICK w : w = u \ {c}
                  OBVIOUS
            <3>3. w \in SUBSET s /\ c \in s /\ c \notin w
                  BY <3>1, <3>2
            <3>4. part(w) = value(w)
                  BY <2>2, <3>3
            <3>5. whole[w] = value(w)
                  BY <3>3
            <3> HIDE DEF part, whole
            <3>6. QED
                  BY <2>3, <3>1, <3>2, <3>4, <3>5
      <2>4. \A u \in SUBSET s : value(u) = IF u = {} THEN 0 ELSE f[Chosen(u)] + whole[u \ {Chosen(u)}]
            BY <2>3
      <2>5. Adds(whole, f, s)
            <3> HIDE DEF value
            <3>1. QED
                  BY <2>4 DEF Adds
      <2>6. QED
            BY <2>5
<1>2. \A s \in SUBSET S : (\A u \in SUBSET s : u # s => u \in T) => s \in T
      BY <1>1
<1>3. \A s \in SUBSET S : s \in T
      <2> HIDE DEF T
      <2>1. QED
            BY <1>2, FiniteInduction
<1>4. QED
      BY <1>3

LEMMA SumAdds ==
    ASSUME NEW S, IsFiniteSet(S), NEW f, NEW g, Adds(g, f, S)
    PROVE  \A s \in SUBSET S : g[s] = SumOn(f, s)
<1> SUFFICES ASSUME NEW s \in SUBSET S PROVE g[s] = SumOn(f, s)
    OBVIOUS
<1>1. IsFiniteSet(s)
      BY FS_Subset
<1>2. PICK h : h = CHOOSE k : Adds(k, f, s)
      OBVIOUS
<1>3. Adds(h, f, s)
      BY <1>1, <1>2, AddsExists
<1>4. g[s] = h[s]
      BY <1>1, <1>3, AddsAgree
<1>5. QED
      BY <1>2, <1>4 DEF SumOn

LEMMA SumEmpty == ASSUME NEW f PROVE SumOn(f, {}) = 0
<1>1. PICK g : Adds(g, f, {})
      BY AddsExists, FS_EmptySet
<1>2. g[{}] = SumOn(f, {})
      BY <1>1, SumAdds, FS_EmptySet
<1>3. QED
      BY <1>1, <1>2 DEF Adds

LEMMA SumChosen ==
    ASSUME NEW S, IsFiniteSet(S), NEW f, S # {}
    PROVE  SumOn(f, S) = f[Chosen(S)] + SumOn(f, S \ {Chosen(S)})
<1>1. PICK g : Adds(g, f, S)
      BY AddsExists
<1>2. g[S] = f[Chosen(S)] + g[S \ {Chosen(S)}]
      BY <1>1 DEF Adds
<1>3. QED
      BY <1>1, <1>2, SumAdds

\* What is added up is a number.
LEMMA SumType ==
    ASSUME NEW S, IsFiniteSet(S), NEW f, \A x \in S : f[x] \in Nat
    PROVE  \A s \in SUBSET S : SumOn(f, s) \in Nat
<1> DEFINE T == {s \in SUBSET S : SumOn(f, s) \in Nat}
<1>1. ASSUME NEW s \in SUBSET S, \A u \in SUBSET s : u # s => u \in T
      PROVE  SumOn(f, s) \in Nat
      <2>1. CASE s = {}
            BY <2>1, SumEmpty
      <2>2. CASE s # {}
            <3>1. Chosen(s) \in s
                  BY <2>2, ChosenIn
            <3>2. SumOn(f, s) = f[Chosen(s)] + SumOn(f, s \ {Chosen(s)})
                  BY <2>2, SumChosen, FS_Subset
            <3>3. SumOn(f, s \ {Chosen(s)}) \in Nat
                  BY <1>1, <3>1
            <3>4. QED
                  BY <3>1, <3>2, <3>3
      <2>3. QED
            BY <2>1, <2>2
<1>2. \A s \in SUBSET S : (\A u \in SUBSET s : u # s => u \in T) => s \in T
      BY <1>1
<1>3. \A s \in SUBSET S : s \in T
      <2> HIDE DEF T
      <2>1. QED
            BY <1>2, FiniteInduction
<1>4. QED
      BY <1>3

\* Any element can be taken out of a sum.
LEMMA SumTake ==
    ASSUME NEW S, IsFiniteSet(S), NEW f, \A x \in S : f[x] \in Nat
    PROVE  \A s \in SUBSET S : \A x \in s : SumOn(f, s) = f[x] + SumOn(f, s \ {x})
<1> DEFINE T == {s \in SUBSET S : \A x \in s : SumOn(f, s) = f[x] + SumOn(f, s \ {x})}
<1>0. \A s \in SUBSET S : IsFiniteSet(s) /\ SumOn(f, s) \in Nat
      BY FS_Subset, SumType
<1>1. ASSUME NEW s \in SUBSET S, \A u \in SUBSET s : u # s => u \in T, NEW x \in s
      PROVE  SumOn(f, s) = f[x] + SumOn(f, s \ {x})
      <2>1. PICK c \in s : c = Chosen(s)
            BY ChosenIn
      <2>2. SumOn(f, s) = f[c] + SumOn(f, s \ {c})
            BY <1>0, <2>1, SumChosen
      <2>3. CASE x = c
            BY <2>2, <2>3
      <2>4. CASE x # c
            <3>1. s \ {c} \in T /\ s \ {x} \in T
                  BY <1>1
            <3>2. PICK r \in SUBSET S : r = (s \ {c}) \ {x} /\ r = (s \ {x}) \ {c}
                  OBVIOUS
            <3>3. SumOn(f, s \ {c}) = f[x] + SumOn(f, r)
                  BY <2>4, <3>1, <3>2
            <3>4. SumOn(f, s \ {x}) = f[c] + SumOn(f, r)
                  BY <2>4, <3>1, <3>2
            <3>5. f[x] \in Nat /\ f[c] \in Nat /\ SumOn(f, r) \in Nat
                  BY <1>0
            <3>6. QED
                  BY <2>2, <3>3, <3>4, <3>5
      <2>5. QED
            BY <2>3, <2>4
<1>2. \A s \in SUBSET S : (\A u \in SUBSET s : u # s => u \in T) => s \in T
      BY <1>1
<1>3. \A s \in SUBSET S : s \in T
      <2> HIDE DEF T
      <2>1. QED
            BY <1>2, FiniteInduction
<1>4. QED
      BY <1>3

\* A finite set that is not empty has an element of the largest value.
LEMMA LargestExists ==
    ASSUME NEW S, IsFiniteSet(S), NEW f, \A x \in S : f[x] \in Nat
    PROVE  \A s \in SUBSET S : s # {} => \E x \in s : \A y \in s : f[x] >= f[y]
<1> DEFINE T == {s \in SUBSET S : s # {} => \E x \in s : \A y \in s : f[x] >= f[y]}
<1>1. ASSUME NEW s \in SUBSET S, \A u \in SUBSET s : u # s => u \in T, s # {}
      PROVE  \E x \in s : \A y \in s : f[x] >= f[y]
      <2>1. PICK c \in s : TRUE
            BY <1>1
      <2>2. CASE s = {c}
            BY <2>2
      <2>3. CASE s # {c}
            <3>0. s \ {c} \in SUBSET s /\ s \ {c} # s /\ s \ {c} # {}
                  BY <2>1, <2>3
            <3>1. PICK x \in s \ {c} : \A y \in s \ {c} : f[x] >= f[y]
                  BY <1>1, <3>0
            <3>2. \A y \in s : f[y] \in Nat
                  OBVIOUS
            <3>3. CASE f[x] >= f[c]
                  BY <3>1, <3>3
            <3>4. CASE ~(f[x] >= f[c])
                  BY <2>1, <3>1, <3>2, <3>4
            <3>5. QED
                  BY <3>3, <3>4
      <2>4. QED
            BY <2>2, <2>3
<1>2. \A s \in SUBSET S : (\A u \in SUBSET s : u # s => u \in T) => s \in T
      BY <1>1
<1>3. \A s \in SUBSET S : s \in T
      <2> HIDE DEF T
      <2>1. QED
            BY <1>2, FiniteInduction
<1>4. QED
      BY <1>3

\* Two sets without a common element add up to their union.
LEMMA SumUnion ==
    ASSUME NEW A, NEW B, IsFiniteSet(A), IsFiniteSet(B), A \cap B = {},
           NEW f, \A x \in A \cup B : f[x] \in Nat
    PROVE  SumOn(f, A \cup B) = SumOn(f, A) + SumOn(f, B)
<1> DEFINE T == {s \in SUBSET B : SumOn(f, A \cup s) = SumOn(f, A) + SumOn(f, s)}
<1>0. IsFiniteSet(A \cup B)
      BY FS_Union
<1>1. \A s \in SUBSET (A \cup B) : SumOn(f, s) \in Nat
      BY <1>0, SumType
<1>2. ASSUME NEW s \in SUBSET (A \cup B), NEW x \in s
      PROVE  SumOn(f, s) = f[x] + SumOn(f, s \ {x})
      <2>1. PICK U : U = A \cup B
            OBVIOUS
      <2>2. IsFiniteSet(U) /\ s \in SUBSET U /\ \A y \in U : f[y] \in Nat
            BY <1>0, <2>1
      <2>3. QED
            BY <2>2, SumTake
<1>3. ASSUME NEW s \in SUBSET B, \A u \in SUBSET s : u # s => u \in T
      PROVE  SumOn(f, A \cup s) = SumOn(f, A) + SumOn(f, s)
      <2>1. CASE s = {}
            <3>1. A \cup s = A
                  BY <2>1
            <3>2. SumOn(f, A) \in Nat /\ SumOn(f, s) = 0
                  BY <1>1, <2>1, SumEmpty
            <3>3. QED
                  BY <3>1, <3>2
      <2>2. CASE s # {}
            <3>1. PICK c \in s : TRUE
                  BY <2>2
            <3>2. PICK r : r = s \ {c}
                  OBVIOUS
            <3>9. r \in SUBSET s /\ r # s /\ (A \cup s) \ {c} = A \cup r /\ c \in A \cup s
                  BY <3>1, <3>2
            <3>3. SumOn(f, A \cup s) = f[c] + SumOn(f, A \cup r)
                  BY <1>2, <3>9
            <3>4. SumOn(f, s) = f[c] + SumOn(f, r)
                  BY <1>2, <3>1, <3>2
            <3>5. SumOn(f, A \cup r) = SumOn(f, A) + SumOn(f, r)
                  BY <1>3, <3>9
            <3>6. SumOn(f, A) \in Nat /\ SumOn(f, r) \in Nat /\ f[c] \in Nat
                  BY <1>1, <3>1, <3>9
            <3>7. QED
                  BY <3>3, <3>4, <3>5, <3>6
      <2>3. QED
            BY <2>1, <2>2
<1>4. \A s \in SUBSET B : (\A u \in SUBSET s : u # s => u \in T) => s \in T
      BY <1>3
<1>5. \A s \in SUBSET B : s \in T
      <2> HIDE DEF T
      <2>1. QED
            BY <1>4, FiniteInduction
<1>6. QED
      BY <1>5

\* The largest of a finite set of numbers is one of them.
LEMMA MaxIs ==
    ASSUME NEW S \in SUBSET Int, IsFiniteSet(S), S # {}, \A x \in S : x >= 0
    PROVE  Max(S) \in S /\ \A y \in S : Max(S) >= y
<1> DEFINE f == [x \in S |-> x]
<1>1. \E x \in S : \A y \in S : f[x] >= f[y]
      <2>1. \A x \in S : f[x] \in Nat
            OBVIOUS
      <2> HIDE DEF f
      <2>2. QED
            BY <2>1, LargestExists
<1>2. \E x \in S : \A y \in S : x >= y
      BY <1>1
<1>3. QED
      BY <1>2 DEF Max

-----------------------------------------------------------------------------
(* Shares of the budget.                                                   *)

Amounts == [s \in Share |-> s.amount]
Estimated(e, v, S) == {[t |-> t, grant |-> v, amount |-> e[t]] : t \in {i \in S : e[i] > 0}}

LEMMA TotalIsSum ==
    ASSUME NEW S \in SUBSET Share, IsFiniteSet(S)
    PROVE  Total(S) = SumOn(Amounts, S)
<1> DEFINE f == Amounts
           Q(g) == g = [s \in SUBSET S |-> IF s = {} THEN 0 ELSE Chosen(s).amount + g[s \ {Chosen(s)}]]
<1>2. ASSUME NEW g
      PROVE  Q(g) <=> Adds(g, f, S)
      <2>1. \A s \in SUBSET S : s # {} => f[Chosen(s)] = Chosen(s).amount
            BY ChosenIn DEF Amounts
      <2>2. [s \in SUBSET S |-> IF s = {} THEN 0 ELSE Chosen(s).amount + g[s \ {Chosen(s)}]]
            = [s \in SUBSET S |-> IF s = {} THEN 0 ELSE f[Chosen(s)] + g[s \ {Chosen(s)}]]
            <3> HIDE DEF f
            <3>1. QED
                  BY <2>1
      <2>3. QED
            BY <2>2 DEF Adds
<1>3. \E g : Q(g)
      BY <1>2, AddsExists
<1>4. PICK h : h = CHOOSE g : Q(g)
      OBVIOUS
<1>5. Q(h)
      <2> HIDE DEF Q
      <2>1. QED
            BY <1>3, <1>4
<1>6. Total(S) = h[S]
      BY <1>4 DEF Total, MapThenSumSet, MapThenFoldSet, Chosen
<1>7. Adds(h, f, S)
      BY <1>2, <1>5
<1>8. h[S] = SumOn(f, S)
      <2> HIDE DEF f
      <2>1. QED
            BY <1>7, SumAdds
<1>9. QED
      BY <1>6, <1>8

LEMMA SumIsSum ==
    ASSUME NEW f, IsFiniteSet(DOMAIN f)
    PROVE  Sum(f) = SumOn(f, DOMAIN f)
<1> DEFINE S == DOMAIN f
           Q(g) == g = [s \in SUBSET S |-> IF s = {} THEN 0 ELSE f[Chosen(s)] + g[s \ {Chosen(s)}]]
<1>2. ASSUME NEW g
      PROVE  Q(g) <=> Adds(g, f, S)
      BY DEF Adds
<1>3. \E g : Q(g)
      BY <1>2, AddsExists
<1>4. PICK h : h = CHOOSE g : Q(g)
      OBVIOUS
<1>5. Q(h)
      <2> HIDE DEF Q
      <2>1. QED
            BY <1>3, <1>4
<1>6. Sum(f) = h[S]
      BY <1>4 DEF Sum, MapThenSumSet, MapThenFoldSet, Chosen
<1>7. Adds(h, f, S)
      BY <1>2, <1>5
<1>8. h[S] = SumOn(f, S)
      BY <1>7, SumAdds
<1>9. QED
      BY <1>6, <1>8

\* A total is a number, and parts without a common share add up.
LEMMA TotalType ==
    ASSUME NEW S \in SUBSET Share, IsFiniteSet(S)
    PROVE  Total(S) \in Nat
<1>1. \A s \in S : Amounts[s] \in Nat
      BY DEF Amounts, Share
<1>2. QED
      BY <1>1, TotalIsSum, SumType

LEMMA TotalUnion ==
    ASSUME NEW A \in SUBSET Share, NEW B \in SUBSET Share, IsFiniteSet(A), IsFiniteSet(B),
           A \cap B = {}
    PROVE  IsFiniteSet(A \cup B) /\ Total(A \cup B) = Total(A) + Total(B)
<1>1. IsFiniteSet(A \cup B)
      BY FS_Union
<1>2. \A s \in A \cup B : Amounts[s] \in Nat
      BY DEF Amounts, Share
<1>3. SumOn(Amounts, A \cup B) = SumOn(Amounts, A) + SumOn(Amounts, B)
      BY <1>2, SumUnion
<1>4. QED
      BY <1>1, <1>3, TotalIsSum

LEMMA InstantsFinite == IsFiniteSet(Instants)
BY FS_Interval, PlansAssumption DEF Instants

\* The shares of an estimate hold what the estimate asks for.
LEMMA IntervalsSum ==
    ASSUME NEW p, p.estimates \in [Instants -> Nat], NEW v \in Nat
    PROVE  /\ intervals(p, v) \in SUBSET Share /\ IsFiniteSet(intervals(p, v))
           /\ \A s \in intervals(p, v) : s.grant = v
           /\ Total(intervals(p, v)) = reservation(p)
<1>1. PICK e \in [Instants -> Nat] : e = p.estimates
      OBVIOUS
<1> DEFINE T == {S \in SUBSET Instants : IsFiniteSet(Estimated(e, v, S)) /\ Total(Estimated(e, v, S)) = SumOn(e, S)}
<1>2. \A S \in SUBSET Instants : Estimated(e, v, S) \in SUBSET Share
      BY DEF Estimated, Share
<1>3. \A S \in SUBSET Instants : IsFiniteSet(S)
      BY InstantsFinite, FS_Subset
<1>4. ASSUME NEW S \in SUBSET Instants, NEW x \in S
      PROVE  SumOn(e, S) = e[x] + SumOn(e, S \ {x})
      BY InstantsFinite, SumTake
<1>5. ASSUME NEW S \in SUBSET Instants, \A U \in SUBSET S : U # S => U \in T
      PROVE  S \in T
      <2>1. CASE S = {}
            <3>1. Estimated(e, v, S) = {}
                  BY <2>1 DEF Estimated
            <3>2. IsFiniteSet({}) /\ Total({}) = SumOn(Amounts, {})
                  BY TotalIsSum, FS_EmptySet
            <3>3. QED
                  BY <2>1, <3>1, <3>2, SumEmpty
      <2>2. CASE S # {}
            <3>1. PICK c \in S : TRUE
                  BY <2>2
            <3>2. PICK R : R = S \ {c}
                  OBVIOUS
            <3>9. R \in SUBSET S /\ R # S
                  BY <3>1, <3>2
            <3>3. R \in SUBSET Instants /\ IsFiniteSet(Estimated(e, v, R)) /\ Total(Estimated(e, v, R)) = SumOn(e, R)
                  BY <1>5, <3>9
            <3>4. SumOn(e, S) = e[c] + SumOn(e, R) /\ e[c] \in Nat
                  BY <1>4, <3>1, <3>2
            <3>5. SumOn(e, R) \in Nat
                  BY <3>3, TotalType, <1>2
            <3>6. CASE e[c] = 0
                  <4>1. Estimated(e, v, S) = Estimated(e, v, R)
                        BY <3>1, <3>2, <3>6 DEF Estimated
                  <4>2. QED
                        BY <3>3, <3>4, <3>5, <3>6, <4>1
            <3>7. CASE e[c] > 0
                  <4>1. PICK s : s = [t |-> c, grant |-> v, amount |-> e[c]]
                        OBVIOUS
                  <4>2. s \in Share /\ s.amount = e[c] /\ s.t = c
                        BY <3>1, <4>1 DEF Share
                  <4>3. \A x \in Estimated(e, v, R) : x.t # c
                        BY <3>2 DEF Estimated
                  <4>4. Estimated(e, v, S) = Estimated(e, v, R) \cup {s}
                        BY <3>1, <3>2, <3>7, <4>1 DEF Estimated
                  <4>5. Estimated(e, v, R) \cap {s} = {}
                        BY <4>2, <4>3
                  <4>6. IsFiniteSet({s}) /\ Total({s}) = e[c]
                        <5>1. IsFiniteSet({s}) /\ \A x \in {s} : Amounts[x] = e[c]
                              BY <4>2, FS_Singleton DEF Amounts
                        <5>2. SumOn(Amounts, {s}) = e[c] + SumOn(Amounts, {})
                              <6>1. Chosen({s}) = s /\ {s} \ {s} = {}
                                    BY ChosenIn
                              <6>2. QED
                                    BY <5>1, <6>1, SumChosen
                        <5>3. QED
                              BY <3>4, <4>2, <5>1, <5>2, SumEmpty, TotalIsSum
                  <4>7. /\ IsFiniteSet(Estimated(e, v, R) \cup {s})
                        /\ Total(Estimated(e, v, R) \cup {s}) = Total(Estimated(e, v, R)) + Total({s})
                        BY <1>2, <3>3, <4>2, <4>5, <4>6, TotalUnion
                  <4>8. /\ IsFiniteSet(Estimated(e, v, S))
                        /\ Total(Estimated(e, v, S)) = Total(Estimated(e, v, R)) + Total({s})
                        BY <4>4, <4>7, Zenon
                  <4>9. Total(Estimated(e, v, S)) = SumOn(e, S)
                        BY <3>3, <3>4, <3>5, <4>6, <4>8
                  <4>10. QED
                        BY <4>8, <4>9
            <3>8. e[c] = 0 \/ e[c] > 0
                  BY <3>4
            <3>10. QED
                  BY <3>6, <3>7, <3>8, Zenon
      <2>3. QED
            BY <2>1, <2>2
<1>6. \A S \in SUBSET Instants : S \in T
      <2> HIDE DEF T
      <2>1. \A S \in SUBSET Instants : (\A U \in SUBSET S : U # S => U \in T) => S \in T
            BY <1>5
      <2>2. QED
            BY <2>1, InstantsFinite, FiniteInduction
<1>7. IsFiniteSet(Estimated(e, v, Instants)) /\ Total(Estimated(e, v, Instants)) = SumOn(e, Instants)
      BY <1>6
<1>8. intervals(p, v) = Estimated(e, v, Instants)
      BY <1>1 DEF intervals, Estimated
<1>9. reservation(p) = SumOn(e, Instants)
      BY <1>1, SumIsSum, InstantsFinite DEF reservation
<1>10. \A s \in Estimated(e, v, Instants) : s.grant = v
      BY DEF Estimated
<1>11. QED
      BY <1>2, <1>7, <1>8, <1>9, <1>10

-----------------------------------------------------------------------------
(* What a step may do to the tables.                                       *)

PlanStatuses == {"proposed", "approved", "refreshing"} \cup TERMINAL
OpStatuses == {"proposed", "scheduled", "held", "cancelled", "skipped",
               "executing", "verified", "failing", "failed"}

\* A version keeps its estimate, its shares and its consent; only the last one
\* still changes its status.
PlansStay(t) ==
    /\ Len(t) = Len(plans)
    /\ \A v \in 1..Len(plans) :
        /\ t[v].approver = plans[v].approver /\ t[v].allocations = plans[v].allocations
        /\ t[v].basis = plans[v].basis /\ t[v].asked = plans[v].asked
        /\ t[v].agreed = plans[v].agreed
        /\ t[v].status # plans[v].status =>
            v = Latest /\ t[v].status \in {"refreshing"} \cup TERMINAL

\* No opening is claimed and no ending is forgotten.
OpsStay(rows, t) ==
    /\ Len(t) = Len(rows)
    /\ \A v \in 1..Len(rows) :
        /\ t[v].stop = rows[v].stop
        /\ rows[v].ended => t[v].ended
        /\ Attempted(t[v]) => Attempted(rows[v])

\* An opening is claimed only while the job is idle on the facts of the moment.
Claims(t) ==
    /\ Len(t) = Len(ops) /\ job.state = "idle" /\ job.facts = facts
    /\ \A v \in 1..Len(ops) :
        /\ t[v].stop = ops[v].stop
        /\ ops[v].ended => t[v].ended
        /\ Attempted(t[v]) => Attempted(ops[v]) \/ v = Latest

\* The job stays with its version; what it becomes is not idle again, and a
\* request that is not known already starts a generation.
JobStays(j) ==
    /\ j.plan = job.plan
    /\ j.generation \in {job.generation, job.generation + 1}
    /\ j.state = "idle" => job.state = "idle" /\ j.facts = job.facts
    /\ ~j.explicit => ~job.explicit

Tables ==
    /\ plans' \in Seq(PlanRow) /\ ops' \in Seq(OpRow) /\ Len(ops') = Len(plans')
    /\ job' \in Job

\* The clock, the facts and the requests move on.
Inputs ==
    /\ now' \in 0..Horizon /\ events' \in Nat /\ wishes' \in Nat
    /\ facts' \in {facts, facts + 1}
    /\ wishes' # wishes =>
        job'.explicit /\ (facts' = facts + 1 \/ job'.generation = job.generation + 1)

\* Everything a step may do but record, approve or publish a version.
Quiet ==
    /\ Tables /\ Inputs
    /\ PlansStay(plans') /\ JobStays(job') /\ usage' = usage
    /\ OpsStay(ops, ops') \/ Claims(ops')
    /\ plans = <<>> => job' = job

\* A worker goes on with what it has in memory, lets go of it, or reads anew.
Carries(k, n) ==
    /\ n \in Work
    /\ n.pc \in {"idle", "poll", "list"} => n.plan = 0
    /\ n.pc \in {"start", "compute", "repoll", "publish", "block"} => n.plan # 0
    /\ n.plan # 0 => n.plan = k.plan \/ n.plan = job.plan
    /\ Computing(n) =>
        \/ /\ Computing(k) /\ n.plan = k.plan /\ n.generation = k.generation
           /\ n.before = k.before /\ n.asked = k.asked /\ n.rows = k.rows
        \/ /\ n.before = facts /\ n.asked = wishes /\ n.rows = ops
           /\ n.generation = job.generation /\ job'.state = "running"
           /\ UNCHANGED <<facts, wishes, ops, plans>>
Working ==
    /\ lock' \in Workers \cup {Nobody}
    /\ work' \in [Workers -> Work]
    /\ \A w \in Workers : Carries(work[w], work'[w])
    /\ plans = <<>> => work' = work

-----------------------------------------------------------------------------
(* Rows.                                                                   *)

LEMMA Numbers ==
    ASSUME TypeOK
    PROVE  /\ now \in Nat /\ now \in 0..Horizon /\ facts \in Nat /\ wishes \in Nat
           /\ events \in Nat /\ usage \in Nat
           /\ Len(plans) \in Nat /\ Len(ops) = Len(plans)
           /\ DOMAIN plans = 1..Len(plans) /\ DOMAIN ops = 1..Len(plans)
           /\ \A v \in 1..Len(plans) : plans[v] \in PlanRow /\ ops[v] \in OpRow
           /\ plans # <<>> <=> Len(plans) # 0
           /\ job.plan \in Nat /\ job.generation \in Nat /\ job.facts \in Nat
           /\ job.explicit \in BOOLEAN
<1>1. Len(plans) \in Nat /\ DOMAIN plans = 1..Len(plans) /\ \A v \in 1..Len(plans) : plans[v] \in PlanRow
      BY LenProperties, ElementOfSeq DEF TypeOK
<1>2. DOMAIN ops = 1..Len(ops) /\ \A v \in 1..Len(ops) : ops[v] \in OpRow
      BY LenProperties, ElementOfSeq DEF TypeOK
<1>3. plans # <<>> <=> Len(plans) # 0
      BY EmptySeq DEF TypeOK
<1>4. now \in Nat /\ now \in 0..Horizon
      BY PlansAssumption DEF TypeOK
<1>5. job.plan \in Nat /\ job.generation \in Nat /\ job.facts \in Nat /\ job.explicit \in BOOLEAN
      BY DEF TypeOK, Job
<1>6. QED
      BY <1>1, <1>2, <1>3, <1>4, <1>5 DEF TypeOK

LEMMA PlanWritten ==
    ASSUME NEW p \in PlanRow, NEW x \in PlanStatuses, NEW r, r = [p EXCEPT !.status = x]
    PROVE  /\ r \in PlanRow /\ r.status = x
           /\ r.approver = p.approver /\ r.allocations = p.allocations /\ r.estimates = p.estimates
           /\ r.basis = p.basis /\ r.asked = p.asked /\ r.agreed = p.agreed
BY DEF PlanRow, PlanStatuses

LEMMA OpWritten ==
    ASSUME NEW s \in Seq(OpRow), NEW i \in 1..Len(s), NEW x \in OpStatuses,
           NEW t, t = [s EXCEPT ![i].status = x]
    PROVE  /\ t \in Seq(OpRow) /\ Len(t) = Len(s)
           /\ t[i].status = x /\ t[i].stop = s[i].stop /\ t[i].ended = s[i].ended
           /\ \A j \in 1..Len(s) : j # i => t[j] = s[j]
<1>1. s[i] \in OpRow
      BY ElementOfSeq
<1>2. PICK r : r = [s[i] EXCEPT !.status = x]
      OBVIOUS
<1>3. r \in OpRow
      BY <1>1, <1>2 DEF OpRow, OpStatuses
<1>4. t = [s EXCEPT ![i] = r]
      BY <1>2
<1>5. t \in Seq(OpRow) /\ Len(t) = Len(s) /\ \A j \in 1..Len(s) : t[j] = IF j = i THEN r ELSE s[j]
      BY <1>3, <1>4, ExceptSeq
<1>6. QED
      BY <1>1, <1>2, <1>5 DEF OpRow

\* Holding and cancelling leave alone what was attempted.
LEMMA StopUnstarted ==
    ASSUME NEW rows \in Seq(OpRow), NEW v \in 1..Len(rows), NEW x \in {"held", "cancelled"},
           NEW t, t = stop_unstarted(rows, v, x)
    PROVE  t \in Seq(OpRow) /\ OpsStay(rows, t)
<1>1. rows[v] \in OpRow
      BY ElementOfSeq
<1>2. PICK y : y = IF Attempted(rows[v]) \/ rows[v].status = "skipped" THEN rows[v].status ELSE x
      OBVIOUS
<1>3. y \in OpStatuses
      BY <1>1, <1>2 DEF OpRow, OpStatuses
<1>4. t = [rows EXCEPT ![v].status = y]
      BY <1>2 DEF stop_unstarted
<1>5. /\ t \in Seq(OpRow) /\ Len(t) = Len(rows)
      /\ t[v].status = y /\ t[v].stop = rows[v].stop /\ t[v].ended = rows[v].ended
      /\ \A j \in 1..Len(rows) : j # v => t[j] = rows[j]
      BY <1>3, <1>4, OpWritten
<1>6. QED
      BY <1>2, <1>5 DEF OpsStay, Attempted

LEMMA QueueStep ==
    ASSUME Inv, NEW v \in 1..Len(plans), NEW rows \in Seq(OpRow), Len(rows) = Len(plans),
           NEW reason \in Reasons, NEW explicit \in BOOLEAN, NEW fingerprint \in Nat \cup {-1},
           queue(v, rows, reason, explicit, fingerprint)
    PROVE  /\ Tables /\ OpsStay(rows, ops') /\ PlansStay(plans') /\ JobStays(job')
           /\ explicit /\ plans[v].status \notin TERMINAL =>
                /\ job'.explicit
                /\ Known(reason, TRUE, fingerprint) \/ job'.generation = job.generation + 1
<1>1. CASE plans[v].status \in TERMINAL \/ Known(reason, explicit, fingerprint)
      <2>1. ops' = rows /\ plans' = plans /\ job' = job
            BY <1>1 DEF queue
      <2>2. Tables /\ OpsStay(rows, ops') /\ PlansStay(plans')
            BY <2>1 DEF Tables, OpsStay, PlansStay, Inv, TypeOK
      <2>3. JobStays(job')
            BY <2>1, Numbers DEF JobStays, Inv
      <2>4. explicit /\ plans[v].status \notin TERMINAL => job.explicit /\ Known(reason, TRUE, fingerprint)
            BY <1>1 DEF Known
      <2>5. QED
            BY <2>1, <2>2, <2>3, <2>4
<1>2. CASE ~(plans[v].status \in TERMINAL \/ Known(reason, explicit, fingerprint))
      <2>0. /\ job' = [job EXCEPT !.state = "queued", !.generation = job.generation + 1,
                               !.reasons = @ \cup {reason}, !.explicit = @ \/ explicit,
                               !.retry = 0, !.why = "none",
                               !.facts = IF fingerprint = -1 THEN @ ELSE fingerprint]
            /\ ops' = stop_unstarted(rows, v, "held")
            /\ plans' = [plans EXCEPT ![v].status = "refreshing"]
            BY <1>2, Zenon DEF queue
      <2>1. job \in Job
            BY DEF Inv, TypeOK
      <2>2. job' \in Job
            <3>1. PICK g \in Nat : g = job.generation + 1
                  BY Numbers DEF Inv
            <3>2. PICK rs \in SUBSET Reasons : rs = job.reasons \cup {reason}
                  BY <2>1 DEF Job
            <3>3. PICK x \in BOOLEAN : x = (job.explicit \/ explicit)
                  BY <2>1 DEF Job
            <3>4. PICK f \in Nat : f = IF fingerprint = -1 THEN job.facts ELSE fingerprint
                  BY <2>1 DEF Job
            <3>5. PICK H : H = 0..Horizon
                  OBVIOUS
            <3>6. 0 \in H /\ job.retry \in H
                  BY <2>1, <3>5, PlansAssumption DEF Job
            <3>7. job' = [job EXCEPT !.state = "queued", !.generation = g, !.reasons = rs, !.explicit = x,
                                     !.retry = 0, !.why = "none", !.facts = f]
                  BY <2>0, <3>1, <3>2, <3>3, <3>4, Zenon
            <3>8. QED
                  BY <2>1, <3>5, <3>6, <3>7 DEF Job
      <2>3. /\ job'.state = "queued" /\ job'.plan = job.plan /\ job'.generation = job.generation + 1
            /\ job'.explicit = (job.explicit \/ explicit)
            BY <2>0, <2>1 DEF Job
      <2>4. ops' \in Seq(OpRow) /\ OpsStay(rows, ops')
            BY <2>0, StopUnstarted
      <2>5. plans \in Seq(PlanRow) /\ "refreshing" \in PlanStatuses /\ plans[v] \in PlanRow
            BY Numbers DEF Inv, TypeOK, PlanStatuses
      <2>6. PICK p : p = plans[v]
            OBVIOUS
      <2>13. PICK r : r = [p EXCEPT !.status = "refreshing"]
             OBVIOUS
      <2>14. /\ r \in PlanRow /\ r.status = "refreshing"
             /\ r.approver = p.approver /\ r.allocations = p.allocations
             /\ r.basis = p.basis /\ r.asked = p.asked /\ r.agreed = p.agreed
             BY <2>5, <2>6, <2>13, PlanWritten
      <2>15. PICK t : t = plans'
             OBVIOUS
      <2>16. t = [plans EXCEPT ![v] = r]
             BY <2>0, <2>6, <2>13, <2>15
      <2>7. /\ t \in Seq(PlanRow) /\ Len(t) = Len(plans)
            /\ \A j \in 1..Len(plans) : t[j] = IF j = v THEN r ELSE plans[j]
            BY <2>5, <2>14, <2>16, ExceptSeq
      <2>8. v = Latest
            <3>1. RowKept(plans[v], v)
                  BY DEF Inv, Lineage
            <3>2. Len(plans) \in Nat
                  BY Numbers DEF Inv
            <3>3. QED
                  BY <1>2, <3>1, <3>2 DEF RowKept, Latest
      <2>9. PlansStay(t)
            BY <2>6, <2>7, <2>8, <2>14 DEF PlansStay
      <2>10. Tables
             BY <2>2, <2>4, <2>7, <2>15 DEF Tables, OpsStay
      <2>11. JobStays(job')
             BY <2>3 DEF JobStays
      <2>12. QED
             BY <2>3, <2>4, <2>9, <2>10, <2>11, <2>15
<1>3. QED
      BY <1>1, <1>2

\* Nothing happens to the tables.
LEMMA TablesSame ==
    ASSUME Inv, UNCHANGED <<plans, ops, job>>
    PROVE  /\ Tables /\ OpsStay(ops, ops') /\ PlansStay(plans') /\ JobStays(job')
<1>1. Tables /\ OpsStay(ops, ops') /\ PlansStay(plans')
      BY DEF Tables, OpsStay, PlansStay, Inv, TypeOK
<1>2. JobStays(job')
      BY Numbers DEF JobStays, Inv
<1>3. QED
      BY <1>1, <1>2

LEMMA DetectStep ==
    ASSUME Inv, plans # <<>>, NEW current \in Nat, detect(Latest, current)
    PROVE  Tables /\ OpsStay(ops, ops') /\ PlansStay(plans') /\ JobStays(job')
<1>1. Latest \in 1..Len(plans) /\ ops \in Seq(OpRow) /\ Len(ops) = Len(plans)
      BY Numbers DEF Latest, Inv, TypeOK
<1>2. CASE job.facts # current
      <2>1. queue(Latest, ops, "changed", FALSE, current)
            BY <1>2 DEF detect
      <2>2. "changed" \in Reasons /\ FALSE \in BOOLEAN
            BY DEF Reasons
      <2>3. QED
            BY <1>1, <2>1, <2>2, QueueStep
<1>3. CASE job.facts = current
      BY <1>3, TablesSame DEF detect
<1>4. QED
      BY <1>2, <1>3

-----------------------------------------------------------------------------
(* What a worker has in memory.                                            *)

LEMMA IdleTyped == Idle \in Work /\ Idle.pc = "idle" /\ Idle.plan = 0
<1>1. PICK o \in Offers : o = CHOOSE c \in Offers : TRUE
      BY PlansAssumption
<1>2. PICK H : H = 0..Horizon
      OBVIOUS
<1>3. 0 \in H
      BY <1>2, PlansAssumption
<1>4. <<>> \in Seq(OpRow)
      BY EmptySeq
<1>5. Idle = [pc |-> "idle", plan |-> 0, generation |-> 0, before |-> 0, asked |-> 0,
              rows |-> <<>>, at |-> 0, offer |-> o, transient |-> FALSE]
      BY <1>1 DEF Idle
<1>6. QED
      BY <1>2, <1>3, <1>4, <1>5 DEF Work, Steps

LEMMA Busy ==
    ASSUME Inv, NEW w \in Workers
    PROVE  /\ work[w] \in Work /\ Knows(work[w]) /\ work \in [Workers -> Work]
           /\ lock \in Workers \cup {Nobody}
           /\ work[w].pc # "idle" => plans # <<>> /\ Latest \in 1..Len(plans) /\ job.plan = Latest
<1>1. work[w] \in Work /\ Knows(work[w]) /\ work \in [Workers -> Work] /\ lock \in Workers \cup {Nobody}
      BY DEF Inv, TypeOK, WorkersKnow
<1>2. work[w].pc # "idle" => plans # <<>>
      BY DEF Inv, JobKept
<1>3. plans # <<>> => Latest \in 1..Len(plans) /\ job.plan = Latest
      BY Numbers DEF Inv, JobKept, Latest
<1>4. QED
      BY <1>1, <1>2, <1>3

LEMMA CarriesOn ==
    ASSUME Inv, NEW w \in Workers
    PROVE  Carries(work[w], work[w])
BY Busy DEF Carries, Knows

LEMMA WorkSame ==
    ASSUME Inv, work' = work, lock' \in Workers \cup {Nobody}
    PROVE  Working
BY CarriesOn DEF Working, Inv, TypeOK

LEMMA WorkWritten ==
    ASSUME Inv, NEW w \in Workers, NEW n, work' = [work EXCEPT ![w] = n],
           Carries(work[w], n), plans # <<>>, lock' \in Workers \cup {Nobody}
    PROVE  Working
<1>1. work \in [Workers -> Work] /\ n \in Work
      BY DEF Inv, TypeOK, Carries
<1>2. work' \in [Workers -> Work] /\ \A u \in Workers : work'[u] = IF u = w THEN n ELSE work[u]
      BY <1>1
<1>3. \A u \in Workers : Carries(work[u], work'[u])
      BY <1>2, CarriesOn
<1>4. QED
      BY <1>2, <1>3 DEF Working

LEMMA Went ==
    ASSUME Inv, NEW w \in Workers, NEW step \in Steps \ {"idle"}, Goto(w, step), plans # <<>>,
           lock' \in Workers \cup {Nobody},
           step \in {"poll", "list"} => work[w].plan = 0,
           step \in {"start", "compute", "repoll", "publish", "block"} => work[w].plan # 0,
           step \in {"compute", "repoll", "publish", "unread"} /\ work[w].plan # 0 => Computing(work[w])
    PROVE  Working
<1>1. PICK k \in Work : k = work[w]
      BY Busy
<1>2. PICK n : n = [k EXCEPT !.pc = step]
      OBVIOUS
<1>3. /\ n \in Work /\ n.pc = step /\ n.plan = k.plan /\ n.generation = k.generation
      /\ n.before = k.before /\ n.asked = k.asked /\ n.rows = k.rows
      BY <1>1, <1>2 DEF Work
<1>4. work' = [work EXCEPT ![w] = n]
      BY <1>1, <1>2 DEF Goto
<1>5. Computing(n) => Computing(k)
      BY <1>1, <1>3 DEF Computing
<1>6. Carries(k, n)
      BY <1>1, <1>3, <1>5 DEF Carries
<1>7. QED
      BY <1>1, <1>4, <1>6, WorkWritten

LEMMA Left ==
    ASSUME Inv, NEW w \in Workers, work[w].pc # "idle", Leave(w)
    PROVE  Working
<1>1. Carries(work[w], Idle)
      BY IdleTyped DEF Carries, Computing
<1>2. lock' \in Workers \cup {Nobody} /\ work' = [work EXCEPT ![w] = Idle]
      BY Busy DEF Leave
<1>3. QED
      BY <1>1, <1>2, Busy, WorkWritten

LEMMA Failed ==
    ASSUME Inv, NEW w \in Workers, work[w].pc # "idle", work[w].plan # 0, NEW transient \in BOOLEAN,
           Fails(w, transient), UNCHANGED lock
    PROVE  Working
<1>1. PICK k \in Work : k = work[w]
      BY Busy
<1>2. PICK i \in Work : i = Idle
      BY IdleTyped
<1>3. PICK n : n = [i EXCEPT !.pc = "block", !.plan = k.plan, !.generation = k.generation,
                             !.transient = transient]
      OBVIOUS
<1>4. n \in Work /\ n.pc = "block" /\ n.plan = k.plan
      BY <1>1, <1>2, <1>3 DEF Work, Steps
<1>5. work' = [work EXCEPT ![w] = n]
      BY <1>1, <1>2, <1>3 DEF Fails
<1>6. Carries(k, n)
      BY <1>1, <1>4 DEF Carries, Computing
<1>7. lock' \in Workers \cup {Nobody}
      BY Busy
<1>8. QED
      BY <1>1, <1>5, <1>6, <1>7, Busy, WorkWritten

-----------------------------------------------------------------------------
(* Single rows of openings.                                                *)

Marked(rows, v, x) == [rows EXCEPT ![v].status = x]

LEMMA OpMoves ==
    ASSUME Inv, NEW v \in 1..Len(plans), NEW x \in OpStatuses,
           NEW t, t = Marked(ops, v, x)
    PROVE  /\ t \in Seq(OpRow) /\ Len(t) = Len(ops) /\ t[v].status = x
           /\ \A j \in 1..Len(ops) : t[j].stop = ops[j].stop /\ t[j].ended = ops[j].ended
           /\ \A j \in 1..Len(ops) : j # v => t[j].status = ops[j].status
<1>1. PICK o \in OpRow : o = ops[v]
      BY Numbers DEF Inv
<1>2. PICK r : r = [o EXCEPT !.status = x]
      OBVIOUS
<1>3. r \in OpRow /\ r.status = x /\ r.stop = o.stop /\ r.ended = o.ended
      BY <1>1, <1>2 DEF OpRow, OpStatuses
<1>4. t = [ops EXCEPT ![v] = r]
      BY <1>1, <1>2 DEF Marked
<1>5. ops \in Seq(OpRow) /\ v \in 1..Len(ops)
      BY DEF Inv, TypeOK
<1>6. t \in Seq(OpRow) /\ Len(t) = Len(ops) /\ \A j \in 1..Len(ops) : t[j] = IF j = v THEN r ELSE ops[j]
      BY <1>3, <1>4, <1>5, ExceptSeq
<1>7. t[v] = r
      BY <1>5, <1>6
<1>8. ASSUME NEW j \in 1..Len(ops)
      PROVE  /\ t[j].stop = ops[j].stop /\ t[j].ended = ops[j].ended
             /\ j # v => t[j].status = ops[j].status
      <2>1. CASE j = v
            BY <1>1, <1>3, <1>7, <2>1
      <2>2. CASE j # v
            <3>1. t[j] = ops[j]
                  BY <1>6, <2>2
            <3>2. QED
                  BY <2>2, <3>1
      <2>3. QED
            BY <2>1, <2>2
<1>9. QED
      <2>1. t[v].status = x
            BY <1>3, <1>7, Zenon
      <2>2. QED
            BY <1>6, <1>8, <2>1, Zenon

\* A change that attempts nothing.
LEMMA OpResolves ==
    ASSUME Inv, NEW v \in 1..Len(plans), NEW x \in OpStatuses,
           NEW t, t = Marked(ops, v, x),
           x \in {"executing", "verified", "failing", "failed"} => Attempted(ops[v])
    PROVE  t \in Seq(OpRow) /\ Len(t) = Len(plans) /\ OpsStay(ops, t)
<1>1. /\ t \in Seq(OpRow) /\ Len(t) = Len(ops) /\ t[v].status = x
      /\ \A j \in 1..Len(ops) : t[j].stop = ops[j].stop /\ t[j].ended = ops[j].ended
      /\ \A j \in 1..Len(ops) : j # v => t[j].status = ops[j].status
      BY OpMoves, SMTT(40)
<1>2. QED
      BY <1>1 DEF OpsStay, Attempted, Inv, TypeOK

LEMMA OpsStayTwice ==
    ASSUME NEW r, NEW s, NEW t, OpsStay(r, s), OpsStay(s, t)
    PROVE  OpsStay(r, t)
BY DEF OpsStay

-----------------------------------------------------------------------------
(* Every step but record, approve and publish is quiet.                    *)

LEMMA QuietQueue ==
    ASSUME Inv, plans # <<>>, NEW rows, rows \in Seq(OpRow), Len(rows) = Len(plans), OpsStay(ops, rows),
           NEW v \in 1..Len(plans), NEW reason \in Reasons, NEW fingerprint \in Nat \cup {-1},
           queue(v, rows, reason, FALSE, fingerprint), UNCHANGED <<now, wishes, usage>>,
           facts' \in {facts, facts + 1}, events' \in Nat
    PROVE  Quiet
<1>1. Tables /\ OpsStay(rows, ops') /\ PlansStay(plans') /\ JobStays(job')
      BY QueueStep
<1>2. OpsStay(ops, ops')
      BY <1>1, OpsStayTwice
<1>3. Inputs
      BY Numbers DEF Inputs, Inv
<1>4. QED
      BY <1>1, <1>2, <1>3 DEF Quiet

LEMMA QuietDetect ==
    ASSUME Inv, plans # <<>>, NEW current \in Nat, detect(Latest, current),
           UNCHANGED <<now, wishes, usage>>, facts' \in {facts, facts + 1}, events' \in Nat
    PROVE  Quiet
<1>1. Tables /\ OpsStay(ops, ops') /\ PlansStay(plans') /\ JobStays(job')
      BY DetectStep
<1>2. Inputs
      BY Numbers DEF Inputs, Inv
<1>3. QED
      BY <1>1, <1>2 DEF Quiet

LEMMA QuietSame ==
    ASSUME Inv, UNCHANGED <<plans, ops, job, wishes, usage>>, now' \in 0..Horizon,
           facts' \in {facts, facts + 1}, events' \in Nat
    PROVE  Quiet
<1>1. Tables /\ OpsStay(ops, ops') /\ PlansStay(plans') /\ JobStays(job')
      BY TablesSame
<1>2. Inputs
      BY Numbers DEF Inputs, Inv
<1>3. QED
      BY <1>1, <1>2 DEF Quiet

LEMMA QuietJob ==
    ASSUME Inv, plans # <<>>, UNCHANGED <<now, facts, wishes, events, plans, ops, usage>>,
           job' \in Job, JobStays(job')
    PROVE  Quiet
<1>1. Tables /\ OpsStay(ops, ops') /\ PlansStay(plans')
      BY DEF Tables, OpsStay, PlansStay, Inv, TypeOK
<1>2. Inputs
      BY Numbers DEF Inputs, Inv
<1>3. QED
      BY <1>1, <1>2 DEF Quiet

LEMMA QuietOps ==
    ASSUME Inv, plans # <<>>, UNCHANGED <<now, facts, wishes, events, plans, job, usage>>,
           NEW t, t = ops', t \in Seq(OpRow), Len(t) = Len(plans), OpsStay(ops, t) \/ Claims(t)
    PROVE  Quiet
<1>1. PlansStay(plans') /\ plans \in Seq(PlanRow) /\ job \in Job
      BY DEF PlansStay, Inv, TypeOK
<1>2. Inputs
      BY Numbers DEF Inputs, Inv
<1>3. JobStays(job')
      BY Numbers DEF JobStays, Inv
<1>4. QED
      BY <1>1, <1>2, <1>3 DEF Quiet, Tables

LEMMA LatestRow ==
    ASSUME Inv, plans # <<>>
    PROVE  /\ Latest \in 1..Len(plans) /\ ops \in Seq(OpRow) /\ Len(ops) = Len(plans)
           /\ OpsStay(ops, ops) /\ events \in Nat /\ facts \in Nat /\ facts + 1 \in Nat
           /\ lock \in Workers \cup {Nobody} /\ facts \in Nat \cup {-1} /\ now \in 0..Horizon
BY Numbers DEF Latest, Inv, TypeOK, OpsStay

LEMMA CancelQuiet == ASSUME Inv, Cancel PROVE Quiet /\ Working
<1>1. plans # <<>> /\ Latest \in 1..Len(plans) /\ plans \in Seq(PlanRow) /\ plans[Latest] \in PlanRow
      BY LatestRow, Numbers DEF Cancel, Inv, TypeOK
<1>2. PICK p : p = plans[Latest]
      OBVIOUS
<1>3. PICK r : r = [p EXCEPT !.status = "abandoned"]
      OBVIOUS
<1>4. /\ r \in PlanRow /\ r.status = "abandoned"
      /\ r.approver = p.approver /\ r.allocations = p.allocations
      /\ r.basis = p.basis /\ r.asked = p.asked /\ r.agreed = p.agreed
      <2>1. "abandoned" \in PlanStatuses
            BY DEF PlanStatuses, TERMINAL
      <2>2. QED
            BY <1>1, <1>2, <1>3, <2>1, PlanWritten
<1>5. PICK t : t = plans'
      OBVIOUS
<1>6. t = [plans EXCEPT ![Latest] = r]
      BY <1>2, <1>3, <1>5 DEF Cancel
<1>7. /\ t \in Seq(PlanRow) /\ Len(t) = Len(plans)
      /\ \A j \in 1..Len(plans) : t[j] = IF j = Latest THEN r ELSE plans[j]
      BY <1>1, <1>4, <1>6, ExceptSeq
<1>8. PlansStay(t)
      BY <1>2, <1>4, <1>7 DEF PlansStay, TERMINAL
<1>9. ops' \in Seq(OpRow) /\ OpsStay(ops, ops')
      <2>1. ops' = stop_unstarted(ops, Latest, "cancelled")
            BY DEF Cancel
      <2>2. QED
            BY <1>1, <2>1, LatestRow, StopUnstarted
<1>10. job' \in Job /\ JobStays(job')
       <2>1. job \in Job /\ job' = [job EXCEPT !.state = "cancelled", !.retry = 0]
             BY DEF Inv, TypeOK, Cancel
       <2>2. PICK H : H = 0..Horizon
             OBVIOUS
       <2>3. 0 \in H
             BY <2>2, PlansAssumption
       <2>4. QED
             BY <2>1, <2>2, <2>3 DEF Job, JobStays
<1>11. Tables
       BY <1>5, <1>7, <1>9, <1>10, LatestRow, <1>1 DEF Tables, OpsStay
<1>12. Inputs
       BY Numbers DEF Inputs, Cancel, Inv
<1>13. Quiet
       BY <1>1, <1>5, <1>8, <1>9, <1>10, <1>11, <1>12 DEF Quiet, Cancel
<1>14. QED
       BY <1>1, <1>13, WorkSame, LatestRow DEF Cancel

LEMMA WishQuiet ==
    ASSUME Inv, Wish, facts' \in {facts, facts + 1}, wishes' \in {wishes, wishes + 1},
           Known("member", TRUE, -1) => wishes' = wishes \/ facts' = facts + 1
    PROVE  Quiet /\ Working
<1>1. plans # <<>> /\ plans[Latest].status \notin TERMINAL /\ events' = events + 1
      BY DEF Wish, Event
<1>2. "member" \in Reasons /\ TRUE \in BOOLEAN /\ -1 \in Nat \cup {-1} /\ queue(Latest, ops, "member", TRUE, -1)
      BY DEF Reasons, Wish
<1>3. /\ Tables /\ OpsStay(ops, ops') /\ PlansStay(plans') /\ JobStays(job')
      /\ job'.explicit
      /\ Known("member", TRUE, -1) \/ job'.generation = job.generation + 1
      BY <1>1, <1>2, LatestRow, QueueStep
<1>4. wishes' \in Nat /\ now' \in 0..Horizon /\ events' \in Nat
      BY <1>1, Numbers DEF Inv, Wish
<1>5. Inputs
      BY <1>3, <1>4 DEF Inputs
<1>6. Quiet
      BY <1>1, <1>3, <1>5 DEF Quiet, Wish
<1>7. QED
      BY <1>1, <1>6, WorkSame, LatestRow DEF Wish

LEMMA HouseholdQuiet ==
    ASSUME Inv, Cancel \/ Request \/ Update \/ Change \/ Read \/ Tick
    PROVE  Quiet /\ Working
<1>1. CASE Cancel
      BY <1>1, CancelQuiet
<1>2. CASE Request
      <2>1. /\ Wish /\ facts' = facts
            /\ wishes' = wishes \/ wishes' = wishes + 1
            /\ Known("member", TRUE, -1) => wishes' = wishes
            BY <1>2, Zenon DEF Request
      <2>2. QED
            BY <2>1, WishQuiet
<1>3. CASE Update
      BY <1>3, WishQuiet DEF Update
<1>4. CASE Change
      <2>1. Quiet
            BY <1>4, QuietSame, Numbers DEF Change, Event, Inv
      <2>2. QED
            BY <1>4, <2>1, WorkSame DEF Change, Inv, TypeOK
<1>5. CASE Read
      <2>1. Quiet
            BY <1>5, LatestRow, QuietDetect DEF Read
      <2>2. QED
            BY <1>5, <2>1, WorkSame DEF Read, Inv, TypeOK
<1>6. CASE Tick
      <2>1. now' \in 0..Horizon
            BY <1>6, PlansAssumption DEF Tick, Inv, TypeOK
      <2>2. Quiet
            BY <1>6, <2>1, QuietSame, Numbers DEF Tick, Inv
      <2>3. QED
            BY <1>6, <2>2, WorkSame DEF Tick, Inv, TypeOK
<1>7. QED
      BY <1>1, <1>2, <1>3, <1>4, <1>5, <1>6

LEMMA OpeningQuiet ==
    ASSUME Inv, NEW v \in DOMAIN plans, Open(v) \/ Outcome(v) \/ Hold(v) \/ End(v) \/ Complete(v)
    PROVE  Quiet /\ Working
<1>0. /\ v \in 1..Len(plans) /\ plans # <<>> /\ Len(plans) \in Nat /\ Len(ops) = Len(plans)
      /\ ops \in Seq(OpRow) /\ RowKept(plans[v], v)
      /\ plans \in Seq(PlanRow) /\ job \in Job
      BY Numbers DEF Inv, TypeOK, Lineage
<1>w. Working
      BY WorkSame DEF Open, Outcome, Hold, End, Complete, Inv, TypeOK
<1>1. CASE Open(v)
      <2>1. v = Latest
            BY <1>0, <1>1 DEF Open, RowKept, TERMINAL, Latest
      <2>2. "executing" \in OpStatuses /\ ops' = Marked(ops, v, "executing")
            BY <1>1 DEF Open, OpStatuses, Marked
      <2>3. PICK t : t = ops'
            OBVIOUS
      <2>4. PICK x \in OpStatuses : x = "executing" /\ t = Marked(ops, v, x)
            BY <2>2, <2>3
      <2>5. /\ t \in Seq(OpRow) /\ Len(t) = Len(ops)
            /\ \A j \in 1..Len(ops) : t[j].stop = ops[j].stop /\ t[j].ended = ops[j].ended
            /\ \A j \in 1..Len(ops) : j # v => t[j].status = ops[j].status
            BY <1>0, <2>4, OpMoves
      <2>6. job.state = "idle" /\ job.facts = facts
            BY <1>1 DEF Open, fresh
      <2>7. Claims(t)
            BY <2>1, <2>5, <2>6 DEF Claims, Attempted
      <2>8. Quiet
            BY <1>0, <1>1, <2>3, <2>5, <2>7, QuietOps DEF Open
      <2>9. QED
            BY <1>w, <2>8
<1>2. CASE Outcome(v)
      <2>1. PICK x \in {"verified", "failing"} : ops' = [ops EXCEPT ![v].status = x]
            BY <1>2 DEF Outcome
      <2>2. PICK t : t = ops'
            OBVIOUS
      <2>3. x \in OpStatuses /\ t = Marked(ops, v, x) /\ Attempted(ops[v])
            BY <1>2, <2>1, <2>2 DEF OpStatuses, Marked, Outcome, Attempted
      <2>4. t \in Seq(OpRow) /\ Len(t) = Len(plans) /\ OpsStay(ops, t)
            BY <1>0, <2>3, OpResolves
      <2>5. Quiet
            BY <1>0, <1>2, <2>2, <2>4, QuietOps DEF Outcome
      <2>6. QED
            BY <1>w, <2>5
<1>3. CASE Hold(v)
      <2>1. PICK x : x = IF ops[v].status = "failing" THEN "failed" ELSE "skipped"
            OBVIOUS
      <2>2. PICK t : t = Marked(ops, v, x)
            OBVIOUS
      <2>3. x \in OpStatuses /\ (x = "failed" => Attempted(ops[v])) /\ x \in {"failed", "skipped"}
            BY <2>1 DEF OpStatuses, Attempted
      <2>4. t \in Seq(OpRow) /\ Len(t) = Len(plans) /\ OpsStay(ops, t)
            BY <1>0, <2>2, <2>3, OpResolves
      <2>5. t = [ops EXCEPT ![v].status = IF @ = "failing" THEN "failed" ELSE "skipped"]
            BY <2>1, <2>2 DEF Marked
      <2>6. queue(v, t, "operation", FALSE, -1)
            BY <1>3, <2>5 DEF Hold
      <2>7. "operation" \in Reasons /\ -1 \in Nat \cup {-1} /\ UNCHANGED <<now, wishes, usage, facts, events>>
            BY <1>3 DEF Reasons, Hold
      <2>8. facts' \in {facts, facts + 1} /\ events' \in Nat
            BY <2>7, Numbers DEF Inv
      <2>9. Quiet
            BY <1>0, <2>4, <2>6, <2>7, <2>8, QuietQueue
      <2>10. QED
             BY <1>w, <2>9
<1>4. CASE End(v)
      <2>1. PICK o \in OpRow : o = ops[v]
            BY <1>0, Numbers DEF Inv
      <2>2. PICK r : r = [o EXCEPT !.ended = TRUE]
            OBVIOUS
      <2>3. r \in OpRow /\ r.status = o.status /\ r.stop = o.stop /\ r.ended
            BY <2>1, <2>2 DEF OpRow
      <2>4. PICK t : t = ops'
            OBVIOUS
      <2>5. t = [ops EXCEPT ![v] = r]
            BY <1>4, <2>1, <2>2, <2>4 DEF End
      <2>6. t \in Seq(OpRow) /\ Len(t) = Len(ops) /\ \A j \in 1..Len(ops) : t[j] = IF j = v THEN r ELSE ops[j]
            BY <1>0, <2>3, <2>5, ExceptSeq
      <2>7. OpsStay(ops, t)
            BY <2>1, <2>3, <2>6 DEF OpsStay, Attempted
      <2>8. Quiet
            BY <1>0, <1>4, <2>4, <2>6, <2>7, QuietOps DEF End
      <2>9. QED
            BY <1>w, <2>8
<1>5. CASE Complete(v)
      <2>1. v = Latest
            BY <1>0, <1>5 DEF Complete, RowKept, TERMINAL, Latest
      <2>2. PICK p \in PlanRow : p = plans[v]
            BY <1>0, Numbers DEF Inv
      <2>3. PICK r : r = [p EXCEPT !.status = "completed"]
            OBVIOUS
      <2>4. /\ r \in PlanRow /\ r.status = "completed"
            /\ r.approver = p.approver /\ r.allocations = p.allocations
            /\ r.basis = p.basis /\ r.asked = p.asked /\ r.agreed = p.agreed
            <3>1. "completed" \in PlanStatuses
                  BY DEF PlanStatuses, TERMINAL
            <3>2. QED
                  BY <2>2, <2>3, <3>1, PlanWritten
      <2>5. PICK t : t = plans'
            OBVIOUS
      <2>6. t = [plans EXCEPT ![v] = r]
            BY <1>5, <2>2, <2>3, <2>5 DEF Complete
      <2>7. t \in Seq(PlanRow) /\ Len(t) = Len(plans) /\ \A j \in 1..Len(plans) : t[j] = IF j = v THEN r ELSE plans[j]
            BY <1>0, <2>4, <2>6, ExceptSeq
      <2>8. PlansStay(t)
            BY <2>1, <2>2, <2>4, <2>7 DEF PlansStay, TERMINAL
      <2>9. /\ UNCHANGED <<now, facts, wishes, ops, job, usage, events>>
            /\ OpsStay(ops, ops') /\ JobStays(job')
            BY <1>5, Numbers DEF Complete, OpsStay, JobStays, Inv
      <2>10. Inputs
             BY <2>9, Numbers DEF Inputs, Inv
      <2>11. Quiet
             BY <1>0, <2>5, <2>7, <2>8, <2>9, <2>10 DEF Quiet, Tables
      <2>12. QED
             BY <1>w, <2>11
<1>6. QED
      BY <1>1, <1>2, <1>3, <1>4, <1>5

LEMMA BatchQuiet == ASSUME Inv, NEW w \in Workers, Batch(w) PROVE Quiet /\ Working
<1>0. /\ plans # <<>> /\ work[w].pc = "idle" /\ work[w].plan = 0 /\ lock' = w
      /\ Goto(w, "poll") /\ UNCHANGED <<now, facts, wishes, usage, events>>
      BY Busy DEF Batch, Knows
<1>1. Working
      BY <1>0, Went DEF Steps
<1>2. CASE plans[Latest].status = "approved" /\ ops[Latest].status = "proposed" /\ expired(ops[Latest])
      <2>1. PICK x \in OpStatuses : x = "skipped"
            BY DEF OpStatuses
      <2>2. PICK t : t = Marked(ops, Latest, x)
            OBVIOUS
      <2>3. t \in Seq(OpRow) /\ Len(t) = Len(plans) /\ OpsStay(ops, t)
            BY <1>0, <2>1, <2>2, LatestRow, OpResolves
      <2>4. t = [ops EXCEPT ![Latest].status = "skipped"]
            BY <2>1, <2>2 DEF Marked
      <2>5. queue(Latest, t, "late", FALSE, -1)
            BY <1>2, <2>4 DEF Batch
      <2>6. "late" \in Reasons /\ -1 \in Nat \cup {-1}
            BY DEF Reasons
      <2>7. Quiet
            BY <1>0, <2>3, <2>5, <2>6, LatestRow, QuietQueue
      <2>8. QED
            BY <1>1, <2>7
<1>3. CASE plans[Latest].status = "approved" /\ ops[Latest].status = "proposed" /\ ~expired(ops[Latest])
      <2>1. PICK x \in OpStatuses : x = "scheduled"
            BY DEF OpStatuses
      <2>2. PICK t : t = ops'
            OBVIOUS
      <2>3. ops' = schedule(Latest) /\ UNCHANGED <<plans, job>>
            BY <1>3 DEF Batch
      <2>4. t = Marked(ops, Latest, x)
            BY <2>1, <2>2, <2>3 DEF schedule, Marked
      <2>5. t \in Seq(OpRow) /\ Len(t) = Len(plans) /\ OpsStay(ops, t)
            BY <1>0, <2>1, <2>4, LatestRow, OpResolves
      <2>6. Quiet
            BY <1>0, <2>2, <2>3, <2>5, QuietOps
      <2>7. QED
            BY <1>1, <2>6
<1>4. CASE ~(plans[Latest].status = "approved" /\ ops[Latest].status = "proposed")
      <2>1. UNCHANGED <<plans, ops, job>>
            BY <1>4 DEF Batch
      <2>2. Quiet
            BY <1>0, <2>1, LatestRow, QuietSame
      <2>3. QED
            BY <1>1, <2>2
<1>5. QED
      BY <1>2, <1>3, <1>4

LEMMA PollWent ==
    ASSUME Inv, NEW w \in Workers, Polling(w), Goto(w, AfterPoll(w)), UNCHANGED lock
    PROVE  Working
<1>1. /\ plans # <<>> /\ lock' \in Workers \cup {Nobody}
      /\ work[w].pc \in {"poll", "repoll"} /\ Knows(work[w])
      BY Busy DEF Polling
<1>2. PICK s : s = AfterPoll(w)
      OBVIOUS
<1>3. /\ s \in Steps \ {"idle"} /\ s \in {"list", "publish"}
      /\ s = "list" => work[w].plan = 0
      /\ s = "publish" => work[w].plan # 0 /\ Computing(work[w])
      BY <1>1, <1>2 DEF AfterPoll, Steps, Knows, Computing
<1>4. Goto(w, s)
      BY <1>2
<1>5. QED
      BY <1>1, <1>3, <1>4, Went

LEMMA IngestQuiet == ASSUME Inv, NEW w \in Workers, Ingest(w) PROVE Quiet /\ Working
<1>1. /\ plans # <<>> /\ Polling(w) /\ UNCHANGED <<now, wishes, usage, lock, work>>
      /\ events' \in Nat /\ facts' = facts + 1 /\ Latest \in 1..Len(plans)
      BY Busy, LatestRow, Numbers DEF Ingest, Polling, Event, Inv
<1>2. PICK c : c = facts'
      OBVIOUS
<1>3. c \in Nat /\ c \in Nat \cup {-1}
      BY <1>1, <1>2, LatestRow
<1>4. detect(Latest, c) \/ queue(Latest, ops, "feeds", FALSE, c)
      BY <1>2, Zenon DEF Ingest
<1>5. Quiet
      <2>1. CASE detect(Latest, c)
            BY <1>1, <1>3, <2>1, QuietDetect
      <2>2. CASE queue(Latest, ops, "feeds", FALSE, c)
            <3>1. "feeds" \in Reasons
                  BY DEF Reasons
            <3>2. QED
                  BY <1>1, <1>3, <2>2, <3>1, LatestRow, QuietQueue
      <2>3. QED
            BY <1>4, <2>1, <2>2
<1>6. QED
      BY <1>1, <1>5, WorkSame, LatestRow

LEMMA PollQuiet == ASSUME Inv, NEW w \in Workers, Poll(w) PROVE Quiet /\ Working
<1>1. /\ plans # <<>> /\ Polling(w) /\ UNCHANGED <<now, facts, wishes, usage, events>>
      /\ work[w].pc \in {"poll", "repoll"} /\ Knows(work[w]) /\ Latest \in 1..Len(plans)
      BY Busy DEF Poll, Polling
<1>2. facts' \in {facts, facts + 1} /\ events' \in Nat /\ now' \in 0..Horizon
      BY <1>1, LatestRow
<1>3. CASE plans[Latest].status \in TERMINAL
      <2>1. Quiet
            BY <1>1, <1>2, <1>3, QuietSame DEF Poll
      <2>2. CASE Goto(w, AfterPoll(w)) /\ UNCHANGED lock
            BY <1>1, <2>1, <2>2, PollWent
      <2>3. CASE work[w].pc = "poll" /\ Leave(w)
            BY <2>1, <2>3, Left
      <2>4. CASE work[w].pc = "repoll" /\ Fails(w, FALSE) /\ UNCHANGED lock
            <3>1. work[w].plan # 0 /\ work[w].pc # "idle"
                  BY <1>1, <2>4 DEF Knows
            <3>2. QED
                  BY <2>1, <2>4, <3>1, Failed
      <2>5. QED
            BY <1>3, <2>2, <2>3, <2>4 DEF Poll
<1>4. CASE plans[Latest].status \notin TERMINAL /\ job.why = "reads"
      <2>1. queue(Latest, ops, "recovered", FALSE, -1) /\ UNCHANGED <<lock, work>>
            BY <1>4 DEF Poll
      <2>2. "recovered" \in Reasons /\ -1 \in Nat \cup {-1}
            BY DEF Reasons
      <2>3. Quiet
            BY <1>1, <1>2, <2>1, <2>2, LatestRow, QuietQueue
      <2>4. QED
            BY <1>1, <2>1, <2>3, WorkSame, LatestRow
<1>5. CASE plans[Latest].status \notin TERMINAL /\ job.why # "reads"
      <2>1. detect(Latest, facts) /\ Goto(w, AfterPoll(w)) /\ UNCHANGED lock
            BY <1>5 DEF Poll
      <2>2. Quiet
            BY <1>1, <1>2, <2>1, LatestRow, QuietDetect
      <2>3. QED
            BY <1>1, <2>1, <2>2, PollWent
<1>6. QED
      BY <1>3, <1>4, <1>5

LEMMA ReadsFailQuiet == ASSUME Inv, NEW w \in Workers, ReadsFail(w) PROVE Quiet /\ Working
<1>1. /\ plans # <<>> /\ Polling(w) /\ UNCHANGED <<now, facts, wishes, usage, lock>>
      /\ work[w].pc \in {"poll", "repoll"} /\ Knows(work[w]) /\ Latest \in 1..Len(plans)
      BY Busy DEF ReadsFail, Polling
<1>2. facts' \in {facts, facts + 1} /\ events' \in Nat /\ now' \in 0..Horizon
      BY <1>1, LatestRow DEF ReadsFail, Event
<1>3. CASE job.why = "reads" /\ (job.state = "blocked" \/ job.retry > now)
      <2>1. UNCHANGED <<plans, ops, job>> /\ Goto(w, AfterPoll(w))
            BY <1>3 DEF ReadsFail
      <2>2. QED
            BY <1>1, <1>2, <2>1, QuietSame, PollWent
<1>4. CASE ~(job.why = "reads" /\ (job.state = "blocked" \/ job.retry > now))
      <2>1. queue(Latest, ops, "reads", FALSE, -1) /\ Goto(w, "unread")
            BY <1>4 DEF ReadsFail
      <2>2. "reads" \in Reasons /\ -1 \in Nat \cup {-1}
            BY DEF Reasons
      <2>3. Quiet
            BY <1>1, <1>2, <2>1, <2>2, LatestRow, QuietQueue
      <2>4. work[w].plan # 0 => Computing(work[w])
            BY <1>1 DEF Knows, Computing
      <2>5. Working
            BY <1>1, <2>1, <2>4, LatestRow, Went DEF Steps
      <2>6. QED
            BY <2>3, <2>5
<1>5. QED
      BY <1>3, <1>4

LEMMA BlockedStep ==
    ASSUME Inv, NEW v, NEW generation, NEW transient, NEW why \in {"reads", "planning"},
           blocked(v, generation, transient, why)
    PROVE  job' \in Job /\ JobStays(job')
<1>1. job \in Job /\ job.generation \in Nat
      BY Numbers DEF Inv, TypeOK
<1>2. PICK H : H = 0..Horizon
      OBVIOUS
<1>3. \A r \in (now + 1)..(Horizon - 1) : r \in H
      BY <1>2, Numbers, PlansAssumption DEF Inv
<1>4. 0 \in H
      BY <1>2, PlansAssumption
<1>5. CASE job' = job
      BY <1>1, <1>5 DEF JobStays
<1>6. CASE \E y \in {why, "planning"} :
                job' = [job EXCEPT !.state = "blocked", !.retry = 0, !.why = y]
      <2>1. PICK y \in {"reads", "planning"} :
                job' = [job EXCEPT !.state = "blocked", !.retry = 0, !.why = y]
            BY <1>6
      <2>2. QED
            BY <1>1, <1>2, <1>4, <2>1 DEF Job, JobStays
<1>7. CASE \E r \in (now + 1)..(Horizon - 1) : job' = [job EXCEPT !.state = "queued", !.retry = r, !.why = why]
      <2>1. PICK r \in H : job' = [job EXCEPT !.state = "queued", !.retry = r, !.why = why]
            BY <1>3, <1>7
      <2>2. QED
            BY <1>1, <1>2, <2>1 DEF Job, JobStays
<1>8. QED
      BY <1>5, <1>6, <1>7 DEF blocked

LEMMA UnreadQuiet == ASSUME Inv, NEW w \in Workers, Unread(w) PROVE Quiet /\ Working
<1>1. /\ plans # <<>> /\ UNCHANGED <<now, facts, wishes, plans, ops, usage, lock, events>>
      /\ work[w].pc = "unread" /\ Knows(work[w])
      BY Busy DEF Unread
<1>2. job' \in Job /\ JobStays(job')
      <2>1. CASE UNCHANGED job
            BY <2>1, Numbers DEF JobStays, Inv, TypeOK
      <2>2. CASE \E transient \in BOOLEAN : blocked(Latest, job.generation, transient, "reads")
            BY <2>2, BlockedStep
      <2>3. QED
            BY <2>1, <2>2 DEF Unread
<1>3. Quiet
      BY <1>1, <1>2, QuietJob
<1>4. PICK s : s = IF work[w].plan = 0 THEN "list" ELSE "publish"
      OBVIOUS
<1>5. Goto(w, s)
      BY <1>4 DEF Unread
<1>6. /\ s \in Steps \ {"idle"} /\ s \in {"list", "publish"}
      /\ s = "list" => work[w].plan = 0
      /\ s = "publish" => work[w].plan # 0 /\ Computing(work[w])
      BY <1>1, <1>4 DEF Steps, Computing
<1>7. Working
      BY <1>1, <1>5, <1>6, LatestRow, Went
<1>8. QED
      BY <1>3, <1>7

LEMMA ListQuiet == ASSUME Inv, NEW w \in Workers, List(w) PROVE Quiet /\ Working
<1>1. /\ plans # <<>> /\ UNCHANGED <<now, facts, wishes, plans, ops, job, usage, events>>
      /\ work[w].pc = "list" /\ job.plan = Latest /\ Latest \in 1..Len(plans)
      BY Busy DEF List
<1>2. Quiet
      BY <1>1, LatestRow, QuietSame
<1>3. CASE Ready
      <2>1. PICK k \in Work : k = work[w]
            BY Busy
      <2>2. PICK n : n = [k EXCEPT !.pc = "start", !.plan = job.plan, !.generation = job.generation]
            OBVIOUS
      <2>3. n \in Work /\ n.pc = "start" /\ n.plan = job.plan /\ n.plan # 0
            <3>1. job.plan \in Nat /\ job.generation \in Nat /\ job.plan # 0
                  BY <1>1, Numbers DEF Inv
            <3>2. QED
                  BY <2>1, <2>2, <3>1 DEF Work, Steps
      <2>4. work' = [work EXCEPT ![w] = n] /\ UNCHANGED lock
            BY <1>3, <2>1, <2>2 DEF List
      <2>5. Carries(k, n)
            BY <2>3 DEF Carries, Computing
      <2>6. QED
            BY <1>1, <1>2, <2>1, <2>4, <2>5, LatestRow, WorkWritten
<1>4. CASE ~Ready
      BY <1>1, <1>2, <1>4, Left DEF List
<1>5. QED
      BY <1>3, <1>4

LEMMA StartQuiet == ASSUME Inv, NEW w \in Workers, Start(w) PROVE Quiet /\ Working
<1>1. /\ plans # <<>> /\ UNCHANGED <<now, facts, wishes, plans, ops, usage, events>>
      /\ work[w].pc = "start" /\ work[w].plan # 0 /\ work[w] \in Work
      BY Busy DEF Start, Knows
<1>2. CASE /\ job.generation = work[w].generation
           /\ job' = [job EXCEPT !.state = "running"]
           /\ work' = [work EXCEPT ![w] = [work[w] EXCEPT !.pc = "compute", !.before = facts,
                                              !.asked = wishes, !.rows = ops, !.at = now]]
           /\ UNCHANGED lock
      <2>1. job \in Job /\ job.generation \in Nat
            BY Numbers DEF Inv, TypeOK
      <2>2. job' \in Job /\ JobStays(job') /\ job'.state = "running"
            BY <1>2, <2>1 DEF Job, JobStays
      <2>3. Quiet
            BY <1>1, <2>2, QuietJob
      <2>4. PICK k \in Work : k = work[w]
            BY <1>1
      <2>5. PICK n : n = [k EXCEPT !.pc = "compute", !.before = facts, !.asked = wishes, !.rows = ops, !.at = now]
            OBVIOUS
      <2>6. PICK H : H = 0..Horizon
            OBVIOUS
      <2>7. now \in H /\ facts \in Nat /\ wishes \in Nat /\ ops \in Seq(OpRow)
            BY <2>6, Numbers DEF Inv, TypeOK
      <2>8. /\ n \in Work /\ n.pc = "compute" /\ n.plan = k.plan /\ n.generation = k.generation
            /\ n.before = facts /\ n.asked = wishes /\ n.rows = ops
            BY <2>4, <2>5, <2>6, <2>7 DEF Work, Steps
      <2>9. work' = [work EXCEPT ![w] = n]
            BY <1>2, <2>4, <2>5
      <2>10. Carries(k, n)
             BY <1>1, <1>2, <2>2, <2>4, <2>8 DEF Carries
      <2>11. QED
             BY <1>1, <1>2, <2>3, <2>4, <2>9, <2>10, LatestRow, WorkWritten
<1>3. CASE Fails(w, FALSE) /\ UNCHANGED <<job, lock>>
      BY <1>1, <1>3, LatestRow, QuietSame, Failed
<1>4. CASE Leave(w) /\ UNCHANGED job
      BY <1>1, <1>4, LatestRow, QuietSame, Left
<1>5. QED
      BY <1>2, <1>3, <1>4 DEF Start

LEMMA ComputeQuiet == ASSUME Inv, NEW w \in Workers, Compute(w) PROVE Quiet /\ Working
<1>1. /\ plans # <<>> /\ UNCHANGED <<now, facts, wishes, plans, ops, job, usage, lock, events>>
      /\ work[w].pc = "compute" /\ work[w].plan # 0 /\ work[w] \in Work
      BY Busy DEF Compute, Knows
<1>2. Quiet
      BY <1>1, LatestRow, QuietSame
<1>3. CASE \E o \in bind_result(work[w].at) : work' = [work EXCEPT ![w] = [work[w] EXCEPT !.pc = "repoll", !.offer = o]]
      <2>1. PICK o \in Offers : work' = [work EXCEPT ![w] = [work[w] EXCEPT !.pc = "repoll", !.offer = o]]
            BY <1>3 DEF bind_result
      <2>2. PICK k \in Work : k = work[w]
            BY <1>1
      <2>3. PICK n : n = [k EXCEPT !.pc = "repoll", !.offer = o]
            OBVIOUS
      <2>4. /\ n \in Work /\ n.pc = "repoll" /\ n.plan = k.plan /\ n.generation = k.generation
            /\ n.before = k.before /\ n.asked = k.asked /\ n.rows = k.rows
            BY <2>2, <2>3 DEF Work, Steps
      <2>5. work' = [work EXCEPT ![w] = n]
            BY <2>1, <2>2, <2>3
      <2>6. Carries(k, n)
            BY <1>1, <2>2, <2>4 DEF Carries, Computing
      <2>7. QED
            BY <1>1, <1>2, <2>2, <2>5, <2>6, LatestRow, WorkWritten
<1>4. CASE \E transient \in BOOLEAN : Fails(w, transient)
      BY <1>1, <1>2, <1>4, Failed
<1>5. QED
      BY <1>3, <1>4 DEF Compute

LEMMA BlockQuiet == ASSUME Inv, NEW w \in Workers, Block(w) PROVE Quiet /\ Working
<1>1. /\ plans # <<>> /\ UNCHANGED <<now, facts, wishes, plans, ops, usage, events>>
      /\ work[w].pc = "block" /\ Leave(w)
      /\ blocked(work[w].plan, work[w].generation, work[w].transient, "planning")
      BY Busy DEF Block
<1>2. job' \in Job /\ JobStays(job')
      BY <1>1, BlockedStep
<1>3. QED
      BY <1>1, <1>2, QuietJob, Left

LEMMA CrashQuiet == ASSUME Inv, NEW w \in Workers, Crash(w) PROVE Quiet /\ Working
<1>1. /\ plans # <<>> /\ UNCHANGED <<now, facts, wishes, plans, ops, job, usage>>
      /\ events' \in Nat /\ work[w].pc # "idle"
      BY Busy, LatestRow DEF Crash, Event
<1>2. Quiet
      BY <1>1, LatestRow, QuietSame
<1>3. CASE Leave(w)
      BY <1>1, <1>2, <1>3, Left
<1>4. CASE lock' = Nobody /\ UNCHANGED work
      BY <1>2, <1>4, WorkSame
<1>5. QED
      BY <1>3, <1>4 DEF Crash

\* A worker publishes a version, and everything it holds is let go.
Publishes(w) ==
    /\ Unmoved(work[w]) /\ Replace(work[w]) /\ Leave(w) /\ work[w].pc = "publish" /\ now < Horizon
    /\ UNCHANGED <<now, facts, wishes, events>>

LEMMA PublishQuiet == ASSUME Inv, NEW w \in Workers, Publish(w) PROVE (Quiet \/ Publishes(w)) /\ Working
<1>1. /\ plans # <<>> /\ UNCHANGED <<now, facts, wishes, events>>
      /\ work[w].pc = "publish" /\ work[w].plan # 0 /\ work[w] \in Work
      BY Busy DEF Publish, Knows
<1>2. CASE Leave(w) /\ UNCHANGED <<plans, ops, job, usage>>
      BY <1>1, <1>2, LatestRow, QuietSame, Left
<1>3. CASE /\ job' = [job EXCEPT !.state = "queued", !.generation = job.generation + 1,
                                 !.reasons = @ \cup {"late"}, !.retry = 0, !.why = "none"]
           /\ Leave(w) /\ UNCHANGED <<plans, ops, usage>>
      <2>1. job \in Job
            BY DEF Inv, TypeOK
      <2>2. PICK g \in Nat : g = job.generation + 1
            BY Numbers DEF Inv
      <2>3. PICK rs \in SUBSET Reasons : rs = job.reasons \cup {"late"}
            BY <2>1 DEF Job, Reasons
      <2>4. PICK H : H = 0..Horizon
            OBVIOUS
      <2>5. 0 \in H
            BY <2>4, PlansAssumption
      <2>6. job' = [job EXCEPT !.state = "queued", !.generation = g, !.reasons = rs, !.retry = 0, !.why = "none"]
            BY <1>3, <2>2, <2>3
      <2>7. job' \in Job /\ JobStays(job')
            BY <2>1, <2>2, <2>4, <2>5, <2>6 DEF Job, JobStays
      <2>8. QED
            BY <1>1, <1>3, <2>7, QuietJob, Left
<1>4. CASE now < Horizon /\ Unmoved(work[w]) /\ Replace(work[w]) /\ Leave(w)
      BY <1>1, <1>4, Left DEF Publishes
<1>5. CASE Fails(w, FALSE) /\ UNCHANGED <<plans, ops, job, usage, lock>>
      BY <1>1, <1>5, LatestRow, QuietSame, Failed
<1>6. QED
      BY <1>2, <1>3, <1>4, <1>5 DEF Publish

-----------------------------------------------------------------------------
(* Steps that publish nothing keep the invariant.                          *)

LEMMA QuietTyped == ASSUME Inv, Quiet, Working PROVE TypeOK'
BY Numbers DEF Inv, TypeOK, Quiet, Tables, Inputs, Working

\* The tables before and after, row by row.
LEMMA QuietRows ==
    ASSUME Inv, Quiet, Working
    PROVE  /\ Len(plans') = Len(plans) /\ Len(plans) \in Nat /\ Len(ops) = Len(plans)
           /\ Len(ops') = Len(plans) /\ Latest' = Latest /\ Latest = Len(plans)
           /\ plans' = <<>> <=> plans = <<>>
           /\ DOMAIN plans = 1..Len(plans) /\ DOMAIN plans' = 1..Len(plans)
           /\ DOMAIN ops = 1..Len(plans) /\ DOMAIN ops' = 1..Len(plans)
           /\ \A v \in 1..Len(plans) : ops'[v].stop = ops[v].stop
           /\ \A v \in 1..Len(plans) : Outstanding(ops'[v]) => Outstanding(ops[v]) \/ v = Latest
           /\ job.state # "idle" =>
                \A v \in 1..Len(plans) : Outstanding(ops'[v]) => Outstanding(ops[v])
<1>1. TypeOK'
      BY QuietTyped
<1>2. /\ plans' \in Seq(PlanRow) /\ ops' \in Seq(OpRow) /\ Len(ops') = Len(plans')
      /\ plans \in Seq(PlanRow) /\ ops \in Seq(OpRow) /\ Len(ops) = Len(plans)
      BY <1>1 DEF TypeOK, Inv
<1>3. /\ Len(plans) \in Nat /\ DOMAIN plans = 1..Len(plans) /\ DOMAIN ops = 1..Len(plans)
      /\ DOMAIN plans' = 1..Len(plans') /\ DOMAIN ops' = 1..Len(plans')
      BY <1>2, LenProperties
<1>4. Len(plans') = Len(plans)
      BY DEF Quiet, PlansStay
<1>5. (plans = <<>> <=> Len(plans) = 0) /\ (plans' = <<>> <=> Len(plans') = 0)
      BY <1>2, EmptySeq
<1>6. /\ \A v \in 1..Len(plans) : ops'[v].stop = ops[v].stop /\ (ops[v].ended => ops'[v].ended)
      /\ \A v \in 1..Len(plans) : Attempted(ops'[v]) => Attempted(ops[v]) \/ v = Latest
      /\ job.state # "idle" => \A v \in 1..Len(plans) : Attempted(ops'[v]) => Attempted(ops[v])
      <2>1. CASE OpsStay(ops, ops')
            BY <1>2, <2>1 DEF OpsStay
      <2>2. CASE Claims(ops')
            BY <1>2, <2>2 DEF Claims
      <2>3. QED
            BY <2>1, <2>2 DEF Quiet
<1>7. \A v \in 1..Len(plans) : Outstanding(ops'[v]) <=> Attempted(ops'[v]) /\ ~ops'[v].ended
      BY DEF Outstanding
<1>8. \A v \in 1..Len(plans) : Outstanding(ops[v]) <=> Attempted(ops[v]) /\ ~ops[v].ended
      BY DEF Outstanding
<1>9. QED
      BY <1>2, <1>3, <1>4, <1>5, <1>6, <1>7, <1>8 DEF Latest

LEMMA QuietLineage == ASSUME Inv, Quiet, Working PROVE Lineage'
<1> SUFFICES ASSUME NEW v \in 1..Len(plans)
             PROVE  RowKept(plans[v], v)'
    BY QuietRows DEF Lineage
<1>1. RowKept(plans[v], v) /\ Latest' = Latest /\ v <= Latest
      BY QuietRows DEF Inv, Lineage
<1>2. PICK p : p = plans[v]
      OBVIOUS
<1>3. PICK q : q = plans'[v]
      OBVIOUS
<1>4. /\ q.approver = p.approver /\ q.allocations = p.allocations
      /\ q.asked = p.asked /\ q.agreed = p.agreed
      /\ q.status # p.status => v = Latest /\ q.status \in {"refreshing"} \cup TERMINAL
      BY <1>2, <1>3 DEF Quiet, PlansStay
<1>5. "approved" \notin {"refreshing"} \cup TERMINAL /\ "proposed" \notin {"refreshing"} \cup TERMINAL
      BY DEF TERMINAL
<1>6. /\ v < Latest => p.status \in TERMINAL
      /\ p.status = "approved" => p.approver
      /\ p.approver => p.agreed = p.asked
      /\ IsFiniteSet(p.allocations)
      /\ \A s \in p.allocations : s.grant <= v /\ (p.status = "proposed" => s.grant # v)
      BY <1>1, <1>2 DEF RowKept
<1>7. Latest \in Nat /\ v \in Nat
      BY QuietRows
<1>8. /\ v < Latest' => q.status \in TERMINAL
      /\ q.status = "approved" => q.approver
      /\ q.approver => q.agreed = q.asked
      /\ IsFiniteSet(q.allocations)
      /\ \A s \in q.allocations : s.grant <= v /\ (q.status = "proposed" => s.grant # v)
      <2>1. v < Latest => q.status \in TERMINAL
            BY <1>4, <1>6, <1>7
      <2>2. q.status = "approved" => q.approver
            BY <1>4, <1>5, <1>6, Zenon
      <2>3. q.status = "proposed" => p.status = "proposed"
            BY <1>4, <1>5, Zenon
      <2>4. QED
            BY <1>1, <1>4, <1>6, <2>1, <2>2, <2>3
<1>9. QED
      BY <1>3, <1>8 DEF RowKept

LEMMA QuietJobKept == ASSUME Inv, Quiet, Working PROVE JobKept'
<1>1. CASE plans = <<>>
      <2>1. plans' = <<>> /\ job' = job /\ usage' = usage /\ work' = work
            BY <1>1, QuietRows DEF Quiet, Working
      <2>2. QED
            BY <1>1, <2>1 DEF JobKept, Inv
<1>2. CASE plans # <<>>
      <2>1. /\ plans' # <<>> /\ Latest' = Latest /\ Latest \in 1..Len(plans)
            BY <1>2, QuietRows, LatestRow
      <2>2. /\ job.plan = Latest /\ (job.state = "idle" => plans[Latest].basis = job.facts)
            /\ (~job.explicit => plans[Latest].asked = wishes)
            BY <1>2 DEF JobKept, Inv
      <2>3. PICK L : L = Latest
            OBVIOUS
      <2>4. plans'[L].basis = plans[L].basis /\ plans'[L].asked = plans[L].asked
            BY <2>1, <2>3 DEF Quiet, PlansStay
      <2>5. /\ job'.plan = job.plan
            /\ job'.state = "idle" => job.state = "idle" /\ job'.facts = job.facts
            /\ ~job'.explicit => ~job.explicit
            BY DEF Quiet, JobStays
      <2>6. wishes' # wishes => job'.explicit
            BY DEF Quiet, Inputs
      <2>7. /\ job'.plan = L /\ (job'.state = "idle" => plans'[L].basis = job'.facts)
            /\ (~job'.explicit => plans'[L].asked = wishes')
            BY <2>2, <2>3, <2>4, <2>5, <2>6
      <2>8. QED
            BY <2>1, <2>3, <2>7 DEF JobKept
<1>3. QED
      BY <1>1, <1>2

\* The numbers of one step: nothing goes back.
LEMMA QuietNumbers ==
    ASSUME Inv, Quiet
    PROVE  /\ facts \in Nat /\ facts' \in Nat /\ facts <= facts'
           /\ job.generation \in Nat /\ job'.generation \in Nat
           /\ job.generation <= job'.generation
           /\ job'.generation = job.generation /\ facts' = facts => wishes' = wishes
           /\ job'.state = "idle" => job.state = "idle"
           /\ job'.plan = job.plan
<1>1. facts \in Nat /\ job.generation \in Nat
      BY Numbers DEF Inv
<1>2. facts' \in {facts, facts + 1} /\ job'.generation \in {job.generation, job.generation + 1}
      BY DEF Quiet, Inputs, JobStays
<1>3. wishes' # wishes => facts' = facts + 1 \/ job'.generation = job.generation + 1
      BY DEF Quiet, Inputs
<1>4. QED
      BY <1>1, <1>2, <1>3 DEF Quiet, JobStays

LEMMA QuietWorkers == ASSUME Inv, Quiet, Working PROVE WorkersKnow'
<1> SUFFICES ASSUME NEW w \in Workers
             PROVE  Knows(work[w])'
    BY DEF WorkersKnow
<1>1. PICK k \in Work : k = work[w]
      BY Busy
<1>2. PICK n : n = work'[w]
      OBVIOUS
<1>3. Carries(k, n) /\ Knows(k)
      BY <1>1, <1>2, Busy DEF Working
<1>4. /\ n \in Work /\ n.plan \in Nat /\ k.plan \in Nat /\ k.plan <= Len(plans)
      /\ k.before \in Nat /\ k.generation \in Nat
      BY <1>1, <1>3 DEF Carries, Knows, Work
<1>5. CASE plans = <<>>
      <2>1. plans' = <<>> /\ n = k /\ k.pc = "idle" /\ Len(plans') = Len(plans)
            BY <1>1, <1>2, <1>5, QuietRows DEF Working, Inv, JobKept
      <2>2. k.plan = 0
            BY <1>3, <2>1 DEF Knows
      <2>3. Knows(n)'
            BY <1>4, <2>1, <2>2 DEF Knows, Computing
      <2>4. QED
            BY <1>2, <2>3 DEF Knows, Computing, Reads
<1>6. CASE plans # <<>>
      <2>1. job.plan = Latest /\ Latest \in 1..Len(plans) /\ Len(plans') = Len(plans) /\ Latest' = Latest
            BY <1>6, QuietRows, LatestRow DEF Inv, JobKept
      <2>2. /\ n.pc \in {"idle", "poll", "list"} => n.plan = 0
            /\ n.pc \in {"start", "compute", "repoll", "publish", "block"} => n.plan # 0
            /\ n.plan # 0 => n.plan = k.plan \/ n.plan = job.plan
            BY <1>3 DEF Carries
      <2>3. n.plan <= Len(plans')
            BY <1>4, <2>1, <2>2, QuietRows
      <2>4. ASSUME Computing(n)
            PROVE  /\ n.before <= facts' /\ n.generation <= job'.generation
                   /\ n.generation = job'.generation =>
                        /\ n.before = facts' => n.asked = wishes'
                        /\ n.plan = Latest => job'.state # "idle" /\ Reads(n.rows)'
            <3>1. CASE /\ Computing(k) /\ n.plan = k.plan /\ n.generation = k.generation
                       /\ n.before = k.before /\ n.asked = k.asked /\ n.rows = k.rows
                  <4>1. /\ k.before <= facts /\ k.generation <= job.generation
                        /\ k.generation = job.generation =>
                            /\ k.before = facts => k.asked = wishes
                            /\ k.plan = Latest => job.state # "idle" /\ Reads(k.rows)
                        BY <1>3, <3>1 DEF Knows
                  <4>2. n.before <= facts' /\ n.generation <= job'.generation
                        BY <1>4, <3>1, <4>1, QuietNumbers
                  <4>3. ASSUME n.generation = job'.generation
                        PROVE  k.generation = job.generation /\ job'.generation = job.generation
                        BY <1>4, <3>1, <4>1, <4>3, QuietNumbers
                  <4>4. ASSUME n.generation = job'.generation, n.before = facts'
                        PROVE  n.asked = wishes'
                        <5>1. k.before = facts /\ facts' = facts
                              BY <1>4, <3>1, <4>1, <4>4, QuietNumbers
                        <5>2. QED
                              BY <3>1, <4>1, <4>3, <4>4, <5>1, QuietNumbers
                  <4>5. ASSUME n.generation = job'.generation, n.plan = Latest
                        PROVE  job'.state # "idle" /\ Reads(n.rows)'
                        <5>1. job.state # "idle" /\ Reads(k.rows)
                              BY <3>1, <4>1, <4>3, <4>5
                        <5>2. job'.state # "idle"
                              BY <5>1, QuietNumbers
                        <5>3. PICK rows : rows = k.rows
                              OBVIOUS
                        <5>4. /\ Len(rows) = Len(plans)
                              /\ \A v \in 1..Len(plans) :
                                    rows[v].stop = ops[v].stop /\ (Outstanding(ops[v]) => Outstanding(rows[v]))
                              BY <5>1, <5>3, QuietRows DEF Reads
                        <5>5. Len(rows) = Len(ops')
                              BY <5>4, QuietRows
                        <5>6. \A v \in 1..Len(ops') :
                                rows[v].stop = ops'[v].stop /\ (Outstanding(ops'[v]) => Outstanding(rows[v]))
                              BY <5>1, <5>4, QuietRows
                        <5>7. rows = n.rows
                              BY <3>1, <5>3
                        <5>8. QED
                              BY <5>2, <5>5, <5>6, <5>7 DEF Reads, Outstanding, Attempted
                  <4>6. QED
                        BY <4>2, <4>4, <4>5
            <3>2. CASE /\ n.before = facts /\ n.asked = wishes /\ n.rows = ops
                       /\ n.generation = job.generation /\ job'.state = "running"
                       /\ UNCHANGED <<facts, wishes, ops, plans>>
                  <4>1. n.before <= facts' /\ n.generation <= job'.generation /\ n.asked = wishes'
                        BY <3>2, QuietNumbers
                  <4>2. PICK rows : rows = n.rows
                        OBVIOUS
                  <4>3. rows = ops'
                        BY <3>2, <4>2
                  <4>4. Reads(n.rows)'
                        BY <4>2, <4>3 DEF Reads, Outstanding, Attempted
                  <4>5. QED
                        BY <3>2, <4>1, <4>4
            <3>3. QED
                  BY <1>3, <2>4, <3>1, <3>2 DEF Carries
      <2>5. QED
            BY <1>2, <2>1, <2>2, <2>3, <2>4 DEF Knows, Computing, Reads, Outstanding, Attempted
<1>7. QED
      BY <1>5, <1>6

LEMMA QuietBudget == ASSUME Inv, Quiet, Working PROVE BudgetKept'
<1>1. ReservationsAccount /\ CommittedIsReserved
      BY DEF Inv, BudgetKept
<1>2. ASSUME plans # <<>>
      PROVE  usage' = Total(plans'[Latest].allocations) /\ Latest \in 1..Len(plans)
      <2>1. Latest \in 1..Len(plans)
            BY <1>2, LatestRow
      <2>2. PICK L : L = Latest
            OBVIOUS
      <2>3. plans'[L].allocations = plans[L].allocations
            BY <2>1, <2>2 DEF Quiet, PlansStay
      <2>4. usage = Total(plans[L].allocations) /\ usage' = usage
            BY <1>1, <1>2, <2>2 DEF ReservationsAccount, Quiet
      <2>5. QED
            BY <2>1, <2>2, <2>3, <2>4
<1>3. ReservationsAccount'
      <2>1. plans' # <<>> => usage' = Total(plans'[Latest'].allocations)
            BY <1>2, QuietRows
      <2>2. QED
            BY <2>1 DEF ReservationsAccount
<1>4. ASSUME NEW v \in 1..Len(plans), Outstanding(ops'[v])
      PROVE  {s \in plans'[v].allocations : s.t < ops'[v].stop} \subseteq plans'[Latest].allocations
      <2>1. CASE v = Latest
            BY <2>1
      <2>2. CASE v # Latest
            <3>1. Outstanding(ops[v]) /\ ops'[v].stop = ops[v].stop /\ v \in DOMAIN plans
                  BY <1>4, <2>2, QuietRows
            <3>2. {s \in plans[v].allocations : s.t < ops[v].stop} \subseteq plans[Latest].allocations
                  BY <1>1, <3>1 DEF CommittedIsReserved, Outstanding
            <3>3. plans # <<>>
                  BY <3>1
            <3>4. PICK L \in 1..Len(plans) : L = Latest
                  BY <1>2, <3>3
            <3>5. plans'[v].allocations = plans[v].allocations /\ plans'[L].allocations = plans[L].allocations
                  BY DEF Quiet, PlansStay
            <3>6. QED
                  BY <3>1, <3>2, <3>4, <3>5
      <2>3. QED
            BY <2>1, <2>2
<1>5. CommittedIsReserved'
      BY <1>4, QuietRows DEF CommittedIsReserved, Outstanding
<1>6. QED
      BY <1>3, <1>5 DEF BudgetKept

LEMMA QuietKeeps == ASSUME Inv, Quiet, Working PROVE Inv'
BY QuietTyped, QuietLineage, QuietJobKept, QuietWorkers, QuietBudget DEF Inv

-----------------------------------------------------------------------------
(* The first version and consent to a version.                             *)

LEMMA NeededTyped ==
    ASSUME NEW S \in SUBSET Share, IsFiniteSet(S), NEW offer \in Offers, NEW from \in Nat
    PROVE  needed(S, offer, from) \in [Instants -> Nat]
<1> SUFFICES ASSUME NEW t \in Instants
             PROVE  LET credit == Total({s \in S : s.t = t})
                        cost == IF t < from THEN 0 ELSE offer.cost
                    IN  Max({0, cost - credit}) \in Nat
    BY DEF needed
<1>1. PICK R : R = {s \in S : s.t = t}
      OBVIOUS
<1>2. R \in SUBSET Share /\ IsFiniteSet(R)
      BY <1>1, FS_Subset
<1>3. PICK credit \in Nat : credit = Total(R)
      BY <1>2, TotalType
<1>4. offer.cost \in Nat
      BY PlansAssumption
<1>5. PICK cost \in Nat : cost = IF t < from THEN 0 ELSE offer.cost
      BY <1>4
<1>6. PICK d \in Int : d = cost - credit
      BY <1>3, <1>5
<1>7. Max({0, d}) \in Nat
      <2>1. CASE d >= 0
            <3>1. IsFiniteSet({0} \cup {d}) /\ {0, d} = {0} \cup {d}
                  BY FS_Singleton, FS_Union
            <3>2. {0, d} \in SUBSET Int /\ {0, d} # {} /\ \A x \in {0, d} : x >= 0
                  BY <2>1
            <3>3. Max({0, d}) \in {0, d}
                  BY <3>1, <3>2, MaxIs
            <3>4. QED
                  BY <2>1, <3>3
      <2>2. CASE d < 0
            <3>1. \A x \in {0, d} : (\A y \in {0, d} : x >= y) <=> x = 0
                  BY <2>2
            <3>2. QED
                  BY <3>1 DEF Max
      <2>3. QED
            BY <1>6, <2>1, <2>2
<1>8. QED
      BY <1>1, <1>3, <1>5, <1>6, <1>7

LEMMA NewPlanTyped ==
    ASSUME NEW shares \in SUBSET Share, NEW estimates \in [Instants -> Nat], NEW basis \in Nat,
           NEW asked \in Nat, NEW approver \in BOOLEAN, NEW agreed \in Nat,
           NEW r, r = NewPlan(shares, estimates, basis, asked, approver, agreed)
    PROVE  /\ r \in PlanRow /\ r.status = "proposed" /\ r.approver = approver
           /\ r.allocations = shares /\ r.estimates = estimates
           /\ r.basis = basis /\ r.asked = asked /\ r.agreed = agreed
BY DEF NewPlan, PlanRow

LEMMA NewOpTyped ==
    ASSUME NEW offer \in Offers, NEW r, r = NewOp(offer)
    PROVE  r \in OpRow /\ ~Attempted(r) /\ r.ended = FALSE
<1>1. offer.at \in Instants /\ offer.stop \in 1..Horizon
      BY PlansAssumption DEF Instants
<1>2. QED
      BY <1>1 DEF NewOp, OpRow, Attempted

LEMMA PublishedTyped ==
    ASSUME Inv, NEW v \in Nat, NEW j, j = Published(v)
    PROVE  /\ j \in Job /\ j.state = "idle" /\ j.plan = v /\ j.explicit = FALSE /\ j.facts = facts
           /\ j.generation = job.generation
<1>1. job \in Job /\ facts \in Nat
      BY DEF Inv, TypeOK
<1>2. PICK H : H = 0..Horizon
      OBVIOUS
<1>3. 0 \in H
      BY <1>2, PlansAssumption
<1>4. PICK none \in SUBSET Reasons : none = {}
      OBVIOUS
<1>5. j = [job EXCEPT !.state = "idle", !.plan = v, !.reasons = none, !.explicit = FALSE,
                      !.retry = 0, !.why = "none", !.facts = facts]
      BY <1>4 DEF Published
<1>6. QED
      BY <1>1, <1>2, <1>3, <1>5 DEF Job

LEMMA RecordKeeps == ASSUME Inv, Record PROVE Inv'
<1>1. /\ plans = <<>> /\ job' = Published(1)
      /\ UNCHANGED <<now, facts, wishes, usage, lock, work, events>>
      BY DEF Record
<1>2. PICK o \in Offers : /\ plans' = <<NewPlan({}, needed({}, o, now), facts, wishes, FALSE, 0)>>
                          /\ ops' = <<NewOp(o)>>
      BY DEF Record
<1>3. TypeOK /\ JobKept /\ now \in Nat /\ facts \in Nat /\ wishes \in Nat
      BY Numbers DEF Inv
<1>4. usage = 0 /\ \A w \in Workers : work[w].pc = "idle" /\ work[w].plan = 0
      BY <1>1, <1>3, Busy DEF JobKept, Knows
<1>5. PICK none \in SUBSET Share : none = {}
      OBVIOUS
<1>6. IsFiniteSet(none) /\ Total(none) = 0
      BY <1>5, FS_EmptySet, TotalIsSum, SumEmpty
<1>7. PICK e \in [Instants -> Nat] : e = needed(none, o, now)
      BY <1>3, <1>6, NeededTyped
<1>8. PICK r : r = NewPlan(none, e, facts, wishes, FALSE, 0)
      OBVIOUS
<1>9. r \in PlanRow /\ r.status = "proposed" /\ r.approver = FALSE /\ r.allocations = none
      /\ r.basis = facts /\ r.asked = wishes
      BY <1>3, <1>8 DEF NewPlan, PlanRow
<1>10. PICK q : q = NewOp(o)
       OBVIOUS
<1>11. q \in OpRow /\ ~Attempted(q)
       BY <1>10, NewOpTyped
<1>12. plans' = <<r>> /\ ops' = <<q>>
       BY <1>2, <1>5, <1>7, <1>8, <1>10
<1>13. PICK j : j = job'
       OBVIOUS
<1>14. /\ j \in Job /\ j.state = "idle" /\ j.plan = 1 /\ j.explicit = FALSE /\ j.facts = facts
       BY <1>1, <1>13, PublishedTyped
<1>15. /\ plans' \in Seq(PlanRow) /\ ops' \in Seq(OpRow) /\ Len(plans') = 1 /\ Len(ops') = 1
       /\ plans' # <<>> /\ Latest' = 1 /\ plans'[1] = r /\ ops'[1] = q
       /\ DOMAIN plans' = {1} /\ DOMAIN ops' = {1} /\ 1..Len(plans') = {1}
       BY <1>9, <1>11, <1>12 DEF Latest
<1>16. TypeOK'
       BY <1>1, <1>3, <1>13, <1>14, <1>15 DEF TypeOK
<1>17. Lineage'
       <2>1. /\ ~(1 < Latest') /\ r.status # "approved" /\ r.approver = FALSE
             /\ IsFiniteSet(r.allocations) /\ \A s \in r.allocations : FALSE
             BY <1>5, <1>6, <1>9, <1>15
       <2>2. RowKept(plans[1], 1)'
             BY <1>15, <2>1 DEF RowKept
       <2>3. QED
             BY <1>15, <2>2 DEF Lineage
<1>18. JobKept'
       BY <1>1, <1>9, <1>13, <1>14, <1>15 DEF JobKept
<1>19. WorkersKnow'
       <2> SUFFICES ASSUME NEW w \in Workers
                    PROVE  Knows(work[w])'
           BY DEF WorkersKnow
       <2>1. work'[w].pc = "idle" /\ work'[w].plan = 0
             BY <1>1, <1>4
       <2>2. QED
             BY <1>15, <2>1 DEF Knows, Computing
<1>20. BudgetKept'
       <2>1. usage' = Total(plans'[Latest'].allocations)
             BY <1>1, <1>4, <1>6, <1>9, <1>15
       <2>2. ReservationsAccount'
             BY <2>1 DEF ReservationsAccount
       <2>3. CommittedIsReserved'
             BY <1>11, <1>15 DEF CommittedIsReserved, Attempted
       <2>4. QED
             BY <2>2, <2>3 DEF BudgetKept
<1>21. QED
       BY <1>16, <1>17, <1>18, <1>19, <1>20 DEF Inv

LEMMA ApproveKeeps == ASSUME Inv, Approve PROVE Inv'
<1>1. plans # <<>> /\ Latest \in 1..Len(plans) /\ TypeOK
      BY LatestRow DEF Approve, Inv
<1>2. PICK L : L = Latest
      OBVIOUS
<1>3. PICK p : p = plans[L]
      OBVIOUS
<1>4. L \in Nat /\ L \in 1..Len(plans) /\ p \in PlanRow /\ L = Len(plans)
      BY <1>1, <1>2, <1>3, Numbers DEF Latest
<1>5. PICK r : r = [p EXCEPT !.status = "approved", !.approver = TRUE, !.agreed = p.asked,
                             !.allocations = allocate(p, L)]
      OBVIOUS
<1>6. /\ p.status = "proposed" /\ plans' = [plans EXCEPT ![L] = r]
      /\ usage' = usage + reservation(p)
      /\ UNCHANGED <<now, facts, wishes, ops, job, lock, work, events>>
      BY <1>2, <1>3, <1>5, Zenon DEF Approve
<1>7. RowKept(p, L) /\ usage = Total(p.allocations)
      BY <1>1, <1>2, <1>3, <1>4 DEF Inv, Lineage, BudgetKept, ReservationsAccount
<1>8. /\ p.allocations \in SUBSET Share /\ IsFiniteSet(p.allocations)
      /\ p.estimates \in [Instants -> Nat] /\ \A s \in p.allocations : s.grant <= L /\ s.grant # L
      BY <1>4, <1>6, <1>7 DEF RowKept, PlanRow
<1>9. PICK I : I = intervals(p, L)
      OBVIOUS
<1>10. /\ I \in SUBSET Share /\ IsFiniteSet(I) /\ \A s \in I : s.grant = L
       /\ Total(I) = reservation(p)
       BY <1>4, <1>8, <1>9, IntervalsSum
<1>11. p.allocations \cap I = {}
       BY <1>8, <1>10
<1>12. PICK A : A = p.allocations \cup I
       OBVIOUS
<1>13. A \in SUBSET Share /\ IsFiniteSet(A) /\ Total(A) = Total(p.allocations) + Total(I)
       BY <1>8, <1>10, <1>11, <1>12, TotalUnion
<1>14. r = [p EXCEPT !.status = "approved", !.approver = TRUE, !.agreed = p.asked, !.allocations = A]
       BY <1>5, <1>9, <1>12 DEF allocate
<1>15. /\ r \in PlanRow /\ r.status = "approved" /\ r.approver = TRUE /\ r.agreed = p.asked
       /\ r.asked = p.asked /\ r.basis = p.basis /\ r.allocations = A
       BY <1>4, <1>13, <1>14 DEF PlanRow
<1>16. usage' = Total(A) /\ usage' \in Nat
       BY <1>6, <1>7, <1>10, <1>13, TotalType
<1>17. PICK q : q = plans'
       OBVIOUS
<1>18. /\ q \in Seq(PlanRow) /\ Len(q) = Len(plans) /\ q[L] = r
       /\ \A v \in 1..Len(plans) : v # L => q[v] = plans[v]
       BY <1>1, <1>4, <1>6, <1>15, <1>17, ExceptSeq DEF TypeOK
<1>19. /\ q # <<>> /\ Latest' = L /\ DOMAIN plans = 1..Len(plans) /\ DOMAIN q = 1..Len(plans)
       <2>1. Len(q) # 0 /\ Len(q) = L
             BY <1>4, <1>18
       <2>2. QED
             BY <1>1, <1>17, <1>18, <2>1, EmptySeq, LenProperties, Numbers DEF Latest
<1>20. TypeOK'
       BY <1>1, <1>6, <1>16, <1>17, <1>18 DEF TypeOK
<1>21. Lineage'
       <2> SUFFICES ASSUME NEW v \in 1..Len(plans)
                    PROVE  RowKept(q[v], v)'
           BY <1>17, <1>18 DEF Lineage
       <2>1. CASE v = L
             <3>1. \A s \in A : s.grant <= L
                   BY <1>4, <1>8, <1>10, <1>12
             <3>2. ~(L < Latest')
                   BY <1>4, <1>19
             <3>3. QED
                   BY <1>13, <1>15, <1>18, <2>1, <3>1, <3>2 DEF RowKept
       <2>2. CASE v # L
             <3>1. RowKept(plans[v], v) /\ q[v] = plans[v]
                   BY <1>18, <2>2 DEF Inv, Lineage
             <3>2. QED
                   BY <1>2, <1>19, <3>1 DEF RowKept
       <2>3. QED
             BY <2>1, <2>2
<1>22. JobKept'
       <2>1. /\ job.plan = L /\ (job.state = "idle" => p.basis = job.facts)
             /\ (~job.explicit => p.asked = wishes)
             BY <1>1, <1>2, <1>3 DEF Inv, JobKept
       <2>2. /\ job'.plan = Latest' /\ (job'.state = "idle" => plans'[Latest'].basis = job'.facts)
             /\ (~job'.explicit => plans'[Latest'].asked = wishes')
             BY <1>6, <1>15, <1>17, <1>18, <1>19, <2>1
       <2>3. QED
             BY <1>17, <1>19, <2>2 DEF JobKept
<1>23. WorkersKnow'
       <2> SUFFICES ASSUME NEW w \in Workers
                    PROVE  Knows(work[w])'
           BY DEF WorkersKnow
       <2>1. Knows(work[w]) /\ work'[w] = work[w]
             BY <1>6, Busy
       <2>2. Len(plans') = Len(plans) /\ Latest' = Latest
             BY <1>2, <1>17, <1>18, <1>19
       <2>3. QED
             BY <1>6, <2>1, <2>2 DEF Knows, Computing, Reads, Outstanding, Attempted
<1>24. BudgetKept'
       <2>1. usage' = Total(plans'[Latest'].allocations)
             BY <1>15, <1>16, <1>17, <1>18, <1>19
       <2>2. ReservationsAccount'
             BY <2>1 DEF ReservationsAccount
       <2>3. ASSUME NEW v \in 1..Len(plans), Outstanding(ops[v])
             PROVE  {s \in q[v].allocations : s.t < ops[v].stop} \subseteq A
             <3>1. CASE v = L
                   BY <1>15, <1>18, <3>1
             <3>2. CASE v # L
                   <4>1. {s \in plans[v].allocations : s.t < ops[v].stop} \subseteq p.allocations
                         BY <1>2, <1>3, <1>19, <2>3 DEF Inv, BudgetKept, CommittedIsReserved, Outstanding
                   <4>2. QED
                         BY <1>12, <1>18, <3>2, <4>1
             <3>3. QED
                   BY <3>1, <3>2
       <2>4. ops' = ops /\ plans'[Latest'].allocations = A /\ DOMAIN plans' = 1..Len(plans)
             BY <1>6, <1>15, <1>17, <1>18, <1>19
       <2>5. CommittedIsReserved'
             BY <1>17, <2>3, <2>4 DEF CommittedIsReserved, Outstanding, Attempted
       <2>6. QED
             BY <2>2, <2>5 DEF BudgetKept
<1>25. QED
       BY <1>20, <1>21, <1>22, <1>23, <1>24 DEF Inv

-----------------------------------------------------------------------------
(* A replacement.                                                          *)

\* What is retained of a version holds every interval before the end of an
\* opening the rows tell of.
LEMMA RetainedKeeps ==
    ASSUME NEW p \in PlanRow, NEW rows \in Seq(OpRow), now \in Nat,
           NEW K, K = retained(p, rows)
    PROVE  /\ K \subseteq p.allocations
           /\ \A v \in 1..Len(rows) : Outstanding(rows[v]) =>
                \A s \in p.allocations : s.t < rows[v].stop => s \in K
<1>1. PICK tried : tried = {v \in DOMAIN rows : Attempted(rows[v])}
      OBVIOUS
<1>2. PICK S : S = {now} \cup {rows[v].stop : v \in {u \in tried : ~rows[u].ended}}
      OBVIOUS
<1>3. K = IF \E v \in tried : rows[v].status # "verified"
          THEN p.allocations
          ELSE {s \in p.allocations : s.t < Max(S)}
      BY <1>1, <1>2 DEF retained
<1>4. /\ DOMAIN rows = 1..Len(rows) /\ Len(rows) \in Nat
      /\ \A v \in 1..Len(rows) : rows[v] \in OpRow
      BY LenProperties, ElementOfSeq
<1>5. S \in SUBSET Int /\ S # {} /\ \A x \in S : x >= 0
      <2>1. \A v \in 1..Len(rows) : rows[v].stop \in Nat
            BY <1>4, PlansAssumption DEF OpRow
      <2>2. QED
            BY <1>1, <1>2, <1>4, <2>1
<1>6. IsFiniteSet(S)
      <2>1. \A v \in 1..Len(rows) : rows[v].stop \in 1..Horizon
            BY <1>4 DEF OpRow
      <2>2. S \subseteq {now} \cup (1..Horizon)
            BY <1>1, <1>2, <1>4, <2>1
      <2>3. IsFiniteSet(1..Horizon)
            BY FS_Interval, PlansAssumption
      <2>4. IsFiniteSet({now} \cup (1..Horizon))
            BY <2>3, FS_Singleton, FS_Union
      <2>5. QED
            BY <2>2, <2>4, FS_Subset
<1>7. K \subseteq p.allocations
      BY <1>3
<1>8. ASSUME NEW v \in 1..Len(rows), Outstanding(rows[v]), NEW s \in p.allocations, s.t < rows[v].stop
      PROVE  s \in K
      <2>1. v \in tried /\ rows[v].stop \in S
            BY <1>1, <1>2, <1>4, <1>8 DEF Outstanding
      <2>2. Max(S) >= rows[v].stop /\ Max(S) \in Int /\ rows[v].stop \in Int
            BY <1>5, <1>6, <2>1, MaxIs
      <2>3. s.t \in Int
            BY DEF PlanRow, Share, Instants
      <2>4. s.t < Max(S)
            BY <1>8, <2>2, <2>3
      <2>5. QED
            BY <1>3, <2>4
<1>9. QED
      BY <1>7, <1>8

\* What a replacement is made of.
Replaces(w, L, old, kept, e, n, r, sup, rows, q) ==
    /\ L = Latest /\ old = plans[L] /\ kept = retained(old, work[w].rows)
    /\ e = needed(kept, work[w].offer, work[w].at)
    /\ n = NewPlan(kept, e, work[w].before, work[w].asked, Inherits(old),
                   IF Inherits(old) THEN old.agreed ELSE 0)
    /\ Inherits(old) => r = [n EXCEPT !.status = "approved", !.allocations = allocate(n, L + 1)]
    /\ ~Inherits(old) => r = n
    /\ sup = [old EXCEPT !.status = "superseded"]
    /\ rows = stop_unstarted(ops, L, "cancelled")
    /\ q = NewOp(work[w].offer)
    /\ plans' = Append([plans EXCEPT ![L] = sup], r)
    /\ ops' = Append(rows, q)
    /\ job' = Published(L + 1)
    /\ Inherits(old) => usage' = usage - (Total(old.allocations) - Total(kept)) + reservation(n)
    /\ ~Inherits(old) => usage' = usage - (Total(old.allocations) - Total(kept))

LEMMA PublishesIs ==
    ASSUME Inv, NEW w \in Workers, Publishes(w)
    PROVE  /\ plans # <<>> /\ work[w].plan = Latest /\ Latest \in 1..Len(plans)
           /\ \E L, old, kept, e, n, r, sup, rows, q :
                Replaces(w, L, old, kept, e, n, r, sup, rows, q)
<1>1. /\ plans # <<>> /\ Latest \in 1..Len(plans) /\ job.plan = Latest
      BY Busy DEF Publishes
<1>2. work[w].plan = Latest
      BY <1>1 DEF Publishes, Unmoved
<1>3. PICK L : L = Latest
      OBVIOUS
<1>4. PICK old : old = plans[L]
      OBVIOUS
<1>5. PICK kept : kept = retained(old, work[w].rows)
      OBVIOUS
<1>6. PICK e : e = needed(kept, work[w].offer, work[w].at)
      OBVIOUS
<1>7. PICK n : n = NewPlan(kept, e, work[w].before, work[w].asked, Inherits(old),
                           IF Inherits(old) THEN old.agreed ELSE 0)
      OBVIOUS
<1>8. PICK r : r = IF Inherits(old)
                   THEN [n EXCEPT !.status = "approved", !.allocations = allocate(n, L + 1)]
                   ELSE n
      OBVIOUS
<1>9. PICK sup : sup = [old EXCEPT !.status = "superseded"]
      OBVIOUS
<1>10. PICK rows : rows = stop_unstarted(ops, L, "cancelled")
       OBVIOUS
<1>11. PICK q : q = NewOp(work[w].offer)
       OBVIOUS
<1>12. /\ plans' = Append([plans EXCEPT ![L] = sup], r)
       /\ ops' = Append(rows, q) /\ job' = Published(L + 1)
       /\ usage' = usage - (Total(old.allocations) - Total(kept))
                   + IF Inherits(old) THEN reservation(n) ELSE 0
       BY <1>2, <1>3, <1>4, <1>5, <1>6, <1>7, <1>8, <1>9, <1>10, <1>11, Zenon DEF Publishes, Replace
<1>13. ASSUME Inherits(old)
       PROVE  /\ r = [n EXCEPT !.status = "approved", !.allocations = allocate(n, L + 1)]
              /\ usage' = usage - (Total(old.allocations) - Total(kept)) + reservation(n)
       BY <1>8, <1>12, <1>13, Zenon
<1>14. Replaces(w, L, old, kept, e, n, r, sup, rows, q)
       <2>1. ASSUME ~Inherits(old)
             PROVE  /\ r = n /\ usage' = usage - (Total(old.allocations) - Total(kept)) + 0
             BY <1>8, <1>12, <2>1, Zenon
       <2>2. usage \in Nat /\ Total(old.allocations) \in Nat /\ Total(kept) \in Nat
             <3>1. /\ old \in PlanRow /\ RowKept(old, L) /\ work[w].rows \in Seq(OpRow)
                   /\ usage \in Nat /\ now \in Nat
                   BY <1>1, <1>3, <1>4, Numbers, Busy DEF Inv, Lineage, Work
             <3>2. old.allocations \in SUBSET Share /\ IsFiniteSet(old.allocations)
                   BY <3>1 DEF RowKept, PlanRow
             <3>3. kept \subseteq old.allocations
                   BY <1>5, <3>1, RetainedKeeps
             <3>4. kept \in SUBSET Share /\ IsFiniteSet(kept)
                   BY <3>2, <3>3, FS_Subset
             <3>5. QED
                   BY <3>1, <3>2, <3>4, TotalType
       <2>3. ~Inherits(old) => usage' = usage - (Total(old.allocations) - Total(kept))
             BY <2>1, <2>2
       <2>4. QED
             BY <1>3, <1>4, <1>5, <1>6, <1>7, <1>9, <1>10, <1>11, <1>12, <1>13, <2>1, <2>3, Zenon
                DEF Replaces
<1>15. QED
       BY <1>1, <1>2, <1>14, Zenon

\* The rows a publication writes.
LEMMA ReplacesRows ==
    ASSUME Inv, NEW w \in Workers, Publishes(w),
           NEW L, NEW old, NEW kept, NEW e, NEW n, NEW r, NEW sup, NEW rows, NEW q,
           Replaces(w, L, old, kept, e, n, r, sup, rows, q)
    PROVE  /\ L \in 1..Len(plans) /\ L \in Nat /\ L = Latest /\ L = Len(plans) /\ old = plans[L]
           /\ sup \in PlanRow /\ sup.status = "superseded" /\ sup.approver = old.approver
           /\ sup.allocations = old.allocations /\ sup.asked = old.asked /\ sup.agreed = old.agreed
           /\ r \in PlanRow /\ r.basis = facts /\ r.asked = wishes
           /\ r.status = "approved" => r.approver
           /\ r.approver => r.agreed = r.asked
           /\ IsFiniteSet(r.allocations)
           /\ \A s \in r.allocations : s.grant <= L + 1 /\ (r.status = "proposed" => s.grant # L + 1)
           /\ q \in OpRow /\ ~Attempted(q) /\ rows \in Seq(OpRow) /\ OpsStay(ops, rows)
           /\ usage' = Total(r.allocations) /\ usage' \in Nat
           /\ \A v \in 1..Len(plans) : Outstanding(ops[v]) =>
                \A s \in old.allocations : s.t < ops[v].stop => s \in r.allocations
<1>1. /\ plans # <<>> /\ work[w].plan = Latest /\ Latest \in 1..Len(plans)
      BY PublishesIs
<1>2. PICK k \in Work : k = work[w]
      BY Busy
<1>3. /\ L = Latest /\ old = plans[L] /\ kept = retained(old, k.rows)
      /\ e = needed(kept, k.offer, k.at)
      /\ n = NewPlan(kept, e, k.before, k.asked, Inherits(old), IF Inherits(old) THEN old.agreed ELSE 0)
      /\ sup = [old EXCEPT !.status = "superseded"]
      /\ rows = stop_unstarted(ops, L, "cancelled") /\ q = NewOp(k.offer)
      BY <1>2, Zenon DEF Replaces
<1>4. /\ L \in 1..Len(plans) /\ L \in Nat /\ L = Len(plans) /\ old \in PlanRow
      /\ now \in Nat /\ facts \in Nat /\ wishes \in Nat
      /\ ops \in Seq(OpRow) /\ Len(ops) = Len(plans)
      BY <1>1, <1>3, Numbers, LatestRow DEF Inv, Latest
<1>5. /\ RowKept(old, L) /\ usage = Total(old.allocations)
      /\ ~job.explicit => old.asked = wishes
      BY <1>1, <1>3, <1>4 DEF Inv, Lineage, JobKept, BudgetKept, ReservationsAccount
<1>6. /\ old.allocations \in SUBSET Share /\ IsFiniteSet(old.allocations)
      /\ \A s \in old.allocations : s.grant <= L
      /\ old.approver => old.agreed = old.asked
      /\ old.agreed \in Nat /\ old.approver \in BOOLEAN
      BY <1>4, <1>5 DEF RowKept, PlanRow
<1>7. /\ k.before = facts /\ k.asked = wishes /\ Reads(k.rows) /\ k.rows \in Seq(OpRow)
      /\ k.offer \in Offers /\ k.at \in Nat /\ k.asked \in Nat
      <2>1. Computing(k) /\ Knows(k) /\ k.plan = Latest
            BY <1>1, <1>2, Busy DEF Publishes, Computing
      <2>2. k.before = facts /\ k.generation = job.generation
            BY <1>2 DEF Publishes, Unmoved
      <2>3. k.asked = wishes /\ Reads(k.rows)
            BY <2>1, <2>2 DEF Knows
      <2>4. k.rows \in Seq(OpRow) /\ k.offer \in Offers /\ k.at \in 0..Horizon /\ k.asked \in Nat
            BY <1>2 DEF Work
      <2>5. k.at \in Nat
            BY <2>4, PlansAssumption
      <2>6. QED
            BY <2>2, <2>3, <2>4, <2>5
<1>8. /\ kept \subseteq old.allocations
      /\ \A v \in 1..Len(k.rows) : Outstanding(k.rows[v]) =>
            \A s \in old.allocations : s.t < k.rows[v].stop => s \in kept
      BY <1>3, <1>4, <1>7, RetainedKeeps
<1>9. \A v \in 1..Len(plans) : Outstanding(ops[v]) =>
        \A s \in old.allocations : s.t < ops[v].stop => s \in kept
      BY <1>4, <1>7, <1>8 DEF Reads
<1>10. kept \in SUBSET Share /\ IsFiniteSet(kept) /\ \A s \in kept : s.grant <= L
       BY <1>6, <1>8, FS_Subset
<1>11. e \in [Instants -> Nat]
       BY <1>3, <1>7, <1>10, NeededTyped
<1>12. sup \in PlanRow /\ sup.status = "superseded" /\ sup.approver = old.approver
       /\ sup.allocations = old.allocations /\ sup.asked = old.asked /\ sup.agreed = old.agreed
       BY <1>3, <1>4, PlanWritten DEF PlanStatuses, TERMINAL
<1>13. q \in OpRow /\ ~Attempted(q) /\ rows \in Seq(OpRow) /\ OpsStay(ops, rows)
       BY <1>3, <1>4, <1>7, NewOpTyped, StopUnstarted
<1>14. Total(old.allocations) \in Nat /\ Total(kept) \in Nat
       BY <1>6, <1>10, TotalType
<1>15. CASE ~Inherits(old)
       <2>0. Inherits(old) = FALSE
             BY <1>15 DEF Inherits
       <2>1. n = NewPlan(kept, e, k.before, k.asked, FALSE, 0)
             BY <1>3, <1>15, <2>0, Zenon
       <2>2. r = n /\ usage' = usage - (Total(old.allocations) - Total(kept))
             BY <1>15 DEF Replaces
       <2>3. /\ r \in PlanRow /\ r.status = "proposed" /\ r.approver = FALSE /\ r.allocations = kept
             /\ r.basis = facts /\ r.asked = wishes
             BY <1>4, <1>7, <1>10, <1>11, <2>1, <2>2 DEF NewPlan, PlanRow
       <2>4. usage' = Total(kept)
             BY <1>5, <1>14, <2>2
       <2>5. \A s \in kept : s.grant <= L + 1 /\ s.grant # L + 1
             BY <1>4, <1>10 DEF Share
       <2>6. QED
             BY <1>3, <1>4, <1>9, <1>10, <1>12, <1>13, <1>14, <2>3, <2>4, <2>5
<1>16. CASE Inherits(old)
       <2>1. old.approver /\ ~job.explicit
             BY <1>16 DEF Inherits
       <2>2. n = NewPlan(kept, e, k.before, k.asked, TRUE, old.agreed)
             BY <1>3, <1>16
       <2>3. /\ n \in PlanRow /\ n.approver = TRUE /\ n.allocations = kept /\ n.estimates = e
             /\ n.basis = facts /\ n.asked = wishes /\ n.agreed = old.agreed
             BY <1>4, <1>6, <1>7, <1>10, <1>11, <2>2 DEF NewPlan, PlanRow
       <2>4. /\ r = [n EXCEPT !.status = "approved", !.allocations = allocate(n, L + 1)]
             /\ usage' = usage - (Total(old.allocations) - Total(kept)) + reservation(n)
             BY <1>16 DEF Replaces
       <2>5. PICK I : I = intervals(n, L + 1)
             OBVIOUS
       <2>6. /\ I \in SUBSET Share /\ IsFiniteSet(I) /\ \A s \in I : s.grant = L + 1
             /\ Total(I) = reservation(n)
             BY <1>4, <1>11, <2>3, <2>5, IntervalsSum
       <2>7. kept \cap I = {}
             BY <1>4, <1>10, <2>6
       <2>8. PICK A : A = kept \cup I
             OBVIOUS
       <2>9. A \in SUBSET Share /\ IsFiniteSet(A) /\ Total(A) = Total(kept) + Total(I)
             BY <1>10, <2>6, <2>7, <2>8, TotalUnion
       <2>10. r = [n EXCEPT !.status = "approved", !.allocations = A]
              BY <2>3, <2>4, <2>5, <2>8 DEF allocate
       <2>11. /\ r \in PlanRow /\ r.status = "approved" /\ r.approver = TRUE /\ r.allocations = A
              /\ r.basis = facts /\ r.asked = wishes /\ r.agreed = old.agreed
              BY <2>3, <2>9, <2>10 DEF PlanRow
       <2>12. usage' = Total(A) /\ usage' \in Nat
              BY <1>5, <1>14, <2>4, <2>6, <2>9, TotalType
       <2>13. r.agreed = r.asked
              BY <1>5, <1>6, <2>1, <2>11
       <2>14. \A s \in A : s.grant <= L + 1
              BY <1>4, <1>10, <2>6, <2>8 DEF Share
       <2>15. \A v \in 1..Len(plans) : Outstanding(ops[v]) =>
                \A s \in old.allocations : s.t < ops[v].stop => s \in A
              BY <1>9, <2>8
       <2>16. QED
              BY <1>3, <1>4, <1>12, <1>13, <2>9, <2>11, <2>12, <2>13, <2>14, <2>15
<1>17. QED
       BY <1>15, <1>16

LEMMA PublishKeeps == ASSUME Inv, NEW w \in Workers, Publishes(w), Working PROVE Inv'
<1>1. PICK L, old, kept, e, n, r, sup, rows, q : Replaces(w, L, old, kept, e, n, r, sup, rows, q)
      BY PublishesIs
<1>2. /\ L \in 1..Len(plans) /\ L \in Nat /\ L = Latest /\ L = Len(plans) /\ old = plans[L]
      /\ sup \in PlanRow /\ sup.status = "superseded" /\ sup.approver = old.approver
      /\ sup.allocations = old.allocations /\ sup.asked = old.asked /\ sup.agreed = old.agreed
      /\ r \in PlanRow /\ r.basis = facts /\ r.asked = wishes
      /\ r.status = "approved" => r.approver
      /\ r.approver => r.agreed = r.asked
      /\ IsFiniteSet(r.allocations)
      /\ \A s \in r.allocations : s.grant <= L + 1 /\ (r.status = "proposed" => s.grant # L + 1)
      /\ q \in OpRow /\ ~Attempted(q) /\ rows \in Seq(OpRow) /\ OpsStay(ops, rows)
      /\ usage' = Total(r.allocations) /\ usage' \in Nat
      BY <1>1, ReplacesRows
<1>3. \A v \in 1..Len(plans) : Outstanding(ops[v]) =>
        \A s \in old.allocations : s.t < ops[v].stop => s \in r.allocations
      BY <1>1, ReplacesRows
<1>4. /\ plans' = Append([plans EXCEPT ![L] = sup], r)
      /\ ops' = Append(rows, q) /\ job' = Published(L + 1)
      BY <1>1, Zenon DEF Replaces
<1>5. /\ plans \in Seq(PlanRow) /\ ops \in Seq(OpRow) /\ Len(ops) = Len(plans)
      /\ TypeOK /\ Lineage /\ plans # <<>>
      BY PublishesIs DEF Inv, TypeOK
<1>6. PICK s \in Seq(PlanRow) : s = [plans EXCEPT ![L] = sup]
      BY <1>2, <1>5, ExceptSeq
<1>7. Len(s) = Len(plans) /\ s[L] = sup /\ \A v \in 1..Len(plans) : v # L => s[v] = plans[v]
      BY <1>2, <1>5, <1>6, ExceptSeq
<1>8. PICK ps \in Seq(PlanRow) : ps = plans'
      BY <1>2, <1>4, <1>6, AppendProperties
<1>9. /\ Len(ps) = L + 1 /\ ps[L + 1] = r /\ ps[L] = sup
      /\ \A v \in 1..(L - 1) : ps[v] = plans[v]
      BY <1>2, <1>4, <1>6, <1>7, <1>8, AppendProperties
<1>10. PICK os \in Seq(OpRow) : os = ops'
       BY <1>2, <1>4, AppendProperties
<1>11. /\ Len(os) = L + 1 /\ os[L + 1] = q
       /\ \A v \in 1..L : os[v].stop = ops[v].stop /\ (Outstanding(os[v]) => Outstanding(ops[v]))
       <2>1. Len(rows) = L
             BY <1>2, <1>5 DEF OpsStay
       <2>2. Len(os) = L + 1 /\ os[L + 1] = q /\ \A v \in 1..L : os[v] = rows[v]
             BY <1>2, <1>4, <1>10, <2>1, AppendProperties
       <2>3. \A v \in 1..L : rows[v].stop = ops[v].stop /\ (Outstanding(rows[v]) => Outstanding(ops[v]))
             BY <1>2, <1>5 DEF OpsStay, Outstanding
       <2>4. QED
             BY <2>2, <2>3
<1>12. PICK j : j = job'
       OBVIOUS
<1>13. /\ j \in Job /\ j.state = "idle" /\ j.plan = L + 1 /\ j.explicit = FALSE /\ j.facts = facts
       /\ j.generation = job.generation
       <2>1. PICK v \in Nat : v = L + 1
             BY <1>2
       <2>2. j = Published(v)
             BY <1>4, <1>12, <2>1
       <2>3. QED
             BY <2>1, <2>2, PublishedTyped
<1>14. /\ DOMAIN ps = 1..(L + 1) /\ DOMAIN os = 1..(L + 1) /\ ps # <<>> /\ Latest' = L + 1
       /\ L + 1 \in 1..(L + 1) /\ Len(plans') = L + 1
       BY <1>2, <1>8, <1>9, <1>10, <1>11, LenProperties, EmptySeq DEF Latest
<1>15. UNCHANGED <<now, facts, wishes, events>>
       BY DEF Publishes
<1>16. TypeOK'
       BY <1>2, <1>5, <1>8, <1>9, <1>10, <1>11, <1>12, <1>13, <1>15 DEF TypeOK, Working
<1>17. Lineage'
       <2> SUFFICES ASSUME NEW v \in 1..(L + 1)
                    PROVE  RowKept(ps[v], v)'
           BY <1>8, <1>14 DEF Lineage
       <2>1. CASE v = L + 1
             BY <1>2, <1>8, <1>9, <1>14, <2>1 DEF RowKept
       <2>2. CASE v = L
             <3>1. RowKept(old, L)
                   BY <1>2, <1>5 DEF Lineage
             <3>2. sup.status \in TERMINAL /\ sup.status # "approved" /\ sup.status # "proposed"
                   BY <1>2 DEF TERMINAL
             <3>3. /\ sup.approver => sup.agreed = sup.asked
                   /\ IsFiniteSet(sup.allocations) /\ \A x \in sup.allocations : x.grant <= L
                   BY <1>2, <3>1 DEF RowKept
             <3>4. QED
                   BY <1>9, <2>2, <3>2, <3>3 DEF RowKept
       <2>3. CASE v < L
             <3>1. v \in 1..(L - 1) /\ v \in 1..Len(plans) /\ v < Latest
                   BY <1>2, <2>3
             <3>2. ps[v] = plans[v] /\ RowKept(plans[v], v)
                   BY <1>5, <1>9, <3>1 DEF Lineage
             <3>3. QED
                   BY <3>1, <3>2 DEF RowKept
       <2>4. v = L + 1 \/ v = L \/ v < L
             <3>1. L \in Nat /\ v \in 1..(L + 1)
                   BY <1>2
             <3>2. QED
                   BY <3>1
       <2>5. QED
             BY <2>1, <2>2, <2>3, <2>4, Zenon
<1>18. JobKept'
       <2>1. /\ plans' # <<>> /\ job'.plan = Latest' /\ plans'[Latest'].basis = job'.facts
             /\ plans'[Latest'].asked = wishes'
             BY <1>2, <1>8, <1>9, <1>12, <1>13, <1>14, <1>15
       <2>2. QED
             BY <2>1 DEF JobKept
<1>19. WorkersKnow'
       <2> SUFFICES ASSUME NEW x \in Workers
                    PROVE  Knows(work[x])'
           BY DEF WorkersKnow
       <2>1. CASE x = w
             <3>1. work'[x] = Idle
                   BY <2>1, Busy DEF Publishes, Leave
             <3>2. work'[x].pc = "idle" /\ work'[x].plan = 0
                   BY <3>1, IdleTyped
             <3>3. QED
                   BY <1>2, <1>14, <3>2 DEF Knows, Computing
       <2>2. CASE x # w
             <3>1. PICK k \in Work : k = work[x]
                   BY Busy
             <3>2. work'[x] = k /\ Knows(k)
                   BY <2>2, <3>1, Busy DEF Publishes, Leave
             <3>3. k.plan \in Nat /\ k.plan <= L
                   BY <1>2, <3>1, <3>2 DEF Knows, Work
             <3>4. k.plan <= Len(plans') /\ k.plan # Latest'
                   BY <1>2, <1>14, <3>3
             <3>5. job'.generation = job.generation
                   BY <1>12, <1>13
             <3>6. QED
                   BY <1>15, <3>2, <3>4, <3>5 DEF Knows, Computing
       <2>3. QED
             BY <2>1, <2>2
<1>20. BudgetKept'
       <2>1. usage' = Total(plans'[Latest'].allocations)
             BY <1>2, <1>8, <1>9, <1>14
       <2>2. ReservationsAccount'
             BY <2>1 DEF ReservationsAccount
       <2>3. ASSUME NEW v \in 1..(L + 1), Outstanding(os[v])
             PROVE  {y \in ps[v].allocations : y.t < os[v].stop} \subseteq r.allocations
             <3>1. CASE v = L + 1
                   BY <1>9, <3>1
             <3>2. CASE v # L + 1
                   <4>1. v \in 1..Len(plans) /\ os[v].stop = ops[v].stop /\ Outstanding(ops[v])
                         BY <1>2, <1>11, <2>3, <3>2
                   <4>2. ps[v].allocations = plans[v].allocations
                         BY <1>2, <1>9, <4>1
                   <4>3. {y \in plans[v].allocations : y.t < ops[v].stop} \subseteq old.allocations
                         <5>1. v \in DOMAIN plans
                               BY <4>1, <1>5, Numbers
                         <5>2. QED
                               BY <1>2, <4>1, <5>1 DEF Inv, BudgetKept, CommittedIsReserved, Outstanding
                   <4>4. QED
                         BY <1>3, <4>1, <4>2, <4>3
             <3>3. QED
                   BY <3>1, <3>2
       <2>4. plans'[Latest'].allocations = r.allocations
             BY <1>8, <1>9, <1>14
       <2>5. CommittedIsReserved'
             BY <1>8, <1>10, <1>14, <2>3, <2>4 DEF CommittedIsReserved, Outstanding, Attempted
       <2>6. QED
             BY <2>2, <2>5 DEF BudgetKept
<1>21. QED
       BY <1>16, <1>17, <1>18, <1>19, <1>20 DEF Inv

-----------------------------------------------------------------------------
(* Every step.                                                             *)

LEMMA InitKept == Init => Inv
<1> SUFFICES ASSUME Init PROVE Inv
    OBVIOUS
<1>1. /\ now = 0 /\ facts = 0 /\ wishes = 0 /\ usage = 0 /\ events = 0
      /\ plans = <<>> /\ ops = <<>> /\ job = NoJob
      /\ lock = Nobody /\ work = [w \in Workers |-> Idle]
      BY DEF Init
<1>2. NoJob \in Job /\ NoJob.state = "idle"
      <2>1. 0 \in 0..Horizon
            BY PlansAssumption
      <2>2. QED
            BY <2>1 DEF NoJob, Job
<1>3. \A w \in Workers : work[w] \in Work /\ work[w].pc = "idle" /\ work[w].plan = 0
      BY <1>1, IdleTyped
<1>4. plans \in Seq(PlanRow) /\ ops \in Seq(OpRow) /\ Len(plans) = 0 /\ Len(ops) = 0
      BY <1>1
<1>5. TypeOK
      BY <1>1, <1>2, <1>4, IdleTyped, PlansAssumption DEF TypeOK
<1>6. Lineage
      BY <1>4 DEF Lineage
<1>7. JobKept
      BY <1>1, <1>2, <1>3 DEF JobKept
<1>8. WorkersKnow
      BY <1>3, <1>4 DEF WorkersKnow, Knows, Computing
<1>9. BudgetKept
      BY <1>1, <1>4 DEF BudgetKept, ReservationsAccount, CommittedIsReserved
<1>10. QED
       BY <1>5, <1>6, <1>7, <1>8, <1>9 DEF Inv

\* A step records, approves or publishes a version, or changes none of them
\* but its status.
LEMMA StepIs ==
    ASSUME Inv, [Next]_vars
    PROVE  \/ Quiet /\ Working
           \/ Record
           \/ Approve
           \/ \E w \in Workers : Publishes(w) /\ Working
<1>1. CASE UNCHANGED vars
      <2>1. UNCHANGED <<now, facts, wishes, plans, ops, job, usage, lock, work, events>>
            BY <1>1 DEF vars
      <2>2. now \in 0..Horizon /\ events \in Nat /\ lock \in Workers \cup {Nobody}
            BY DEF Inv, TypeOK
      <2>3. QED
            BY <2>1, <2>2, QuietSame, WorkSame
<1>2. CASE Record
      BY <1>2
<1>3. CASE Approve
      BY <1>3
<1>4. CASE Cancel \/ Request \/ Update \/ Change \/ Read \/ Tick
      BY <1>4, HouseholdQuiet
<1>5. CASE \E v \in DOMAIN plans : Open(v) \/ Outcome(v) \/ Hold(v) \/ End(v) \/ Complete(v)
      BY <1>5, OpeningQuiet
<1>6. CASE \E w \in Workers : Step(w) \/ Ingest(w) \/ ReadsFail(w) \/ Crash(w)
      <2>1. PICK w \in Workers : Step(w) \/ Ingest(w) \/ ReadsFail(w) \/ Crash(w)
            BY <1>6
      <2>2. CASE Batch(w)
            BY <2>2, BatchQuiet
      <2>3. CASE Poll(w)
            BY <2>3, PollQuiet
      <2>4. CASE Unread(w)
            BY <2>4, UnreadQuiet
      <2>5. CASE List(w)
            BY <2>5, ListQuiet
      <2>6. CASE Start(w)
            BY <2>6, StartQuiet
      <2>7. CASE Compute(w)
            BY <2>7, ComputeQuiet
      <2>8. CASE Publish(w)
            BY <2>8, PublishQuiet
      <2>9. CASE Block(w)
            BY <2>9, BlockQuiet
      <2>10. CASE Ingest(w)
             BY <2>10, IngestQuiet
      <2>11. CASE ReadsFail(w)
             BY <2>11, ReadsFailQuiet
      <2>12. CASE Crash(w)
             BY <2>12, CrashQuiet
      <2>13. QED
             BY <2>1, <2>2, <2>3, <2>4, <2>5, <2>6, <2>7, <2>8, <2>9, <2>10, <2>11, <2>12 DEF Step
<1>7. QED
      BY <1>1, <1>2, <1>3, <1>4, <1>5, <1>6 DEF Next

LEMMA StepKeeps == Inv /\ [Next]_vars => Inv'
<1> SUFFICES ASSUME Inv, [Next]_vars PROVE Inv'
    OBVIOUS
<1>1. CASE Quiet /\ Working
      BY <1>1, QuietKeeps
<1>2. CASE Record
      BY <1>2, RecordKeeps
<1>3. CASE Approve
      BY <1>3, ApproveKeeps
<1>4. CASE \E w \in Workers : Publishes(w) /\ Working
      BY <1>4, PublishKeeps
<1>5. QED
      BY <1>1, <1>2, <1>3, <1>4, StepIs

LEMMA StepOpens ==
    ASSUME Inv, [Next]_vars, NEW v \in DOMAIN ops, ~Attempted(ops[v]), Attempted(ops'[v])
    PROVE  v = Latest /\ plans[v].basis = facts
<1>1. /\ DOMAIN ops = 1..Len(plans) /\ Len(ops) = Len(plans) /\ plans # <<>> /\ Len(plans) \in Nat
      BY Numbers DEF Inv
<1>2. CASE Quiet
      <2>1. ~OpsStay(ops, ops')
            BY <1>1 DEF OpsStay
      <2>2. Claims(ops')
            BY <1>2, <2>1 DEF Quiet
      <2>3. v = Latest /\ job.state = "idle" /\ job.facts = facts
            BY <1>1, <2>2 DEF Claims
      <2>4. QED
            BY <1>1, <2>3 DEF Inv, JobKept
<1>3. CASE Record
      BY <1>1, <1>3 DEF Record
<1>4. CASE Approve
      BY <1>4 DEF Approve
<1>5. CASE \E w \in Workers : Publishes(w)
      <2>1. PICK w \in Workers : Publishes(w)
            BY <1>5
      <2>2. PICK L, old, kept, e, n, r, sup, rows, q : Replaces(w, L, old, kept, e, n, r, sup, rows, q)
            BY <2>1, PublishesIs
      <2>3. rows \in Seq(OpRow) /\ OpsStay(ops, rows) /\ q \in OpRow
            BY <2>1, <2>2, ReplacesRows
      <2>4. ops' = Append(rows, q)
            BY <2>2, Zenon DEF Replaces
      <2>5. v \in 1..Len(rows)
            BY <1>1, <2>3 DEF OpsStay
      <2>6. PICK t : t = ops'
            OBVIOUS
      <2>7. t[v] = rows[v]
            BY <2>3, <2>4, <2>5, <2>6, AppendProperties
      <2>8. Attempted(rows[v])
            BY <2>6, <2>7 DEF Attempted
      <2>9. QED
            BY <1>1, <2>3, <2>8 DEF OpsStay
<1>6. QED
      BY <1>2, <1>3, <1>4, <1>5, StepIs

-----------------------------------------------------------------------------
(* The theorems.                                                           *)

\* In every reachable state the rows of the lineage, the job, what each worker
\* still holds in memory and the reservation agree (plans.py, refresh.py,
\* refresh_worker.py:255-545).
THEOREM Invariant == Spec => []Inv
<1>1. Init => Inv
      BY InitKept
<1>2. Inv /\ [Next]_vars => Inv'
      BY StepKeeps
<1>3. QED
      BY <1>1, <1>2, PTL DEF Spec

\* The rows, the job and the workers' memory keep their types.
THEOREM TypeCorrect == Spec => []TypeOK
<1>1. Inv => TypeOK
      BY DEF Inv
<1>2. QED
      BY <1>1, Invariant, PTL

\* The reservation is what the current version holds, and until an opening is
\* known to have ended the current version holds what its intervals cost, for
\* any number of replacements computed from rows read earlier (budget.py:55,
\* refresh_worker.py:395).
THEOREM BudgetIsKept == Spec => []BudgetKept
<1>1. Inv => BudgetKept
      BY DEF Inv
<1>2. QED
      BY <1>1, Invariant, PTL

\* A version in force answers only the requests a member's consent covers,
\* although replacements inherit consent (plans.py:687, refresh_worker.py:545).
THEOREM ConsentIsAsked == Spec => []ExplicitNeedsConsent
<1>1. Inv => ExplicitNeedsConsent
      BY Numbers DEF Inv, Lineage, RowKept, ExplicitNeedsConsent
<1>2. QED
      BY <1>1, Invariant, PTL

\* An opening is claimed only under the last version, computed from the facts
\* of that moment (plans.py:91).
THEOREM OpensOnCurrentFacts == Spec => OpenedOnCurrentFacts
<1>1. Inv /\ [Next]_vars =>
        [\A v \in DOMAIN ops :
            ~Attempted(ops[v]) /\ Attempted(ops'[v]) => v = Latest /\ plans[v].basis = facts]_vars
      BY StepOpens
<1>2. QED
      BY <1>1, Invariant, PTL DEF Spec, OpenedOnCurrentFacts
=============================================================================
