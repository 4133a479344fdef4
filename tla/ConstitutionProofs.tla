------------------------ MODULE ConstitutionProofs ------------------------
(***************************************************************************)
(* What a household's constitution keeps, for every policy, every request  *)
(* and every set of facts (Rules), and for every set of households,        *)
(* candidates and drafts (Publication).                                    *)
(*                                                                         *)
(* Rules: the evaluator and the compiled statements agree.  Both compute a *)
(* condition node by node, so one induction over the nodes shows that they *)
(* give the same value to what is known, and that what is unknown to one   *)
(* is unknown to the other.  From there each part of a statement agrees    *)
(* with a part of the evaluator, and no statement a request meets is ever  *)
(* in error.                                                               *)
(*                                                                         *)
(* Publication: AWS holds exactly the rules in force whenever boundary     *)
(* checks rely on it, and a policy is replaced only by what its owner      *)
(* reviewed against it.  The argument follows the engine row.  While no    *)
(* publication holds it, nothing touches the remote statements and they    *)
(* are the recorded inventory; the one that holds it is the worker's job;  *)
(* and the inventory moves on only with the version in force.              *)
(***************************************************************************)
EXTENDS Rules, Publication, FiniteSetTheorems, TLAPS

-----------------------------------------------------------------------------
(* Sequences of values, read from the left.                                *)

\* What every position has if its predecessors have it, all have.
LEMMA Climb ==
    ASSUME NEW n \in Nat, NEW G,
           \A i \in 1..n : (\A j \in 1..(i - 1) : j \in G) => i \in G
    PROVE  \A i \in 1..n : i \in G
<1> DEFINE T == {1..i : i \in {k \in 1..n : k \notin G}}
<1> SUFFICES ASSUME T # {} PROVE FALSE
    OBVIOUS
<1>1. IsWellFoundedOn(StrictSubsetOrdering(1..n), FiniteSubsetsOf(1..n))
      BY FS_StrictSubsetOrderingWellFounded
<1>2. T \subseteq FiniteSubsetsOf(1..n)
      <2>1. FiniteSubsetsOf(1..n) = SUBSET (1..n)
            <3>1. IsFiniteSet(1..n)
                  BY FS_Interval
            <3>2. QED
                  BY <3>1, FS_FiniteSubsetsOfFinite
      <2>2. QED
            BY <2>1
<1>3. PICK m \in T : \A y \in T : ~(<<y, m>> \in StrictSubsetOrdering(1..n))
      <2> HIDE DEF T
      <2>1. QED
            BY <1>1, <1>2, WFMin
<1>4. PICK k \in 1..n : k \notin G /\ m = 1..k
      OBVIOUS
<1>5. ASSUME NEW j \in 1..(k - 1), j \notin G PROVE FALSE
      <2>1. 1..j \in T /\ 1..j \in SUBSET (1..n) /\ 1..j \subseteq 1..k /\ 1..j # 1..k
            BY <1>5
      <2>2. <<1..j, m>> \in StrictSubsetOrdering(1..n)
            BY <2>1, <1>4 DEF StrictSubsetOrdering
      <2>3. QED
            BY <2>1, <2>2, <1>3
<1>6. QED
      BY <1>4, <1>5

\* A function on the first numbers is a sequence of that length.
LEMMA TableFacts ==
    ASSUME NEW S, NEW n \in Nat, NEW s \in [1..n -> S]
    PROVE  s \in Seq(S) /\ Len(s) = n /\ DOMAIN s = 1..n
OBVIOUS

\* FirstOther finds the first position that differs, if there is one.
LEMMA FirstOtherFacts ==
    ASSUME NEW S, NEW s \in Seq(S), NEW value
    PROVE  /\ FirstOther(s, value) \in 1..(Len(s) + 1)
           /\ FirstOther(s, value) <= Len(s) => s[FirstOther(s, value)] # value
           /\ \A j \in 1..(FirstOther(s, value) - 1) : s[j] = value
<1> DEFINE Here(i) == /\ i <= Len(s) => s[i] # value
                      /\ \A j \in 1..(i - 1) : s[j] = value
           G == {i \in 1..Len(s) : s[i] = value}
<1>1. \E i \in 1..(Len(s) + 1) : Here(i)
      <2>1. CASE \A i \in 1..Len(s) : i \in G
            <3>1. Len(s) + 1 \in 1..(Len(s) + 1) /\ Here(Len(s) + 1)
                  BY <2>1
            <3>2. QED
                  BY <3>1
      <2>2. CASE \E i \in 1..Len(s) : i \notin G
            <3>1. \E i \in 1..Len(s) : (\A j \in 1..(i - 1) : j \in G) /\ i \notin G
                  <4>1. Len(s) \in Nat
                        OBVIOUS
                  <4> HIDE DEF G
                  <4>2. QED
                        BY <2>2, <4>1, Climb
            <3>2. QED
                  BY <3>1
      <2>3. QED
            BY <2>1, <2>2
<1>2. FirstOther(s, value) = CHOOSE i \in 1..(Len(s) + 1) : Here(i)
      BY DEF FirstOther
<1>3. FirstOther(s, value) \in 1..(Len(s) + 1) /\ Here(FirstOther(s, value))
      <2> HIDE DEF Here
      <2>1. QED
            BY <1>1, <1>2
<1>4. QED
      BY <1>3

\* A conjunction is true if all of it is, and what it is otherwise something in it is,
\* before which all is true.
LEMMA ConjunctionFacts ==
    ASSUME NEW S, NEW s \in Seq(S)
    PROVE  /\ conjunction(s) = "true" <=> \A i \in 1..Len(s) : s[i] = "true"
           /\ conjunction(s) # "true" =>
                 \E i \in 1..Len(s) : /\ conjunction(s) = s[i]
                                      /\ \A j \in 1..(i - 1) : s[j] = "true"
BY FirstOtherFacts DEF conjunction, Settled

LEMMA DisjunctionFacts ==
    ASSUME NEW S, NEW s \in Seq(S)
    PROVE  /\ disjunction(s) = "false" <=> \A i \in 1..Len(s) : s[i] = "false"
           /\ disjunction(s) # "false" =>
                 \E i \in 1..Len(s) : /\ disjunction(s) = s[i]
                                      /\ \A j \in 1..(i - 1) : s[j] = "false"
BY FirstOtherFacts DEF disjunction, Settled

\* A conjunction written out: the first operand that is not true, or the last.
LEMMA TripleFacts ==
    ASSUME NEW a, NEW b, NEW c
    PROVE  conjunction(<<a, b, c>>) = IF a # "true" THEN a ELSE IF b # "true" THEN b ELSE c
<1> DEFINE s == <<a, b, c>>
<1>1. /\ s \in Seq({a, b, c}) /\ Len(s) = 3
      /\ s[1] = a /\ s[2] = b /\ s[3] = c
      OBVIOUS
<1> HIDE DEF s
<1>2. /\ conjunction(s) = "true" <=> \A i \in 1..3 : s[i] = "true"
      /\ conjunction(s) # "true" => \E i \in 1..3 : /\ conjunction(s) = s[i]
                                                    /\ \A j \in 1..(i - 1) : s[j] = "true"
      BY <1>1, ConjunctionFacts
<1>3. \A i \in 1..3 : i = 1 \/ i = 2 \/ i = 3
      OBVIOUS
<1>4. CASE conjunction(s) = "true"
      BY <1>1, <1>2, <1>4 DEF s
<1>5. CASE conjunction(s) # "true"
      <2>1. PICK i \in 1..3 : conjunction(s) = s[i] /\ \A j \in 1..(i - 1) : s[j] = "true"
            BY <1>2, <1>5
      <2>2. QED
            BY <1>1, <1>3, <1>5, <2>1 DEF s
<1>6. QED
      BY <1>4, <1>5

LEMMA QuadrupleFacts ==
    ASSUME NEW a, NEW b, NEW c, NEW d
    PROVE  conjunction(<<a, b, c, d>>) = IF a # "true" THEN a ELSE IF b # "true" THEN b ELSE IF c # "true" THEN c ELSE d
<1> DEFINE s == <<a, b, c, d>>
<1>1. /\ s \in Seq({a, b, c, d}) /\ Len(s) = 4
      /\ s[1] = a /\ s[2] = b /\ s[3] = c /\ s[4] = d
      OBVIOUS
<1> HIDE DEF s
<1>2. /\ conjunction(s) = "true" <=> \A i \in 1..4 : s[i] = "true"
      /\ conjunction(s) # "true" => \E i \in 1..4 : /\ conjunction(s) = s[i]
                                                    /\ \A j \in 1..(i - 1) : s[j] = "true"
      BY <1>1, ConjunctionFacts
<1>3. \A i \in 1..4 : i = 1 \/ i = 2 \/ i = 3 \/ i = 4
      OBVIOUS
<1>4. CASE conjunction(s) = "true"
      BY <1>1, <1>2, <1>4 DEF s
<1>5. CASE conjunction(s) # "true"
      <2>1. PICK i \in 1..4 : conjunction(s) = s[i] /\ \A j \in 1..(i - 1) : s[j] = "true"
            BY <1>2, <1>5
      <2>2. QED
            BY <1>1, <1>3, <1>5, <2>1 DEF s
<1>6. QED
      BY <1>4, <1>5

LEMMA QuintupleFacts ==
    ASSUME NEW a, NEW b, NEW c, NEW d, NEW e
    PROVE  conjunction(<<a, b, c, d, e>>) = IF a # "true" THEN a ELSE IF b # "true" THEN b ELSE IF c # "true" THEN c ELSE IF d # "true" THEN d ELSE e
<1> DEFINE s == <<a, b, c, d, e>>
<1>1. /\ s \in Seq({a, b, c, d, e}) /\ Len(s) = 5
      /\ s[1] = a /\ s[2] = b /\ s[3] = c /\ s[4] = d /\ s[5] = e
      OBVIOUS
<1> HIDE DEF s
<1>2. /\ conjunction(s) = "true" <=> \A i \in 1..5 : s[i] = "true"
      /\ conjunction(s) # "true" => \E i \in 1..5 : /\ conjunction(s) = s[i]
                                                    /\ \A j \in 1..(i - 1) : s[j] = "true"
      BY <1>1, ConjunctionFacts
<1>3. \A i \in 1..5 : i = 1 \/ i = 2 \/ i = 3 \/ i = 4 \/ i = 5
      OBVIOUS
<1>4. CASE conjunction(s) = "true"
      BY <1>1, <1>2, <1>4 DEF s
<1>5. CASE conjunction(s) # "true"
      <2>1. PICK i \in 1..5 : conjunction(s) = s[i] /\ \A j \in 1..(i - 1) : s[j] = "true"
            BY <1>2, <1>5
      <2>2. QED
            BY <1>1, <1>3, <1>5, <2>1 DEF s
<1>6. QED
      BY <1>4, <1>5

\* F computes each value from the ones before it; g follows F.
Before(g, i) == [j \in 1..(i - 1) |-> g[j]]
Steps(F, n, V) == \A i \in 1..n : F[i] \in [[1..(i - 1) -> V] -> V]
Follows(g, F, n) == \A i \in 1..n : g[i] = F[i][Before(g, i)]

\* A value defined from the ones before it is defined at every position.
LEMMA Recursion ==
    ASSUME NEW V, NEW n \in Nat, NEW F, Steps(F, n, V)
    PROVE  \E g \in [1..n -> V] : Follows(g, F, n)
<1> USE DEF Steps, Follows
<1> DEFINE Solves(g, k) == Follows(g, F, k)
           G == {k \in 0..n : \E g \in [1..k -> V] : Solves(g, k)}
<1>1. 0 \in G
      <2>1. [i \in 1..0 |-> n] \in [1..0 -> V] /\ Solves([i \in 1..0 |-> n], 0)
            OBVIOUS
      <2>2. 0 \in 0..n
            OBVIOUS
      <2> HIDE DEF Solves
      <2>3. QED
            BY <2>1, <2>2
<1>2. ASSUME NEW k \in 1..n, k - 1 \in G PROVE k \in G
      <2>1. PICK g \in [1..(k - 1) -> V] : Solves(g, k - 1)
            BY <1>2
      <2> DEFINE h == [i \in 1..k |-> IF i < k THEN g[i] ELSE F[k][g]]
      <2>2. F[k][g] \in V
            BY <2>1
      <2>3. h \in [1..k -> V]
            BY <2>2
      <2>4. ASSUME NEW i \in 1..k PROVE h[i] = F[i][Before(h, i)]
            <3>1. Before(h, i) = Before(g, i)
                  BY DEF Before
            <3>2. CASE i < k
                  <4>1. i \in 1..(k - 1) /\ h[i] = g[i]
                        BY <3>2
                  <4>2. g[i] = F[i][Before(g, i)]
                        BY <2>1, <4>1
                  <4>3. QED
                        BY <3>1, <4>1, <4>2
            <3>3. CASE i = k
                  <4>1. g = Before(g, i)
                        BY <3>3 DEF Before
                  <4>2. h[i] = F[i][g]
                        BY <3>3
                  <4>3. QED
                        BY <3>1, <4>1, <4>2
            <3>4. QED
                  BY <3>2, <3>3
      <2>5. Solves(h, k)
            BY <2>4
      <2> HIDE DEF h, Solves
      <2>6. QED
            BY <2>3, <2>5
<1>3. \A k \in 1..n : (\A j \in 1..(k - 1) : j \in G) => k \in G
      <2> HIDE DEF G
      <2> SUFFICES ASSUME NEW k \in 1..n, \A j \in 1..(k - 1) : j \in G PROVE k \in G
          OBVIOUS
      <2>1. k - 1 \in G
            BY <1>1
      <2>2. QED
            BY <2>1, <1>2
<1>4. n \in G
      <2> HIDE DEF G
      <2>1. \A k \in 1..n : k \in G
            BY <1>3, Climb
      <2>2. QED
            BY <1>1, <2>1
<1>5. QED
      BY <1>4

-----------------------------------------------------------------------------
(* What the evaluator and what Cedar make of the nodes of a condition.     *)

Values == {"true", "false", "error"}

LEMMA ValuesFacts ==
    /\ \A b : Bool(b) \in {"true", "false"}
    /\ \A m, f : predicate(m, f) \in Values
BY DEF Bool, predicate, Values

\* A node depends on the ones before it only.
LEMMA NodeLocal ==
    ASSUME NEW c, Condition(c), NEW i \in DOMAIN c, NEW g, NEW facts
    PROVE  /\ node_value(c[i], g, facts) \in Values
           /\ node_value(c[i], Before(g, i), facts) = node_value(c[i], g, facts)
<1>1. node_value(c[i], g, facts) \in Values
      BY ValuesFacts DEF node_value, Values
<1>2. node_value(c[i], Before(g, i), facts) = node_value(c[i], g, facts)
      BY DEF node_value, Condition, Before
<1>3. QED
      BY <1>1, <1>2

LEMMA RunFacts ==
    ASSUME NEW c, Condition(c), NEW facts
    PROVE  /\ run(c, facts) \in [DOMAIN c -> Values]
           /\ \A i \in DOMAIN c : run(c, facts)[i] = node_value(c[i], run(c, facts), facts)
<1> DEFINE n == Len(c)
           F == [i \in 1..n |-> [h \in [1..(i - 1) -> Values] |-> node_value(c[i], h, facts)]]
<1>1. n \in Nat /\ DOMAIN c = 1..n
      BY DEF Condition
<1>2. PICK g \in [1..n -> Values] : Follows(g, F, n)
      <2>1. Steps(F, n, Values)
            BY <1>1, NodeLocal DEF Steps
      <2>2. n \in Nat
            BY <1>1
      <2> HIDE DEF F, n
      <2>3. QED
            BY <2>1, <2>2, Recursion
<1>3. ASSUME NEW i \in 1..n PROVE g[i] = node_value(c[i], g, facts)
      <2>1. Before(g, i) \in [1..(i - 1) -> Values]
            BY <1>1 DEF Before
      <2>2. g[i] = node_value(c[i], Before(g, i), facts)
            BY <1>2, <2>1 DEF Follows
      <2>3. QED
            BY <1>1, <2>2, NodeLocal
<1>4. g = [i \in DOMAIN c |-> node_value(c[i], g, facts)]
      BY <1>1, <1>2, <1>3
<1>5. run(c, facts) = CHOOSE v : v = [i \in DOMAIN c |-> node_value(c[i], v, facts)]
      BY DEF run
<1>6. run(c, facts) = [i \in DOMAIN c |-> node_value(c[i], run(c, facts), facts)]
      BY <1>4, <1>5
<1>7. \A i \in DOMAIN c : node_value(c[i], run(c, facts), facts) \in Values
      BY NodeLocal
<1>8. QED
      BY <1>6, <1>7

LEMMA PairFacts ==
    ASSUME NEW a, NEW b
    PROVE  /\ conjunction(<<a, b>>) = IF a = "true" THEN b ELSE a
           /\ disjunction(<<a, b>>) = IF a = "false" THEN b ELSE a
<1> DEFINE s == <<a, b>>
<1>1. s \in Seq({a, b}) /\ Len(s) = 2 /\ s[1] = a /\ s[2] = b
      OBVIOUS
<1> HIDE DEF s
<1>2. /\ conjunction(s) = "true" <=> a = "true" /\ b = "true"
      /\ conjunction(s) # "true" => conjunction(s) = a \/ (a = "true" /\ conjunction(s) = b)
      <2>1. /\ conjunction(s) = "true" <=> \A i \in 1..2 : s[i] = "true"
            /\ conjunction(s) # "true" => \E i \in 1..2 : /\ conjunction(s) = s[i]
                                                          /\ \A j \in 1..(i - 1) : s[j] = "true"
            BY <1>1, ConjunctionFacts
      <2>2. 1 \in 1..2 /\ 2 \in 1..2 /\ 1 \in 1..(2 - 1) /\ \A i \in 1..2 : i = 1 \/ i = 2
            OBVIOUS
      <2>3. conjunction(s) = "true" <=> a = "true" /\ b = "true"
            BY <2>1, <2>2, <1>1
      <2>4. ASSUME conjunction(s) # "true"
            PROVE  conjunction(s) = a \/ (a = "true" /\ conjunction(s) = b)
            <3>1. PICK i \in 1..2 : conjunction(s) = s[i] /\ \A j \in 1..(i - 1) : s[j] = "true"
                  BY <2>1, <2>4
            <3>2. i = 1 \/ i = 2
                  BY <2>2
            <3>3. QED
                  BY <3>1, <3>2, <2>2, <1>1
      <2>5. QED
            BY <2>3, <2>4
<1>3. /\ disjunction(s) = "false" <=> a = "false" /\ b = "false"
      /\ disjunction(s) # "false" => disjunction(s) = a \/ (a = "false" /\ disjunction(s) = b)
      <2>1. /\ disjunction(s) = "false" <=> \A i \in 1..2 : s[i] = "false"
            /\ disjunction(s) # "false" => \E i \in 1..2 : /\ disjunction(s) = s[i]
                                                           /\ \A j \in 1..(i - 1) : s[j] = "false"
            BY <1>1, DisjunctionFacts
      <2>2. 1 \in 1..2 /\ 2 \in 1..2 /\ 1 \in 1..(2 - 1) /\ \A i \in 1..2 : i = 1 \/ i = 2
            OBVIOUS
      <2>3. disjunction(s) = "false" <=> a = "false" /\ b = "false"
            BY <2>1, <2>2, <1>1
      <2>4. ASSUME disjunction(s) # "false"
            PROVE  disjunction(s) = a \/ (a = "false" /\ disjunction(s) = b)
            <3>1. PICK i \in 1..2 : disjunction(s) = s[i] /\ \A j \in 1..(i - 1) : s[j] = "false"
                  BY <2>1, <2>4
            <3>2. i = 1 \/ i = 2
                  BY <2>2
            <3>3. QED
                  BY <3>1, <3>2, <2>2, <1>1
      <2>5. QED
            BY <2>3, <2>4
<1>4. QED
      BY <1>2, <1>3 DEF s

LEMMA ExpressionLocal ==
    ASSUME NEW c, Condition(c), NEW i \in DOMAIN c, NEW facts
    PROVE  /\ \A g \in [1..(i - 1) -> Values] :
                  node_expression(c[i], g, boundary_input(facts)) \in Values
           /\ \A g : node_expression(c[i], Before(g, i), boundary_input(facts))
                        = node_expression(c[i], g, boundary_input(facts))
<1>1. ASSUME NEW g \in [1..(i - 1) -> Values]
      PROVE  node_expression(c[i], g, boundary_input(facts)) \in Values
      <2>1. \A m \in DOMAIN boundary_input(facts).calls : boundary_input(facts).calls[m] \in Values
            BY ValuesFacts DEF boundary_input
      <2>2. c[i].kind \in {"and", "or", "not"} => g[c[i].left] \in Values
            BY DEF Condition
      <2>3. c[i].kind \in {"and", "or"} => g[c[i].right] \in Values
            BY DEF Condition
      <2>4. QED
            BY <2>1, <2>2, <2>3, PairFacts, ValuesFacts DEF node_expression, Not, Values
<1>2. ASSUME NEW g
      PROVE  node_expression(c[i], Before(g, i), boundary_input(facts))
                = node_expression(c[i], g, boundary_input(facts))
      BY DEF node_expression, Condition, Before
<1>3. QED
      BY <1>1, <1>2

LEMMA ExpressionFacts ==
    ASSUME NEW c, Condition(c), NEW facts
    PROVE  LET e == expressions(c, boundary_input(facts)) IN
           /\ e \in [DOMAIN c -> Values]
           /\ \A i \in DOMAIN c : e[i] = node_expression(c[i], e, boundary_input(facts))
<1> DEFINE n == Len(c)
           input == boundary_input(facts)
           e == expressions(c, input)
           F == [i \in 1..n |-> [h \in [1..(i - 1) -> Values] |-> node_expression(c[i], h, input)]]
<1>1. n \in Nat /\ DOMAIN c = 1..n
      BY DEF Condition
<1>2. PICK g \in [1..n -> Values] : Follows(g, F, n)
      <2>1. Steps(F, n, Values)
            BY <1>1, ExpressionLocal DEF Steps
      <2>2. n \in Nat
            BY <1>1
      <2> HIDE DEF F, n
      <2>3. QED
            BY <2>1, <2>2, Recursion
<1>3. ASSUME NEW i \in 1..n PROVE g[i] = node_expression(c[i], g, input)
      <2>1. Before(g, i) \in [1..(i - 1) -> Values]
            BY <1>1 DEF Before
      <2>2. g[i] = node_expression(c[i], Before(g, i), input)
            BY <1>2, <2>1 DEF Follows
      <2>3. QED
            BY <1>1, <2>2, ExpressionLocal
<1>4. g = [i \in DOMAIN c |-> node_expression(c[i], g, input)]
      BY <1>1, <1>2, <1>3
<1>5. e = CHOOSE v : v = [i \in DOMAIN c |-> node_expression(c[i], v, input)]
      BY DEF expressions
<1>6. e = [i \in DOMAIN c |-> node_expression(c[i], e, input)]
      BY <1>4, <1>5
<1>7. \A i \in DOMAIN c : node_expression(c[i], e, input) \in Values
      <2> SUFFICES ASSUME NEW i \in DOMAIN c PROVE node_expression(c[i], e, input) \in Values
          OBVIOUS
      <2>1. ASSUME NEW j \in DOMAIN c, \A k \in 1..(j - 1) : e[k] \in Values
            PROVE  e[j] \in Values
            <3>1. Before(e, j) \in [1..(j - 1) -> Values]
                  BY <2>1 DEF Before
            <3>2. node_expression(c[j], Before(e, j), input) \in Values
                  BY <3>1, ExpressionLocal
            <3>3. node_expression(c[j], e, input) \in Values
                  BY <3>2, ExpressionLocal
            <3>4. e[j] = node_expression(c[j], e, input)
                  BY <1>6
            <3> HIDE DEF e, input
            <3>5. QED
                  BY <3>3, <3>4
      <2> DEFINE G == {j \in 1..n : e[j] \in Values}
      <2>2. \A j \in 1..n : (\A k \in 1..(j - 1) : k \in G) => j \in G
            <3> HIDE DEF e
            <3>1. QED
                  BY <2>1, <1>1
      <2>3. \A j \in 1..n : j \in G
            <3> HIDE DEF G, n
            <3>1. QED
                  BY <2>2, <1>1, Climb
      <2>4. e[i] \in Values
            BY <2>3, <1>1
      <2>5. e[i] = node_expression(c[i], e, input)
            BY <1>6
      <2> HIDE DEF e, input
      <2>6. QED
            BY <2>4, <2>5
<1> HIDE DEF e, input
<1>8. e \in [DOMAIN c -> Values] /\ \A i \in DOMAIN c : e[i] = node_expression(c[i], e, input)
      BY <1>6, <1>7
<1>9. QED
      BY <1>8 DEF e, input

\* What the parser gives of a node.
LEMMA NodeFacts ==
    ASSUME NEW c, Condition(c), NEW i \in DOMAIN c
    PROVE  /\ c[i].kind \in Kinds
           /\ c[i].kind \in {"and", "or", "not"} => c[i].left \in 1..(i - 1)
           /\ c[i].kind \in {"and", "or"} => c[i].right \in 1..(i - 1)
           /\ c[i].kind \in {"set", "unset"} \cup Comparisons => c[i].attr \in Attributes
<1>1. c \in Seq(Node)
      BY DEF Condition
<1>2. c[i] \in Node
      <2> HIDE DEF Node
      <2>1. QED
            BY <1>1
<1>3. c[i].kind \in Kinds
      BY <1>2 DEF Node
<1>4. QED
      BY <1>3 DEF Condition

\* What the inputs of the boundary answer is what the evaluator can resolve.
LEMMA LeafAgrees ==
    ASSUME NEW c, Condition(c), NEW facts \in Facts, NEW i \in DOMAIN c
    PROVE  answered(c[i], boundary_input(facts)) <=> i \notin unresolved(c, facts)
<1> DEFINE input == boundary_input(facts)
<1>1. /\ c[i].kind \in Kinds
      /\ c[i].kind \in {"set", "unset"} \cup Comparisons => c[i].attr \in Attributes
      BY NodeFacts
<1>2. \A a \in Attributes : /\ has(input, a) <=> facts[a] \notin {Absent, Null}
                            /\ a \in input.nulls <=> facts[a] = Null
      BY DEF boundary_input, has
<1>3. \A m : m \in DOMAIN input.calls <=> predicate(m, facts) # "error"
      BY DEF boundary_input, predicate
<1> HIDE DEF input
<1>4. CASE c[i].kind \in {"and", "or", "not"}
      BY <1>4 DEF answered, unresolved, Comparisons
<1>5. CASE c[i].kind \in {"set", "unset"}
      BY <1>1, <1>2, <1>5 DEF answered, unresolved, Comparisons, input, Absent, Null
<1>6. CASE c[i].kind = "call"
      BY <1>3, <1>6 DEF answered, unresolved, Comparisons, input
<1>7. CASE c[i].kind \in Comparisons
      BY <1>1, <1>2, <1>7 DEF answered, unresolved, Comparisons, input
<1>8. QED
      BY <1>1, <1>4, <1>5, <1>6, <1>7 DEF Kinds

LEMMA KnownFacts ==
    ASSUME NEW c, Condition(c), NEW facts \in Facts
    PROVE  known(c, boundary_input(facts)) <=> unresolved(c, facts) = {}
<1>1. unresolved(c, facts) \subseteq DOMAIN c
      BY DEF unresolved
<1>2. QED
      BY <1>1, LeafAgrees DEF known

\* A node all of whose facts are known is true or false, and the same to both.
LEMMA NodeAgrees ==
    ASSUME NEW c, Condition(c), NEW facts \in Facts, unresolved(c, facts) = {},
           NEW i \in DOMAIN c, NEW e, NEW v,
           \A j \in 1..(i - 1) : e[j] = v[j] /\ v[j] \in {"true", "false"}
    PROVE  /\ node_value(c[i], v, facts) \in {"true", "false"}
           /\ node_expression(c[i], e, boundary_input(facts)) = node_value(c[i], v, facts)
<1> DEFINE input == boundary_input(facts)
<1>1. /\ c[i].kind \in Kinds
      /\ c[i].kind \in {"and", "or", "not"} => c[i].left \in 1..(i - 1)
      /\ c[i].kind \in {"and", "or"} => c[i].right \in 1..(i - 1)
      /\ c[i].kind \in {"set", "unset"} \cup Comparisons => c[i].attr \in Attributes
      BY NodeFacts
<1>2. \A a \in Attributes : /\ has(input, a) <=> facts[a] \notin {Absent, Null}
                            /\ has(input, a) => input.f[a] = facts[a]
                            /\ a \in input.nulls <=> facts[a] = Null
      BY DEF boundary_input, has
<1>3. \A m : /\ m \in DOMAIN input.calls <=> predicate(m, facts) # "error"
             /\ m \in DOMAIN input.calls => input.calls[m] = predicate(m, facts)
      BY DEF boundary_input, predicate
<1>4. i \notin unresolved(c, facts)
      OBVIOUS
<1> HIDE DEF input
<1>5. CASE c[i].kind \in {"and", "or"}
      <2>1. /\ e[c[i].left] = v[c[i].left] /\ v[c[i].left] \in {"true", "false"}
            /\ e[c[i].right] = v[c[i].right] /\ v[c[i].right] \in {"true", "false"}
            BY <1>1, <1>5
      <2>2. QED
            BY <1>5, <2>1, PairFacts DEF node_value, node_expression, Bool
<1>6. CASE c[i].kind = "not"
      <2>1. e[c[i].left] = v[c[i].left] /\ v[c[i].left] \in {"true", "false"}
            BY <1>1, <1>6
      <2>2. QED
            BY <1>6, <2>1 DEF node_value, node_expression, Bool, Not
<1>7. CASE c[i].kind \in {"set", "unset"}
      BY <1>1, <1>2, <1>7 DEF node_value, node_expression, Bool, input
<1>8. CASE c[i].kind = "call"
      <2>1. predicate(c[i].args[1], facts) # "error"
            BY <1>4, <1>8 DEF unresolved
      <2>2. predicate(c[i].args[1], facts) \in {"true", "false"}
            BY <2>1, ValuesFacts DEF Values
      <2>3. QED
            BY <1>3, <1>8, <2>1, <2>2 DEF node_value, node_expression, input
<1>9. CASE c[i].kind \in Comparisons
      <2>1. facts[c[i].attr] \notin {Absent, Null}
            BY <1>4, <1>9 DEF unresolved
      <2>2. has(input, c[i].attr) /\ input.f[c[i].attr] = facts[c[i].attr]
            BY <1>1, <1>2, <1>9, <2>1
      <2>3. /\ node_value(c[i], v, facts) = Bool(compare(facts[c[i].attr], c[i].kind, c[i].args))
            /\ node_expression(c[i], e, input) =
                    Bool(compare(input.f[c[i].attr], c[i].kind, c[i].args))
            BY <1>9, <2>2 DEF node_value, node_expression, Comparisons
      <2>4. QED
            BY <2>2, <2>3, ValuesFacts DEF input
<1>10. QED
      BY <1>1, <1>5, <1>6, <1>7, <1>8, <1>9 DEF Kinds

\* A condition: unknown to one is an error to the other, known it is the same to both.
LEMMA ConditionAgrees ==
    ASSUME NEW c, Condition(c), NEW facts \in Facts
    PROVE  /\ evaluate(c, facts) \in Values
           /\ known(c, boundary_input(facts)) <=> evaluate(c, facts) # "error"
           /\ known(c, boundary_input(facts)) =>
                 expression(c, boundary_input(facts)) = evaluate(c, facts)
<1> DEFINE e == expressions(c, boundary_input(facts))
           v == run(c, facts)
<1>1. /\ e \in [DOMAIN c -> Values]
      /\ \A i \in DOMAIN c : e[i] = node_expression(c[i], e, boundary_input(facts))
      BY ExpressionFacts
<1>2. v \in [DOMAIN c -> Values] /\ \A i \in DOMAIN c : v[i] = node_value(c[i], v, facts)
      BY RunFacts
<1>3. DOMAIN c = 1..Len(c) /\ Len(c) \in Nat /\ Len(c) \in DOMAIN c
      BY DEF Condition, Invalid
<1>4. known(c, boundary_input(facts)) <=> unresolved(c, facts) = {}
      BY KnownFacts
<1>5. ASSUME unresolved(c, facts) = {}
      PROVE  e[Len(c)] = v[Len(c)] /\ v[Len(c)] \in {"true", "false"}
      <2> DEFINE G == {i \in DOMAIN c : e[i] = v[i] /\ v[i] \in {"true", "false"}}
      <2>1. ASSUME NEW i \in 1..Len(c), \A j \in 1..(i - 1) : j \in G PROVE i \in G
            <3> HIDE DEF e, v
            <3>1. \A j \in 1..(i - 1) : e[j] = v[j] /\ v[j] \in {"true", "false"}
                  BY <2>1
            <3>2. i \in DOMAIN c
                  BY <1>3
            <3>3. /\ node_value(c[i], v, facts) \in {"true", "false"}
                  /\ node_expression(c[i], e, boundary_input(facts)) = node_value(c[i], v, facts)
                  BY <1>5, <3>1, <3>2, NodeAgrees
            <3>4. QED
                  BY <1>1, <1>2, <3>2, <3>3
      <2>2. \A i \in 1..Len(c) : i \in G
            <3> HIDE DEF G
            <3>1. QED
                  BY <2>1, <1>3, Climb
      <2>3. QED
            BY <2>2, <1>3
<1> HIDE DEF e, v
<1>6. QED
      BY <1>3, <1>4, <1>5 DEF evaluate, expression, Values, e, v

\* A condition whose facts are known keeps its value when others become known.
Extends(f, facts) == \A a \in Attributes : facts[a] # Absent => f[a] = facts[a]

LEMMA ConditionStable ==
    ASSUME NEW c, Condition(c), NEW facts \in Facts, NEW f \in Facts, Extends(f, facts),
           evaluate(c, facts) # "error"
    PROVE  evaluate(c, f) = evaluate(c, facts)
<1> DEFINE v == run(c, facts)
           w == run(c, f)
<1>1. v \in [DOMAIN c -> Values] /\ \A i \in DOMAIN c : v[i] = node_value(c[i], v, facts)
      BY RunFacts
<1>2. w \in [DOMAIN c -> Values] /\ \A i \in DOMAIN c : w[i] = node_value(c[i], w, f)
      BY RunFacts
<1>3. DOMAIN c = 1..Len(c) /\ Len(c) \in Nat /\ Len(c) \in DOMAIN c
      BY DEF Condition, Invalid
<1>4. unresolved(c, facts) = {}
      BY DEF evaluate
<1> HIDE DEF v, w
<1>5. \A m : predicate(m, facts) # "error" => predicate(m, f) = predicate(m, facts)
      <2>1. "arrivals" \in Attributes
            BY DEF Attributes
      <2>2. QED
            BY <2>1 DEF predicate, Extends, Members, Absent
<1>6. ASSUME NEW i \in DOMAIN c
      PROVE  /\ i \notin unresolved(c, f)
             /\ \A g : (\A j \in 1..(i - 1) : g[j] = v[j])
                        => node_value(c[i], g, f) = node_value(c[i], v, facts)
      <2>1. /\ c[i].kind \in Kinds
            /\ c[i].kind \in {"and", "or", "not"} => c[i].left \in 1..(i - 1)
            /\ c[i].kind \in {"and", "or"} => c[i].right \in 1..(i - 1)
            /\ c[i].kind \in {"set", "unset"} \cup Comparisons => c[i].attr \in Attributes
            BY NodeFacts
      <2>2. i \notin unresolved(c, facts)
            BY <1>4
      <2>3. CASE c[i].kind \in {"and", "or", "not"}
            BY <2>1, <2>3 DEF unresolved, Comparisons, node_value
      <2>4. CASE c[i].kind \in {"set", "unset"} \cup Comparisons
            <3>1. f[c[i].attr] = facts[c[i].attr]
                  BY <2>1, <2>2, <2>4 DEF unresolved, Extends, Comparisons
            <3>2. i \notin unresolved(c, f)
                  BY <2>2, <2>4, <3>1 DEF unresolved, Comparisons
            <3>3. QED
                  BY <2>4, <3>1, <3>2 DEF node_value, Comparisons
      <2>5. CASE c[i].kind = "call"
            BY <1>5, <2>2, <2>5 DEF unresolved, node_value, Comparisons
      <2>6. QED
            BY <2>1, <2>3, <2>4, <2>5 DEF Kinds
<1>7. unresolved(c, f) = {}
      BY <1>6 DEF unresolved
<1>8. w[Len(c)] = v[Len(c)]
      <2> DEFINE G == {i \in DOMAIN c : w[i] = v[i]}
      <2>1. ASSUME NEW i \in 1..Len(c), \A j \in 1..(i - 1) : j \in G PROVE i \in G
            BY <1>1, <1>2, <1>3, <1>6, <2>1
      <2>2. \A i \in 1..Len(c) : i \in G
            <3> HIDE DEF G
            <3>1. QED
                  BY <2>1, <1>3, Climb
      <2>3. QED
            BY <2>2, <1>3
<1>9. QED
      BY <1>4, <1>7, <1>8 DEF evaluate, v, w
-----------------------------------------------------------------------------
(* The rules of an active policy.                                          *)

\* A rule as it is once its conditions are parsed.
WellFormed(r) ==
    /\ r.mode \in Mode
    /\ r.conditions \in Seq(Seq(Node))
    /\ \A i \in DOMAIN r.conditions : Condition(r.conditions[i])
    /\ r.overrides \in Seq([when : Seq(Node), mode : Mode])
    /\ \A i \in DOMAIN r.overrides : Condition(r.overrides[i].when)
    /\ r.max_open_minutes \in Nat \cup {Null}
    /\ r.never_for \in BOOLEAN
    /\ r.ask_channels \subseteq Channel

\* What validation leaves of a policy that is loaded.
Active(p) ==
    /\ FixedRelations(p)
    /\ \A r \in Roles : \A c \in DOMAIN p.per_role[r] : p.per_role[r][c] \in Mode
    /\ p.defaults.ask_channels \subseteq Channel
    /\ \A c \in DOMAIN p.autonomy :
        /\ c \in CLASSES /\ ~Governed(c) /\ WellFormed(p.autonomy[c])
        /\ floor_outcome(c) # "none" => p.autonomy[c].mode # "auto"
    /\ \A c \in CLASSES :
        Domain(c) = "security" => "alexa" \notin Channels(p, rule(p, c, "owner"))

LEMMA RankFacts ==
    RANK["auto"] = 0 /\ RANK["ask"] = 1 /\ RANK["never"] = 2
BY DEF RANK

\* The strictest of a set of modes is one of them, and none of the others is stricter.
LEMMA TightenedFacts ==
    ASSUME NEW p, NEW c, NEW m \in Mode, NEW rs, \A r \in rs : Tightening(p, r, c) \in Mode
    PROVE  /\ Tightened(p, c, m, rs) \in Mode
           /\ m # "auto" => Tightened(p, c, m, rs) # "auto"
<1> DEFINE all == {m} \cup {Tightening(p, r, c) : r \in rs}
           Top(n) == \A o \in all : RANK[n] >= RANK[o]
<1>1. all \subseteq Mode /\ m \in all
      OBVIOUS
<1> HIDE DEF all
<1>2. \E n \in all : Top(n)
      <2>1. CASE "never" \in all
            BY <1>1, <2>1, RankFacts DEF Mode
      <2>2. CASE "never" \notin all /\ "ask" \in all
            BY <1>1, <2>2, RankFacts DEF Mode
      <2>3. CASE "never" \notin all /\ "ask" \notin all
            BY <1>1, <2>3, RankFacts DEF Mode
      <2>4. QED
            BY <2>1, <2>2, <2>3
<1>3. Tightened(p, c, m, rs) = CHOOSE n \in all : Top(n)
      BY DEF Tightened, all
<1>4. Tightened(p, c, m, rs) \in all /\ Top(Tightened(p, c, m, rs))
      <2> HIDE DEF Top
      <2>1. QED
            BY <1>2, <1>3
<1>5. ASSUME m # "auto" PROVE Tightened(p, c, m, rs) # "auto"
      <2>1. RANK[Tightened(p, c, m, rs)] >= RANK[m]
            BY <1>1, <1>4
      <2>2. m = "ask" \/ m = "never"
            BY <1>5 DEF Mode
      <2>3. QED
            BY <2>1, <2>2, RankFacts
<1>6. QED
      BY <1>1, <1>4, <1>5

LEMMA AncestorsFacts ==
    ASSUME NEW p, FixedRelations(p), NEW role \in Roles
    PROVE  /\ Ancestors(p, role) \subseteq Roles /\ role \in Ancestors(p, role)
           /\ Ancestors(p, role) \subseteq {role, "adult"}
           /\ Adult(p, role) <=> role \in {"owner", "adult", "caregiver"}
<1>1. p.roles[role].inherits = IF role \in {"owner", "caregiver"} THEN "adult" ELSE "none"
      BY DEF FixedRelations
<1>2. "adult" \in Roles /\ role # "none"
      BY RulesAssumption DEF ROLES
<1>3. QED
      BY <1>1, <1>2 DEF Ancestors, Adult

LEMMA OnPhoneFacts == Condition(OnPhone)
BY RulesAssumption

\* Governance has one rule, and the roles differ in the mode of a rule only.
LEMMA RuleFacts ==
    ASSUME NEW p, Active(p), NEW c \in CLASSES, NEW role \in Roles
    PROVE  LET r == rule(p, c, role)
               o == rule(p, c, "owner")
           IN  /\ WellFormed(r) /\ WellFormed(o)
               /\ r.conditions = o.conditions /\ r.overrides = o.overrides
               /\ r.max_open_minutes = o.max_open_minutes /\ r.never_for = o.never_for
               /\ r.quorum = o.quorum /\ r.ttl = o.ttl /\ r.ask_channels = o.ask_channels
               /\ Governed(c) => r.overrides = <<>>
               /\ Domain(c) = "security" => r.mode # "auto"
<1>1. \A m \in Mode : WellFormed(Bare(m))
      BY DEF WellFormed, Bare, Channel, Null
<1>2. CASE Governed(c)
      <2>1. \A s : rule(p, c, s) = [Bare("auto") EXCEPT !.conditions = <<OnPhone>>]
            BY <1>2 DEF rule
      <2> DEFINE g == [Bare("auto") EXCEPT !.conditions = <<OnPhone>>]
      <2>2. Condition(OnPhone) /\ OnPhone \in Seq(Node)
            BY OnPhoneFacts DEF Condition
      <2>3. WellFormed(g)
            <3> HIDE DEF Node
            <3>1. /\ g.mode = "auto" /\ g.conditions = <<OnPhone>> /\ g.overrides = <<>>
                  /\ g.max_open_minutes = Null /\ g.never_for = FALSE /\ g.ask_channels = {}
                  BY DEF Bare
            <3>2. <<OnPhone>> \in Seq(Seq(Node)) /\ DOMAIN <<OnPhone>> = {1} /\ <<OnPhone>>[1] = OnPhone
                  BY <2>2
            <3>3. <<>> \in Seq([when : Seq(Node), mode : Mode]) /\ DOMAIN <<>> = {}
                  OBVIOUS
            <3> HIDE DEF g
            <3>4. \A i \in DOMAIN g.conditions : Condition(g.conditions[i])
                  BY <2>2, <3>1, <3>2
            <3>5. QED
                  BY <3>1, <3>2, <3>3, <3>4 DEF WellFormed, Mode
      <2>4. g.overrides = <<>>
            BY DEF Bare
      <2>5. Domain(c) # "security"
            BY <1>2 DEF Governed
      <2> HIDE DEF g
      <2>6. QED
            BY <2>1, <2>3, <2>4, <2>5 DEF g
<1>3. CASE ~Governed(c) /\ c \in DOMAIN p.autonomy
      <2>1. \A s : rule(p, c, s) = p.autonomy[c]
            BY <1>3 DEF rule
      <2>2. WellFormed(p.autonomy[c]) /\ (floor_outcome(c) # "none" => p.autonomy[c].mode # "auto")
            BY <1>3 DEF Active
      <2>3. QED
            BY <1>3, <2>1, <2>2 DEF floor_outcome
<1>4. CASE ~Governed(c) /\ c \notin DOMAIN p.autonomy
      <2>1. \A s : rule(p, c, s) = Bare(IF Adult(p, s) THEN "ask" ELSE "never")
            BY <1>4 DEF rule
      <2>2. \A s : (IF Adult(p, s) THEN "ask" ELSE "never") \in Mode
            BY DEF Mode
      <2>3. \A m, n : /\ Bare(m).conditions = Bare(n).conditions
                      /\ Bare(m).overrides = Bare(n).overrides
                      /\ Bare(m).max_open_minutes = Bare(n).max_open_minutes
                      /\ Bare(m).never_for = Bare(n).never_for
                      /\ Bare(m).quorum = Bare(n).quorum
                      /\ Bare(m).ttl = Bare(n).ttl /\ Bare(m).ask_channels = Bare(n).ask_channels
                      /\ Bare(m).mode = m
            BY DEF Bare
      <2>4. QED
            BY <1>1, <1>4, <2>1, <2>2, <2>3
<1>5. QED
      BY <1>2, <1>3, <1>4

LEMMA RoleModeFacts ==
    ASSUME NEW p, Active(p), NEW c \in CLASSES, NEW role \in Roles
    PROVE  /\ role_mode(p, c, role) \in Mode
           /\ Governed(c) => role_mode(p, c, role) # "ask"
           /\ Domain(c) = "security" => role_mode(p, c, role) # "auto"
<1> DEFINE r == rule(p, c, role)
<1>1. r.mode \in Mode /\ (Domain(c) = "security" => r.mode # "auto")
      BY RuleFacts DEF WellFormed
<1>2. \A s \in Ancestors(p, role) : Tightening(p, s, c) \in Mode
      <2>1. Ancestors(p, role) \subseteq Roles
            BY AncestorsFacts DEF Active
      <2>2. QED
            BY <2>1 DEF Active, Tightening, Mode
<1>3. /\ Tightened(p, c, r.mode, Ancestors(p, role)) \in Mode
      /\ r.mode # "auto" => Tightened(p, c, r.mode, Ancestors(p, role)) # "auto"
      <2> HIDE DEF r
      <2>1. QED
            BY <1>1, <1>2, TightenedFacts
<1>4. CASE Governed(c)
      BY <1>4 DEF role_mode, Governed, Domain, Mode
<1>5. CASE ~Governed(c)
      <2>1. c # "governance.resume_automation"
            BY <1>5 DEF Governed, Domain
      <2>2. role_mode(p, c, role) = "never"
                \/ role_mode(p, c, role) = Tightened(p, c, r.mode, Ancestors(p, role))
            BY <1>5, <2>1 DEF role_mode
      <2>3. QED
            BY <1>1, <1>3, <1>5, <2>2 DEF Mode
<1>6. QED
      BY <1>4, <1>5
-----------------------------------------------------------------------------
(* The parts of a compiled statement, against the parts of the evaluator.  *)

Certain == {"true", "false"}

\* What is never an error is true or false as a whole.
LEMMA CertainConjunction ==
    ASSUME NEW s \in Seq(Certain)
    PROVE  conjunction(s) \in Certain
<1>1. CASE conjunction(s) = "true"
      BY <1>1 DEF Certain
<1>2. CASE conjunction(s) # "true"
      <2>1. PICK i \in 1..Len(s) : conjunction(s) = s[i]
            BY <1>2, ConjunctionFacts
      <2> HIDE DEF Certain
      <2>2. QED
            BY <2>1
<1>3. QED
      BY <1>1, <1>2

\* The conditions of a rule, on the evaluator's side.
Resolved(r, facts) == \A i \in DOMAIN r.conditions : evaluate(r.conditions[i], facts) # "error"
AllHold(r, facts) == \A i \in DOMAIN r.conditions : evaluate(r.conditions[i], facts) = "true"

LEMMA LimitsAgree ==
    ASSUME NEW r, WellFormed(r), NEW facts \in Facts
    PROVE  Terminal(r, facts) <=>
              \/ ~\A g \in guards(r) : /\ has(boundary_input(facts), g[1])
                                       /\ boundary_input(facts).f[g[1]] <= g[2]
              \/ ~(r.never_for => /\ has(boundary_input(facts), "visitor")
                                  /\ boundary_input(facts).f["visitor"] = 0)
<1> DEFINE input == boundary_input(facts)
<1>1. \A a \in Attributes : /\ has(input, a) <=> facts[a] \notin {Absent, Null}
                            /\ has(input, a) => input.f[a] = facts[a]
      BY DEF boundary_input, has
<1>2. \A a \in Attributes : facts[a] \in {Absent, Null} \cup Nat
      BY DEF Facts
<1>3. "open_minutes" \in Attributes /\ "visitor" \in Attributes
      BY DEF Attributes
<1> HIDE DEF input
<1>4. r.never_for /\ facts["visitor"] # 0 <=>
          ~(r.never_for => has(input, "visitor") /\ input.f["visitor"] = 0)
      BY <1>1, <1>2, <1>3 DEF Absent, Null
<1>5. (\E g \in guards(r) : facts[g[1]] \in {Absent, Null} \/ facts[g[1]] > g[2]) <=>
          ~\A g \in guards(r) : has(input, g[1]) /\ input.f[g[1]] <= g[2]
      <2>1. CASE r.max_open_minutes = Null
            BY <2>1 DEF guards
      <2>2. CASE r.max_open_minutes # Null
            <3> DEFINE g == <<"open_minutes", r.max_open_minutes>>
            <3>1. guards(r) = {g} /\ g[1] = "open_minutes" /\ g[2] = r.max_open_minutes
                  BY <2>2 DEF guards
            <3>2. r.max_open_minutes \in Nat
                  BY <2>2 DEF WellFormed
            <3>3. facts["open_minutes"] \notin {Absent, Null} => facts["open_minutes"] \in Nat
                  BY <1>2, <1>3
            <3>4. (facts["open_minutes"] \in {Absent, Null} \/ facts["open_minutes"] > r.max_open_minutes)
                    <=> ~(has(input, "open_minutes") /\ input.f["open_minutes"] <= r.max_open_minutes)
                  BY <1>1, <1>3, <3>2, <3>3
            <3> HIDE DEF g
            <3>5. QED
                  BY <3>1, <3>4
      <2>3. QED
            BY <2>1, <2>2
<1>6. QED
      BY <1>4, <1>5 DEF Terminal, input

LEMMA RequirementsAgree ==
    ASSUME NEW r, WellFormed(r), NEW facts \in Facts
    PROVE  /\ requirements(r, boundary_input(facts)) \in Certain
           /\ requirements(r, boundary_input(facts)) = "true"
                 <=> Resolved(r, facts) /\ ~Terminal(r, facts)
<1> DEFINE input == boundary_input(facts)
           s == [i \in DOMAIN r.conditions |-> Bool(known(r.conditions[i], input))]
           a == Bool(\A g \in guards(r) : has(input, g[1]) /\ input.f[g[1]] <= g[2])
           b == Bool(r.never_for => has(input, "visitor") /\ input.f["visitor"] = 0)
           n == Len(r.conditions)
<1>1. n \in Nat /\ DOMAIN r.conditions = 1..n
      BY DEF WellFormed
<1>2. \A i \in 1..n : s[i] \in Certain /\ (s[i] = "true" <=> evaluate(r.conditions[i], facts) # "error")
      <2>1. \A i \in 1..n : Condition(r.conditions[i])
            BY <1>1 DEF WellFormed
      <2>2. \A i \in 1..n : known(r.conditions[i], input) <=> evaluate(r.conditions[i], facts) # "error"
            BY <2>1, ConditionAgrees
      <2> HIDE DEF input
      <2>3. QED
            BY <1>1, <2>2 DEF Bool, Certain
<1>3. s \in Seq(Certain) /\ Len(s) = n
      <2>1. s \in [1..n -> Certain]
            BY <1>1, <1>2
      <2> HIDE DEF s, n
      <2>2. QED
            BY <1>1, <2>1
<1>4. a \in Certain /\ b \in Certain /\ (a = "true" /\ b = "true" <=> ~Terminal(r, facts))
      BY LimitsAgree DEF Bool, Certain
<1>5. requirements(r, input) = conjunction(s \o <<a, b>>)
      BY DEF requirements
<1> HIDE DEF s, a, b, n
<1> DEFINE t == s \o <<a, b>>
<1>6. /\ t \in Seq(Certain) /\ Len(t) = n + 2
      /\ \A i \in 1..n : t[i] = s[i]
      /\ t[n + 1] = a /\ t[n + 2] = b
      BY <1>1, <1>3, <1>4
<1> HIDE DEF t
<1>7. conjunction(t) \in Certain
      BY <1>6, CertainConjunction
<1>8. conjunction(t) = "true" <=> \A i \in 1..(n + 2) : t[i] = "true"
      BY <1>6, ConjunctionFacts
<1>9. (\A i \in 1..(n + 2) : t[i] = "true") <=>
          (\A i \in 1..n : s[i] = "true") /\ a = "true" /\ b = "true"
      <2>1. \A i \in 1..(n + 2) : i \in 1..n \/ i = n + 1 \/ i = n + 2
            BY <1>1
      <2>2. n + 1 \in 1..(n + 2) /\ n + 2 \in 1..(n + 2) /\ \A i \in 1..n : i \in 1..(n + 2)
            BY <1>1
      <2>3. QED
            BY <1>6, <2>1, <2>2
<1>10. (\A i \in 1..n : s[i] = "true") <=> Resolved(r, facts)
      BY <1>1, <1>2 DEF Resolved
<1>11. QED
      BY <1>4, <1>5, <1>7, <1>8, <1>9, <1>10 DEF t

LEMMA MetAgrees ==
    ASSUME NEW r, WellFormed(r), NEW facts \in Facts, Resolved(r, facts)
    PROVE  /\ Met(r, boundary_input(facts)) \in Certain
           /\ Met(r, boundary_input(facts)) = "true" <=> AllHold(r, facts)
<1> DEFINE input == boundary_input(facts)
           s == [i \in DOMAIN r.conditions |-> expression(r.conditions[i], input)]
           n == Len(r.conditions)
<1>1. n \in Nat /\ DOMAIN r.conditions = 1..n
      BY DEF WellFormed
<1>2. \A i \in 1..n : s[i] = evaluate(r.conditions[i], facts) /\ s[i] \in Certain
      <2>1. \A i \in 1..n : Condition(r.conditions[i])
            BY <1>1 DEF WellFormed
      <2>2. \A i \in 1..n : /\ evaluate(r.conditions[i], facts) \in Values
                            /\ evaluate(r.conditions[i], facts) # "error"
                            /\ expression(r.conditions[i], input) = evaluate(r.conditions[i], facts)
            BY <1>1, <2>1, ConditionAgrees DEF Resolved
      <2> HIDE DEF input
      <2>3. QED
            BY <1>1, <2>2 DEF Values, Certain
<1>3. s \in Seq(Certain) /\ Len(s) = n
      <2>1. s \in [1..n -> Certain]
            BY <1>1, <1>2
      <2> HIDE DEF s, n
      <2>2. QED
            BY <1>1, <2>1
<1>4. Met(r, input) = conjunction(s)
      BY DEF Met
<1> HIDE DEF s, n
<1>5. conjunction(s) \in Certain
      BY <1>3, CertainConjunction
<1>6. conjunction(s) = "true" <=> \A i \in 1..n : s[i] = "true"
      BY <1>3, ConjunctionFacts
<1>7. QED
      BY <1>1, <1>2, <1>4, <1>5, <1>6 DEF AllHold
\* The position FirstOther finds is the only one of its kind.
LEMMA FirstOtherUnique ==
    ASSUME NEW S, NEW s \in Seq(S), NEW value, NEW i \in 1..(Len(s) + 1),
           i <= Len(s) => s[i] # value,
           \A j \in 1..(i - 1) : s[j] = value
    PROVE  FirstOther(s, value) = i
<1> DEFINE k == FirstOther(s, value)
<1>1. /\ k \in 1..(Len(s) + 1)
      /\ k <= Len(s) => s[k] # value
      /\ \A j \in 1..(k - 1) : s[j] = value
      BY FirstOtherFacts
<1> HIDE DEF k
<1>2. Len(s) \in Nat
      OBVIOUS
<1>3. ~(k < i)
      <2> SUFFICES ASSUME k < i PROVE FALSE
          OBVIOUS
      <2>1. k \in 1..(i - 1) /\ k <= Len(s)
            BY <1>1, <1>2
      <2>2. QED
            BY <1>1, <2>1
<1>4. ~(i < k)
      <2> SUFFICES ASSUME i < k PROVE FALSE
          OBVIOUS
      <2>1. i \in 1..(k - 1) /\ i <= Len(s)
            BY <1>1, <1>2
      <2>2. QED
            BY <1>1, <2>1
<1>5. k = i
      BY <1>1, <1>2, <1>3, <1>4
<1>6. QED
      BY <1>5 DEF k

\* What the overrides of a rule evaluate to, and the one that decides.
Overrides(r, facts) == [i \in DOMAIN r.overrides |-> evaluate(r.overrides[i].when, facts)]
Deciding(r, facts) == FirstOther(Overrides(r, facts), "false")

LEMMA OverridesFacts ==
    ASSUME NEW r, WellFormed(r), NEW facts \in Facts
    PROVE  /\ Len(r.overrides) \in Nat /\ DOMAIN r.overrides = 1..Len(r.overrides)
           /\ Overrides(r, facts) \in Seq(Values)
           /\ Len(Overrides(r, facts)) = Len(r.overrides)
           /\ DOMAIN Overrides(r, facts) = DOMAIN r.overrides
           /\ \A i \in DOMAIN r.overrides :
                /\ Condition(r.overrides[i].when) /\ r.overrides[i].mode \in Mode
                /\ Overrides(r, facts)[i] = evaluate(r.overrides[i].when, facts)
<1>1. Len(r.overrides) \in Nat /\ DOMAIN r.overrides = 1..Len(r.overrides)
      BY DEF WellFormed
<1>2. \A i \in DOMAIN r.overrides : Condition(r.overrides[i].when) /\ r.overrides[i].mode \in Mode
      <2>1. r.overrides \in Seq([when : Seq(Node), mode : Mode])
            BY DEF WellFormed
      <2>2. \A i \in DOMAIN r.overrides : r.overrides[i] \in [when : Seq(Node), mode : Mode]
            <3> DEFINE O == [when : Seq(Node), mode : Mode]
            <3>1. r.overrides \in Seq(O)
                  BY <2>1
            <3> HIDE DEF O
            <3>2. \A i \in DOMAIN r.overrides : r.overrides[i] \in O
                  BY <3>1
            <3>3. QED
                  BY <3>2 DEF O
      <2>3. QED
            BY <2>2 DEF WellFormed
<1>3. \A i \in DOMAIN r.overrides : evaluate(r.overrides[i].when, facts) \in Values
      BY <1>2, ConditionAgrees
<1>4. Overrides(r, facts) \in [1..Len(r.overrides) -> Values]
      BY <1>1, <1>3 DEF Overrides
<1>5. /\ Overrides(r, facts) \in Seq(Values) /\ Len(Overrides(r, facts)) = Len(r.overrides)
      /\ DOMAIN Overrides(r, facts) = DOMAIN r.overrides
      BY <1>1, <1>4
<1>6. QED
      BY <1>1, <1>2, <1>5 DEF Overrides

LEMMA DecidingFacts ==
    ASSUME NEW r, WellFormed(r), NEW facts \in Facts
    PROVE  LET k == Deciding(r, facts)
               vs == Overrides(r, facts)
           IN  /\ k \in 1..(Len(r.overrides) + 1)
               /\ k \in DOMAIN vs <=> k <= Len(r.overrides)
               /\ k \in DOMAIN vs => vs[k] = "true" \/ vs[k] = "error"
               /\ \A j \in 1..(k - 1) : vs[j] = "false"
<1> DEFINE k == Deciding(r, facts)
           vs == Overrides(r, facts)
<1>1. /\ vs \in Seq(Values) /\ Len(vs) = Len(r.overrides) /\ Len(r.overrides) \in Nat
      BY OverridesFacts
<1>2. k = FirstOther(vs, "false")
      BY DEF Deciding
<1> HIDE DEF k, vs
<1>3. /\ k \in 1..(Len(vs) + 1)
      /\ k <= Len(vs) => vs[k] # "false"
      /\ \A j \in 1..(k - 1) : vs[j] = "false"
      BY <1>1, <1>2, FirstOtherFacts
<1>4. k \in DOMAIN vs <=> k <= Len(r.overrides)
      BY <1>1, <1>3
<1>5. k \in DOMAIN vs => vs[k] \in Values
      BY <1>1
<1>6. k \in DOMAIN vs => vs[k] = "true" \/ vs[k] = "error"
      BY <1>1, <1>3, <1>4, <1>5 DEF Values
<1>7. QED
      BY <1>1, <1>3, <1>4, <1>6 DEF k, vs

\* How the deciding override changes the mode.
LEMMA OverriddenFacts ==
    ASSUME NEW r, WellFormed(r), NEW facts \in Facts, NEW m \in Mode
    PROVE  LET k == Deciding(r, facts)
               vs == Overrides(r, facts)
               o == overridden(r, facts, m)
           IN  /\ o.error <=> k \in DOMAIN vs /\ vs[k] = "error"
               /\ ~(k \in DOMAIN vs /\ vs[k] = "true") => o.mode = m
               /\ k \in DOMAIN vs /\ vs[k] = "true" =>
                    /\ o.mode = Strictest(m, r.overrides[k].mode)
                    /\ r.overrides[k].mode \in Mode
               /\ o.mode \in Mode
               /\ m # "auto" => o.mode # "auto"
               /\ r.overrides = <<>> => o.mode = m /\ ~o.error
<1> DEFINE k == Deciding(r, facts)
           vs == Overrides(r, facts)
           o == overridden(r, facts, m)
<1>1. /\ o.error = (k \in DOMAIN vs /\ vs[k] = "error")
      /\ o.mode = IF k \in DOMAIN vs /\ vs[k] = "true" THEN Strictest(m, r.overrides[k].mode) ELSE m
      BY DEF overridden, Overrides, Deciding
<1>2. k \in DOMAIN vs => r.overrides[k].mode \in Mode
      BY OverridesFacts
<1>3. \A n \in Mode : Strictest(m, n) \in Mode /\ (m # "auto" => Strictest(m, n) # "auto")
      BY RankFacts DEF Strictest, Mode
<1>4. r.overrides = <<>> => k \notin DOMAIN vs
      BY OverridesFacts
<1> HIDE DEF k, vs, o
<1>5. QED
      BY <1>1, <1>2, <1>3, <1>4 DEF k, vs, o

\* The compiled conditionals end where the evaluator's search does, and never in an error.
LEMMA OverridePathAgrees ==
    ASSUME NEW r, WellFormed(r), NEW facts \in Facts, NEW b \in BOOLEAN
    PROVE  LET k == Deciding(r, facts)
               vs == Overrides(r, facts)
               v == override_path(r, b, boundary_input(facts))
           IN  /\ v \in Certain
               /\ v = "true" <=>
                    \/ k \notin DOMAIN vs
                    \/ /\ vs[k] = "true"
                       /\ r.overrides[k].mode \in IF b THEN {"auto"} ELSE {"auto", "ask"}
<1> DEFINE input == boundary_input(facts)
           vs == Overrides(r, facts)
           k == Deciding(r, facts)
           ws == [i \in DOMAIN r.overrides |->
                    IF known(r.overrides[i].when, input)
                    THEN expression(r.overrides[i].when, input) ELSE "unknown"]
           n == Len(r.overrides)
<1>1. /\ n \in Nat /\ DOMAIN r.overrides = 1..n
      /\ vs \in Seq(Values) /\ Len(vs) = n /\ DOMAIN vs = 1..n
      BY OverridesFacts
<1>2. \A i \in 1..n : ws[i] = IF vs[i] = "error" THEN "unknown" ELSE vs[i]
      <2>1. \A i \in 1..n : /\ Condition(r.overrides[i].when)
                            /\ vs[i] = evaluate(r.overrides[i].when, facts)
            BY <1>1, OverridesFacts
      <2>2. \A i \in 1..n : /\ known(r.overrides[i].when, input) <=> vs[i] # "error"
                            /\ known(r.overrides[i].when, input) =>
                                    expression(r.overrides[i].when, input) = vs[i]
            BY <2>1, ConditionAgrees
      <2> HIDE DEF input, vs
      <2>3. QED
            BY <1>1, <2>2
<1>3. /\ k \in 1..(n + 1) /\ (k \in DOMAIN vs <=> k <= n)
      /\ k \in DOMAIN vs => vs[k] = "true" \/ vs[k] = "error"
      /\ \A j \in 1..(k - 1) : vs[j] = "false"
      BY DecidingFacts
<1>4. override_path(r, b, input) =
        LET i == FirstOther(ws, "false")
        IN  CASE i \notin DOMAIN ws -> "true"
              [] i \in DOMAIN ws /\ ws[i] = "unknown" -> "false"
              [] i \in DOMAIN ws /\ ws[i] = "true" ->
                    Bool(r.overrides[i].mode \in IF b THEN {"auto"} ELSE {"auto", "ask"})
              [] OTHER -> "error"
      BY DEF override_path
<1>5. DOMAIN ws = 1..n
      BY <1>1
<1> HIDE DEF input, vs, k, ws, n
<1>6. FirstOther(ws, "false") = k
      <2> DEFINE S == Values \cup {"unknown"}
      <2>1. \A i \in 1..n : vs[i] \in Values
            BY <1>1
      <2>2. \A i \in 1..n : ws[i] \in S
            BY <1>2, <2>1
      <2>3. ws \in Seq(S) /\ Len(ws) = n
            <3>1. ws = [i \in 1..n |-> ws[i]]
                  BY <1>5 DEF ws
            <3>2. ws \in [1..n -> S]
                  BY <2>2, <3>1
            <3> HIDE DEF S
            <3>3. QED
                  BY <1>1, <3>2
      <2>4. k <= n => ws[k] # "false"
            BY <1>1, <1>2, <1>3
      <2>5. \A j \in 1..(k - 1) : ws[j] = "false"
            <3>1. \A j \in 1..(k - 1) : j \in 1..n
                  BY <1>1, <1>3
            <3>2. QED
                  BY <1>2, <1>3, <3>1
      <2> HIDE DEF S
      <2>6. QED
            BY <1>3, <2>3, <2>4, <2>5, FirstOtherUnique
<1>7. CASE k \notin 1..n
      BY <1>1, <1>4, <1>5, <1>6, <1>7 DEF Certain, input, k, vs
<1>8. CASE k \in 1..n /\ vs[k] = "error"
      <2>1. ws[k] = "unknown"
            BY <1>2, <1>8
      <2>2. override_path(r, b, input) = "false"
            BY <1>4, <1>5, <1>6, <1>8, <2>1
      <2>3. QED
            BY <1>1, <1>8, <2>2 DEF Certain, input, k, vs
<1>9. CASE k \in 1..n /\ vs[k] = "true"
      <2>1. ws[k] = "true"
            BY <1>2, <1>9
      <2>2. override_path(r, b, input) =
                Bool(r.overrides[k].mode \in IF b THEN {"auto"} ELSE {"auto", "ask"})
            BY <1>4, <1>5, <1>6, <1>9, <2>1
      <2>3. QED
            BY <1>1, <1>9, <2>2 DEF Certain, Bool, input, k, vs
<1>10. QED
      BY <1>1, <1>3, <1>7, <1>8, <1>9
-----------------------------------------------------------------------------
(* What the evaluator decides, and what the statements permit.             *)

\* The mode before conditions and overrides are looked at.
Base(p, c, role, facts) ==
    IF \/ c = "governance.credentials" /\ ~OwnCredentials(role, facts)
       \/ Terminal(rule(p, c, role), facts)
    THEN "never" ELSE role_mode(p, c, role)

LEMMA ResolveFacts ==
    ASSUME NEW p, Active(p), NEW c \in CLASSES, NEW role \in Roles, NEW facts \in Facts
    PROVE  LET q == resolve(p, c, role, facts)
               r == rule(p, c, role)
               b == Base(p, c, role, facts)
               o == overridden(r, facts, b)
           IN  /\ b \in Mode /\ q.mode \in Mode
               /\ Governed(c) => b # "ask" /\ o.mode = b
               /\ q.errors <=> b # "never" /\ (~Resolved(r, facts) \/ o.error)
               /\ q.mode = "auto" <=> o.mode = "auto" /\ AllHold(r, facts) /\ ~q.errors
               /\ q.mode = "never" <=>
                    \/ b = "never" \/ o.mode = "never"
                    \/ Governed(c) /\ (~AllHold(r, facts) \/ q.errors)
               /\ q.approval = [ttl |-> Ttl(p, r), channels |-> Channels(p, r),
                                roles |-> approvers(p, c, r.quorum)]
<1> DEFINE q == resolve(p, c, role, facts)
           r == rule(p, c, role)
           b == Base(p, c, role, facts)
           o == overridden(r, facts, b)
           vs == {evaluate(r.conditions[i], facts) : i \in DOMAIN r.conditions}
<1>1. WellFormed(r) /\ (Governed(c) => r.overrides = <<>>)
      BY RuleFacts
<1>2. b \in Mode /\ (Governed(c) => b # "ask")
      BY RoleModeFacts DEF Base, Mode
<1>3. /\ o.mode \in Mode /\ (b # "auto" => o.mode # "auto")
      /\ Governed(c) => o.mode = b /\ ~o.error
      <2> HIDE DEF r, b
      <2>1. QED
            BY <1>1, <1>2, OverriddenFacts
<1>4. /\ "error" \in vs <=> ~Resolved(r, facts)
      /\ vs \ {"true"} # {} <=> ~AllHold(r, facts)
      BY DEF Resolved, AllHold
<1>5. /\ q.errors = (b # "never" /\ ("error" \in vs \/ o.error))
      /\ q.mode = CASE b = "never" -> "never"
                    [] b # "never" /\ o.mode = "auto" /\ (vs \ {"true"} # {} \/ q.errors) ->
                            IF Governed(c) THEN "never" ELSE "ask"
                    [] OTHER -> o.mode
      /\ q.approval = [ttl |-> Ttl(p, r), channels |-> Channels(p, r),
                       roles |-> approvers(p, c, r.quorum)]
      BY DEF resolve, Base
<1> HIDE DEF q, r, b, o, vs
<1>6. CASE b = "never"
      BY <1>2, <1>3, <1>4, <1>5, <1>6 DEF Mode, q, r, b, o
<1>7. CASE b # "never" /\ o.mode = "auto" /\ (~AllHold(r, facts) \/ q.errors)
      <2>1. q.mode = IF Governed(c) THEN "never" ELSE "ask"
            BY <1>4, <1>5, <1>7
      <2>2. QED
            BY <1>2, <1>3, <1>4, <1>5, <1>7, <2>1 DEF Mode, q, r, b, o
<1>8. CASE b # "never" /\ ~(o.mode = "auto" /\ (~AllHold(r, facts) \/ q.errors))
      <2>1. q.mode = o.mode
            BY <1>4, <1>5, <1>8
      <2>2. QED
            BY <1>2, <1>3, <1>4, <1>5, <1>8, <2>1 DEF Mode, q, r, b, o
<1>9. QED
      BY <1>6, <1>7, <1>8

\* The evaluator reads the rule of the role, the compiler the owner's: it is the same but
\* for the mode, which neither reads there.
LEMMA CommonFacts ==
    ASSUME NEW p, Active(p), NEW c \in CLASSES, NEW role \in Roles, NEW facts \in Facts
    PROVE  LET r == rule(p, c, role)
               common == rule(p, c, "owner")
           IN  /\ Terminal(common, facts) <=> Terminal(r, facts)
               /\ Resolved(common, facts) <=> Resolved(r, facts)
               /\ AllHold(common, facts) <=> AllHold(r, facts)
               /\ Overrides(common, facts) = Overrides(r, facts)
               /\ Deciding(common, facts) = Deciding(r, facts)
               /\ Ttl(p, common) = Ttl(p, r) /\ Channels(p, common) = Channels(p, r)
<1> DEFINE r == rule(p, c, role)
           common == rule(p, c, "owner")
<1>1. /\ r.conditions = common.conditions /\ r.overrides = common.overrides
      /\ r.max_open_minutes = common.max_open_minutes /\ r.never_for = common.never_for
      /\ r.quorum = common.quorum /\ r.ttl = common.ttl /\ r.ask_channels = common.ask_channels
      BY RuleFacts
<1> HIDE DEF r, common
<1>2. guards(r) = guards(common)
      BY <1>1 DEF guards
<1>3. Terminal(common, facts) <=> Terminal(r, facts)
      BY <1>1, <1>2 DEF Terminal
<1>4. Overrides(common, facts) = Overrides(r, facts)
      BY <1>1 DEF Overrides
<1>5. QED
      BY <1>1, <1>3, <1>4 DEF Resolved, AllHold, Deciding, Ttl, Channels, r, common

\* The forbid statement holds off exactly what the evaluator refuses or cannot resolve,
\* and never fails.
LEMMA SafeAgrees ==
    ASSUME NEW p, Active(p), NEW c \in CLASSES, NEW role \in Roles, NEW facts \in Facts
    PROVE  LET q == resolve(p, c, role, facts)
               v == safe(p, c, role, boundary_input(facts))
           IN  /\ v \in Certain
               /\ v = "true" <=> ~q.errors /\ q.mode # "never"
<1> DEFINE q == resolve(p, c, role, facts)
           r == rule(p, c, role)
           b == Base(p, c, role, facts)
           o == overridden(r, facts, b)
           common == rule(p, c, "owner")
           input == boundary_input(facts)
           k == Deciding(r, facts)
           vs == Overrides(r, facts)
           v1 == Bool(role \in AllowedRoles(p, c))
           v2 == requirements(common, input)
           v3 == Bool(c = "governance.credentials" =>
                        has(input, "member_id") /\ (role = "owner" \/ input.f["member_id"] = 1))
           v4 == IF Governed(c) THEN Met(common, input) ELSE "true"
           v5 == override_path(common, FALSE, input)
<1>1. /\ WellFormed(r) /\ WellFormed(common) /\ r.overrides = common.overrides
      /\ Governed(c) => r.overrides = <<>>
      BY RuleFacts
<1>2. /\ Terminal(common, facts) <=> Terminal(r, facts)
      /\ Resolved(common, facts) <=> Resolved(r, facts)
      /\ AllHold(common, facts) <=> AllHold(r, facts)
      /\ Overrides(common, facts) = vs /\ Deciding(common, facts) = k
      BY CommonFacts
<1>3. /\ b \in Mode /\ q.mode \in Mode
      /\ Governed(c) => b # "ask" /\ o.mode = b
      /\ q.errors <=> b # "never" /\ (~Resolved(r, facts) \/ o.error)
      /\ q.mode = "never" <=>
            \/ b = "never" \/ o.mode = "never"
            \/ Governed(c) /\ (~AllHold(r, facts) \/ q.errors)
      BY ResolveFacts
<1>4. v1 \in Certain /\ (v1 = "true" <=> role_mode(p, c, role) # "never")
      BY DEF Bool, Certain, AllowedRoles
<1>5. v2 \in Certain /\ (v2 = "true" <=> Resolved(r, facts) /\ ~Terminal(r, facts))
      BY <1>1, <1>2, RequirementsAgree
<1>6. v3 \in Certain /\ (v3 = "true" <=> c # "governance.credentials" \/ OwnCredentials(role, facts))
      <2>1. /\ has(input, "member_id") <=> facts["member_id"] \notin {Absent, Null}
            /\ has(input, "member_id") => input.f["member_id"] = facts["member_id"]
            BY DEF boundary_input, has, Attributes
      <2> HIDE DEF input
      <2>2. (has(input, "member_id") /\ (role = "owner" \/ input.f["member_id"] = 1))
                <=> OwnCredentials(role, facts)
            BY <2>1 DEF OwnCredentials
      <2>3. QED
            BY <2>2 DEF Bool, Certain
<1>7. v2 = "true" => v4 \in Certain /\ (v4 = "true" <=> (Governed(c) => AllHold(r, facts)))
      BY <1>1, <1>2, <1>5, MetAgrees DEF Certain
<1>8. /\ v5 \in Certain
      /\ v5 = "true" <=> \/ k \notin DOMAIN vs
                         \/ vs[k] = "true" /\ r.overrides[k].mode \in {"auto", "ask"}
      BY <1>1, <1>2, OverridePathAgrees
<1>9. b # "never" => (v5 = "true" <=> ~o.error /\ o.mode # "never")
      <2> SUFFICES ASSUME b # "never" PROVE v5 = "true" <=> ~o.error /\ o.mode # "never"
          OBVIOUS
      <2>1. /\ o.error <=> k \in DOMAIN vs /\ vs[k] = "error"
            /\ ~(k \in DOMAIN vs /\ vs[k] = "true") => o.mode = b
            /\ k \in DOMAIN vs /\ vs[k] = "true" =>
                    /\ o.mode = Strictest(b, r.overrides[k].mode)
                    /\ r.overrides[k].mode \in Mode
            BY <1>1, <1>3, OverriddenFacts
      <2>2. k \in DOMAIN vs => vs[k] = "true" \/ vs[k] = "error"
            BY <1>1, DecidingFacts
      <2>3. \A n \in Mode : Strictest(b, n) # "never" <=> n \in {"auto", "ask"}
            BY <1>3, RankFacts DEF Strictest, Mode
      <2> HIDE DEF b, o, k, vs, v5, r
      <2>4. QED
            BY <1>8, <2>1, <2>2, <2>3
<1>10. b = IF v1 = "true" /\ v3 = "true" /\ ~Terminal(r, facts) THEN role_mode(p, c, role) ELSE "never"
      BY <1>4, <1>6 DEF Base
<1>11. safe(p, c, role, input) = conjunction(<<v1, v2, v3, v4, v5>>)
      BY DEF safe
<1> HIDE DEF q, r, b, o, common, input, k, vs, v1, v2, v3, v4, v5
<1> DEFINE v == conjunction(<<v1, v2, v3, v4, v5>>)
<1>12. v = IF v1 # "true" THEN v1 ELSE IF v2 # "true" THEN v2 ELSE
           IF v3 # "true" THEN v3 ELSE IF v4 # "true" THEN v4 ELSE v5
      BY QuintupleFacts
<1> HIDE DEF v
<1>13. /\ v \in Certain
       /\ v = "true" <=> v1 = "true" /\ v2 = "true" /\ v3 = "true" /\ v4 = "true" /\ v5 = "true"
      BY <1>4, <1>5, <1>6, <1>7, <1>8, <1>12 DEF Certain
<1>14. v = "true" <=> b # "never" /\ Resolved(r, facts) /\ (Governed(c) => AllHold(r, facts))
                        /\ ~o.error /\ o.mode # "never"
      <2>1. v1 = "true" /\ v2 = "true" /\ v3 = "true" <=> b # "never" /\ Resolved(r, facts)
            BY <1>4, <1>5, <1>6, <1>10
      <2>2. QED
            BY <1>7, <1>9, <1>13, <2>1
<1>15. v = "true" <=> ~q.errors /\ q.mode # "never"
      BY <1>3, <1>14
<1>16. QED
      BY <1>11, <1>13, <1>15 DEF v, input, q
\* The statement that permits an action nobody approved agrees with autonomy.
LEMMA AutonomousAgrees ==
    ASSUME NEW p, Active(p), NEW c \in CLASSES, NEW role \in Roles, NEW facts \in Facts
    PROVE  LET q == resolve(p, c, role, facts)
               v == autonomous(p, c, role, boundary_input(facts))
           IN  /\ v \in Certain
               /\ v = "true" <=> q.mode = "auto"
<1> DEFINE q == resolve(p, c, role, facts)
           r == rule(p, c, role)
           b == Base(p, c, role, facts)
           o == overridden(r, facts, b)
           common == rule(p, c, "owner")
           input == boundary_input(facts)
           k == Deciding(r, facts)
           vs == Overrides(r, facts)
           v1 == safe(p, c, role, input)
           v2 == Bool(role \in AutoRoles(p, c))
           v3 == Met(common, input)
           v4 == override_path(common, TRUE, input)
<1>1. WellFormed(r) /\ WellFormed(common) /\ r.overrides = common.overrides
      BY RuleFacts
<1>2. /\ Resolved(common, facts) <=> Resolved(r, facts)
      /\ AllHold(common, facts) <=> AllHold(r, facts)
      /\ Overrides(common, facts) = vs /\ Deciding(common, facts) = k
      BY CommonFacts
<1>3. /\ b \in Mode /\ q.mode \in Mode
      /\ q.errors <=> b # "never" /\ (~Resolved(r, facts) \/ o.error)
      /\ q.mode = "auto" <=> o.mode = "auto" /\ AllHold(r, facts) /\ ~q.errors
      /\ q.mode = "never" <=>
            \/ b = "never" \/ o.mode = "never"
            \/ Governed(c) /\ (~AllHold(r, facts) \/ q.errors)
      BY ResolveFacts
<1>4. v1 \in Certain /\ (v1 = "true" <=> ~q.errors /\ q.mode # "never")
      BY SafeAgrees
<1>5. v2 \in Certain /\ (v2 = "true" <=> role_mode(p, c, role) = "auto")
      BY DEF Bool, Certain, AutoRoles
<1>6. v1 = "true" => v3 \in Certain /\ (v3 = "true" <=> AllHold(r, facts))
      <2>1. v1 = "true" => Resolved(r, facts)
            BY <1>3, <1>4
      <2>2. QED
            BY <1>1, <1>2, <2>1, MetAgrees
<1>7. /\ v4 \in Certain
      /\ v4 = "true" <=> \/ k \notin DOMAIN vs
                         \/ vs[k] = "true" /\ r.overrides[k].mode = "auto"
      BY <1>1, <1>2, OverridePathAgrees
<1>8. b = role_mode(p, c, role) \/ b = "never"
      BY DEF Base
<1>9. (o.mode = "auto" => b = "auto") /\ (b = "auto" => (v4 = "true" <=> ~o.error /\ o.mode = "auto"))
      <2>1. /\ o.error <=> k \in DOMAIN vs /\ vs[k] = "error"
            /\ ~(k \in DOMAIN vs /\ vs[k] = "true") => o.mode = b
            /\ k \in DOMAIN vs /\ vs[k] = "true" =>
                    /\ o.mode = Strictest(b, r.overrides[k].mode)
                    /\ r.overrides[k].mode \in Mode
            /\ b # "auto" => o.mode # "auto"
            BY <1>1, <1>3, OverriddenFacts
      <2>2. k \in DOMAIN vs => vs[k] = "true" \/ vs[k] = "error"
            BY <1>1, DecidingFacts
      <2>3. \A n \in Mode : Strictest("auto", n) = n
            BY RankFacts DEF Strictest, Mode
      <2> HIDE DEF b, o, k, vs, v4, r
      <2>4. QED
            BY <1>7, <2>1, <2>2, <2>3
<1>10. autonomous(p, c, role, input) =
            IF AutoRoles(p, c) = {} THEN "false" ELSE conjunction(<<v1, v2, v3, v4>>)
      BY DEF autonomous
<1>11. AutoRoles(p, c) = {} => role_mode(p, c, role) # "auto"
      BY DEF AutoRoles
<1> HIDE DEF q, r, b, o, common, input, k, vs, v1, v2, v3, v4
<1> DEFINE v == conjunction(<<v1, v2, v3, v4>>)
<1>12. v = IF v1 # "true" THEN v1 ELSE IF v2 # "true" THEN v2 ELSE IF v3 # "true" THEN v3 ELSE v4
      BY QuadrupleFacts
<1> HIDE DEF v
<1>13. /\ v \in Certain
       /\ v = "true" <=> v1 = "true" /\ v2 = "true" /\ v3 = "true" /\ v4 = "true"
      BY <1>4, <1>5, <1>6, <1>7, <1>12 DEF Certain
<1>14. q.mode = "auto" <=> v1 = "true" /\ v2 = "true" /\ v3 = "true" /\ v4 = "true"
      <2>1. ASSUME q.mode = "auto"
            PROVE  v1 = "true" /\ v2 = "true" /\ v3 = "true" /\ v4 = "true"
            <3>1. ~q.errors /\ o.mode = "auto" /\ AllHold(r, facts) /\ b = "auto"
                  BY <1>3, <1>9, <2>1
            <3>2. v1 = "true"
                  BY <1>4, <2>1, <3>1
            <3>3. v2 = "true"
                  BY <1>5, <1>8, <3>1
            <3>4. ~o.error
                  BY <1>3, <3>1
            <3>5. QED
                  BY <1>6, <1>9, <3>1, <3>2, <3>3, <3>4
      <2>2. ASSUME v1 = "true", v2 = "true", v3 = "true", v4 = "true"
            PROVE  q.mode = "auto"
            <3>1. ~q.errors /\ q.mode # "never" /\ AllHold(r, facts) /\ role_mode(p, c, role) = "auto"
                  BY <1>4, <1>5, <1>6, <2>2
            <3>2. b = "auto"
                  BY <1>3, <1>8, <3>1
            <3>3. QED
                  BY <1>3, <1>9, <2>2, <3>1, <3>2
      <2>3. QED
            BY <2>1, <2>2
<1>15. CASE AutoRoles(p, c) = {}
      BY <1>5, <1>10, <1>11, <1>14, <1>15 DEF Certain, input, q
<1>16. CASE AutoRoles(p, c) # {}
      BY <1>10, <1>13, <1>14, <1>16 DEF v, input, q
<1>17. QED
      BY <1>15, <1>16

\* What the evaluator sanctions for one role, given the approval a (at most one).
Sanctions(p, c, role, facts, a) ==
    LET o == resolve(p, c, role, facts)
    IN  /\ ~o.errors
        /\ \/ o.mode = "auto"
           \/ /\ o.mode = "ask" /\ a # <<>>
              /\ a[1].role \in o.approval.roles
              /\ a[1].channel \in o.approval.channels
              /\ clock - a[1].at <= o.approval.ttl

Recorded(a) ==
    a = <<>> \/ \E t \in Nat, s \in Roles, ch \in Channel : a = <<[at |-> t, role |-> s, channel |-> ch]>>

\* The replayed approval is answered exactly if the evaluator would count it.
LEMMA ReplayedFacts ==
    ASSUME NEW p, Active(p), NEW c \in CLASSES, NEW role \in Roles, NEW facts \in Facts,
           NEW a, Recorded(a), ~Governed(c), AllowedRoles(p, c) # {}
    PROVE  LET e == Replayed(p, c, role, boundary_input(facts), a)
               r == rule(p, c, role)
           IN  /\ e = <<>> <=> a = <<>>
               /\ a # <<>> =>
                    /\ ~e[1].failed /\ e[1].at = a[1].at
                    /\ e[1].answered <=>
                         /\ safe(p, c, role, boundary_input(facts)) = "true"
                         /\ a[1].role \in approvers(p, c, r.quorum)
                         /\ a[1].channel \in Channels(p, r)
<1> DEFINE input == boundary_input(facts)
           e == Replayed(p, c, role, input, a)
           r == rule(p, c, role)
           common == rule(p, c, "owner")
           v1 == safe(p, c, role, input)
           v2 == Bool(a[1].role \in approvers(p, c, common.quorum))
           v3 == Bool(a[1].channel \in Channels(p, common))
           w == Verdict("false", {approve(p, c, role, input, a[1])})
<1>1. CASE a = <<>>
      BY <1>1 DEF Replayed
<1>2. CASE a # <<>>
      <2>1. e = <<[at |-> a[1].at, answered |-> w = "allow", failed |-> w = "error"]>>
            BY <1>2 DEF Replayed
      <2>2. approve(p, c, role, input, a[1]) = conjunction(<<v1, v2, v3>>)
            BY DEF approve
      <2>3. v1 \in Certain /\ v2 \in Certain /\ v3 \in Certain
            BY SafeAgrees DEF Bool, Certain
      <2>4. /\ v2 = "true" <=> a[1].role \in approvers(p, c, r.quorum)
            /\ v3 = "true" <=> a[1].channel \in Channels(p, r)
            <3>1. r.quorum = common.quorum
                  BY RuleFacts
            <3>2. Channels(p, r) = Channels(p, common)
                  BY CommonFacts
            <3> HIDE DEF r, common
            <3>3. QED
                  BY <3>1, <3>2 DEF Bool
      <2> DEFINE v == conjunction(<<v1, v2, v3>>)
      <2>5. w = Verdict("false", {v})
            BY <2>2
      <2> HIDE DEF v1, v2, v3, w
      <2>6. v = IF v1 # "true" THEN v1 ELSE IF v2 # "true" THEN v2 ELSE v3
            BY TripleFacts
      <2> HIDE DEF v
      <2>7. v \in Certain /\ (v = "true" <=> v1 = "true" /\ v2 = "true" /\ v3 = "true")
            BY <2>3, <2>6 DEF Certain
      <2>8. w # "error" /\ (w = "allow" <=> v = "true")
            BY <2>5, <2>7 DEF Verdict, Certain
      <2>9. /\ e # <<>> /\ e[1].at = a[1].at
            /\ e[1].answered = (w = "allow") /\ e[1].failed = (w = "error")
            BY <2>1
      <2> HIDE DEF e, r, input
      <2>10. QED
            BY <1>2, <2>4, <2>7, <2>8, <2>9 DEF e, r, input, v1
<1>3. QED
      BY <1>1, <1>2
\* Replaying an approval never fails.
LEMMA ReplayNeverFails ==
    ASSUME NEW p, Active(p), NEW c \in CLASSES, NEW role \in Roles, NEW facts \in Facts,
           NEW a, Recorded(a)
    PROVE  LET e == Replayed(p, c, role, boundary_input(facts), a)
           IN  e # <<>> => ~e[1].failed
<1> DEFINE input == boundary_input(facts)
           e == Replayed(p, c, role, input, a)
           w == Verdict("false", {approve(p, c, role, input, a[1])})
<1>1. CASE ~Governed(c) /\ AllowedRoles(p, c) # {}
      BY <1>1, ReplayedFacts
<1>2. CASE Governed(c) \/ AllowedRoles(p, c) = {}
      <2>1. approve(p, c, role, input, a[1]) = "false"
            BY <1>2 DEF approve
      <2>2. w # "error"
            BY <2>1 DEF Verdict
      <2>3. e # <<>> => e = <<[at |-> a[1].at, answered |-> w = "allow", failed |-> w = "error"]>>
            BY DEF Replayed
      <2> HIDE DEF w, e
      <2>4. e # <<>> => e[1].failed = (w = "error")
            BY <2>3
      <2>5. QED
            BY <2>2, <2>4 DEF e, input
<1>3. QED
      BY <1>1, <1>2

\* The statement that rests on an approval agrees with what the evaluator asks for.
LEMMA TemporalAgrees ==
    ASSUME NEW p, Active(p), NEW c \in CLASSES, NEW role \in Roles, NEW facts \in Facts,
           NEW a, Recorded(a), safe(p, c, role, boundary_input(facts)) = "true"
    PROVE  LET q == resolve(p, c, role, facts)
               input == boundary_input(facts)
               v == temporal(p, c, role, input, Replayed(p, c, role, input, a))
           IN  /\ v \in Certain
               /\ v = "true" =>
                    /\ a # <<>> /\ a[1].role \in q.approval.roles
                    /\ a[1].channel \in q.approval.channels
                    /\ clock - a[1].at <= q.approval.ttl
               /\ /\ q.mode = "ask" /\ a # <<>> /\ a[1].role \in q.approval.roles
                  /\ a[1].channel \in q.approval.channels
                  /\ clock - a[1].at <= q.approval.ttl
                  => v = "true"
<1> DEFINE q == resolve(p, c, role, facts)
           r == rule(p, c, role)
           b == Base(p, c, role, facts)
           o == overridden(r, facts, b)
           common == rule(p, c, "owner")
           input == boundary_input(facts)
           e == Replayed(p, c, role, input, a)
           v == temporal(p, c, role, input, e)
           None_ == \/ AllowedRoles(p, c) = {} \/ Governed(c)
                    \/ /\ AllowedRoles(p, c) = AutoRoles(p, c)
                       /\ common.conditions = <<>> /\ common.overrides = <<>>
<1>1. /\ WellFormed(r) /\ r.conditions = common.conditions /\ r.overrides = common.overrides
      BY RuleFacts
<1>2. Ttl(p, common) = Ttl(p, r)
      BY CommonFacts
<1>3. /\ b \in Mode
      /\ Governed(c) => b # "ask" /\ o.mode = b
      /\ q.errors <=> b # "never" /\ (~Resolved(r, facts) \/ o.error)
      /\ q.mode = "auto" <=> o.mode = "auto" /\ AllHold(r, facts) /\ ~q.errors
      /\ q.mode = "never" <=>
            \/ b = "never" \/ o.mode = "never"
            \/ Governed(c) /\ (~AllHold(r, facts) \/ q.errors)
      /\ q.approval = [ttl |-> Ttl(p, r), channels |-> Channels(p, r),
                       roles |-> approvers(p, c, r.quorum)]
      BY ResolveFacts
<1>4. ~q.errors /\ q.mode # "never"
      BY SafeAgrees
<1>5. v = IF None_ THEN "false"
          ELSE Bool(e # <<>> /\ e[1].answered /\ clock - e[1].at <= Ttl(p, common))
      BY DEF temporal
<1>6. ~None_ => /\ e = <<>> <=> a = <<>>
                /\ a # <<>> =>
                    /\ e[1].at = a[1].at
                    /\ e[1].answered <=> /\ a[1].role \in approvers(p, c, r.quorum)
                                         /\ a[1].channel \in Channels(p, r)
      BY ReplayedFacts
<1>7. q.mode = "ask" => ~None_
      <2> SUFFICES ASSUME q.mode = "ask", None_ PROVE FALSE
          OBVIOUS
      <2>1. b = role_mode(p, c, role)
            BY <1>3, <1>4 DEF Base
      <2>2. role \in AllowedRoles(p, c)
            BY <1>3, <1>4, <2>1 DEF AllowedRoles
      <2>3. CASE Governed(c)
            <3>1. b = "auto" /\ o.mode = "auto" /\ AllHold(r, facts)
                  BY <1>3, <1>4, <2>3 DEF Mode
            <3>2. QED
                  BY <1>3, <1>4, <3>1
      <2>4. CASE /\ AllowedRoles(p, c) = AutoRoles(p, c)
                 /\ common.conditions = <<>> /\ common.overrides = <<>>
            <3>1. b = "auto"
                  BY <2>1, <2>2, <2>4 DEF AutoRoles
            <3>2. AllHold(r, facts)
                  BY <1>1, <2>4 DEF AllHold
            <3>3. o.mode = "auto"
                  <4> HIDE DEF r, b, common
                  <4>1. QED
                        BY <1>1, <1>3, <2>4, <3>1, OverriddenFacts
            <3>4. QED
                  BY <1>3, <1>4, <3>2, <3>3
      <2>5. QED
            BY <2>2, <2>3, <2>4
<1>8. /\ q.approval.ttl = Ttl(p, r) /\ q.approval.channels = Channels(p, r)
      /\ q.approval.roles = approvers(p, c, r.quorum)
      BY <1>3
<1> HIDE DEF q, r, b, o, common, input, e, v, None_
<1>9. CASE None_
      BY <1>5, <1>7, <1>9 DEF Certain, v, q, e, input
<1>10. CASE ~None_
      <2> DEFINE X == e # <<>> /\ e[1].answered /\ clock - e[1].at <= Ttl(p, common)
      <2>1. v = Bool(X)
            BY <1>5, <1>10
      <2>2. v \in Certain /\ (v = "true" <=> X)
            <3> HIDE DEF X
            <3>1. QED
                  BY <2>1 DEF Bool, Certain
      <2>3. X <=> /\ a # <<>> /\ a[1].role \in q.approval.roles
                  /\ a[1].channel \in q.approval.channels
                  /\ clock - a[1].at <= q.approval.ttl
            BY <1>2, <1>6, <1>8, <1>10
      <2> HIDE DEF X
      <2>4. QED
            BY <2>2, <2>3 DEF v, q, e, input
<1>11. QED
      BY <1>9, <1>10

\* The compiled statements allow an action exactly if the evaluator sanctions it.
LEMMA Agreement ==
    ASSUME NEW p, Active(p), NEW c \in CLASSES, NEW role \in Roles, NEW facts \in Facts,
           NEW a, Recorded(a)
    PROVE  authorize(p, c, role, facts, a) <=> Sanctions(p, c, role, facts, a)
<1> DEFINE q == resolve(p, c, role, facts)
           input == boundary_input(facts)
           e == Replayed(p, c, role, input, a)
           s == safe(p, c, role, input)
           u == autonomous(p, c, role, input)
           t == temporal(p, c, role, input, e)
           Approved == /\ a # <<>> /\ a[1].role \in q.approval.roles
                       /\ a[1].channel \in q.approval.channels
                       /\ clock - a[1].at <= q.approval.ttl
<1>1. e # <<>> => ~e[1].failed
      BY ReplayNeverFails
<1>2. s \in Certain /\ (s = "true" <=> ~q.errors /\ q.mode # "never")
      BY SafeAgrees
<1>3. u \in Certain /\ (u = "true" <=> q.mode = "auto")
      BY AutonomousAgrees
<1>4. t \in Certain
      BY DEF temporal, Bool, Certain
<1>5. s = "true" => (t = "true" => Approved) /\ (q.mode = "ask" /\ Approved => t = "true")
      BY TemporalAgrees
<1>6. q.mode \in Mode
      BY ResolveFacts
<1>7. authorize(p, c, role, facts, a) <=>
          (e # <<>> => ~e[1].failed) /\ Verdict(Not(s), {u, t}) = "allow"
      BY DEF authorize
<1>8. Sanctions(p, c, role, facts, a) <=>
          ~q.errors /\ (q.mode = "auto" \/ (q.mode = "ask" /\ Approved))
      BY DEF Sanctions
<1> HIDE DEF q, input, e, s, u, t, Approved
<1>9. Verdict(Not(s), {u, t}) = "allow" <=> s = "true" /\ (u = "true" \/ t = "true")
      BY <1>2, <1>3, <1>4 DEF Verdict, Not, Certain
<1>10. QED
      BY <1>1, <1>2, <1>3, <1>5, <1>6, <1>7, <1>8, <1>9 DEF Mode
-----------------------------------------------------------------------------
(* What is sanctioned stays so when unknown facts become known.            *)

LEMMA OverridesStable ==
    ASSUME NEW r, WellFormed(r), NEW facts \in Facts, NEW f \in Facts, Extends(f, facts),
           LET k == Deciding(r, facts)
               vs == Overrides(r, facts)
           IN  ~(k \in DOMAIN vs /\ vs[k] = "error")
    PROVE  LET k == Deciding(r, facts)
           IN  /\ Deciding(r, f) = k
               /\ DOMAIN Overrides(r, f) = DOMAIN Overrides(r, facts)
               /\ k \in DOMAIN Overrides(r, facts) => Overrides(r, f)[k] = Overrides(r, facts)[k]
<1> DEFINE k == Deciding(r, facts)
           vs == Overrides(r, facts)
           ws == Overrides(r, f)
           n == Len(r.overrides)
<1>1. /\ n \in Nat /\ DOMAIN r.overrides = 1..n
      /\ vs \in Seq(Values) /\ Len(vs) = n /\ DOMAIN vs = 1..n
      /\ \A i \in 1..n : Condition(r.overrides[i].when) /\ vs[i] = evaluate(r.overrides[i].when, facts)
      BY OverridesFacts
<1>2. /\ ws \in Seq(Values) /\ Len(ws) = n /\ DOMAIN ws = 1..n
      /\ \A i \in 1..n : ws[i] = evaluate(r.overrides[i].when, f)
      BY OverridesFacts
<1>3. /\ k \in 1..(n + 1) /\ (k \in DOMAIN vs <=> k <= n)
      /\ k \in DOMAIN vs => vs[k] = "true"
      /\ \A j \in 1..(k - 1) : vs[j] = "false"
      BY DecidingFacts
<1>4. \A i \in 1..n : vs[i] # "error" => ws[i] = vs[i]
      BY <1>1, <1>2, ConditionStable
<1>5. Deciding(r, f) = FirstOther(ws, "false")
      BY DEF Deciding
<1> HIDE DEF k, vs, ws, n
<1>6. k <= n => ws[k] = "true"
      BY <1>1, <1>3, <1>4
<1>7. \A j \in 1..(k - 1) : ws[j] = "false"
      <2>1. \A j \in 1..(k - 1) : j \in 1..n
            BY <1>1, <1>3
      <2>2. QED
            BY <1>3, <1>4, <2>1
<1>8. FirstOther(ws, "false") = k
      <2>1. k <= Len(ws) => ws[k] # "false"
            BY <1>2, <1>6
      <2>2. k \in 1..(Len(ws) + 1)
            BY <1>2, <1>3
      <2>3. QED
            BY <1>2, <1>7, <2>1, <2>2, FirstOtherUnique
<1>9. QED
      BY <1>1, <1>2, <1>3, <1>5, <1>6, <1>8 DEF k, vs, ws

LEMMA ResolveStable ==
    ASSUME NEW p, Active(p), NEW c \in CLASSES, NEW role \in Roles,
           NEW facts \in Facts, NEW f \in Facts, Extends(f, facts),
           ~resolve(p, c, role, facts).errors, resolve(p, c, role, facts).mode # "never"
    PROVE  /\ ~resolve(p, c, role, f).errors
           /\ resolve(p, c, role, f).mode = resolve(p, c, role, facts).mode
           /\ resolve(p, c, role, f).approval = resolve(p, c, role, facts).approval
<1> DEFINE q == resolve(p, c, role, facts)
           z == resolve(p, c, role, f)
           r == rule(p, c, role)
           b == Base(p, c, role, facts)
           o == overridden(r, facts, b)
           y == overridden(r, f, b)
<1>1. WellFormed(r)
      BY RuleFacts
<1>2. /\ b \in Mode /\ q.mode \in Mode
      /\ q.errors <=> b # "never" /\ (~Resolved(r, facts) \/ o.error)
      /\ q.mode = "auto" <=> o.mode = "auto" /\ AllHold(r, facts) /\ ~q.errors
      /\ q.mode = "never" <=>
            \/ b = "never" \/ o.mode = "never"
            \/ Governed(c) /\ (~AllHold(r, facts) \/ q.errors)
      /\ q.approval = [ttl |-> Ttl(p, r), channels |-> Channels(p, r),
                       roles |-> approvers(p, c, r.quorum)]
      BY ResolveFacts
<1>3. b # "never" /\ Resolved(r, facts) /\ ~o.error
      BY <1>2
<1>4. Base(p, c, role, f) = b
      <2>1. /\ c # "governance.credentials" \/ OwnCredentials(role, facts)
            /\ ~Terminal(r, facts) /\ b = role_mode(p, c, role)
            BY <1>3 DEF Base
      <2>2. \A a \in {"member_id", "open_minutes", "visitor"} : facts[a] # Absent => f[a] = facts[a]
            BY DEF Extends, Attributes
      <2>3. OwnCredentials(role, facts) => OwnCredentials(role, f)
            BY <2>2 DEF OwnCredentials
      <2>4. ~Terminal(r, f)
            <3>1. r.never_for => f["visitor"] = 0
                  BY <2>1, <2>2 DEF Terminal, Absent
            <3>2. \A g \in guards(r) : ~(f[g[1]] \in {Absent, Null} \/ f[g[1]] > g[2])
                  <4>1. \A g \in guards(r) : g[1] = "open_minutes"
                        BY DEF guards
                  <4>2. QED
                        BY <2>1, <2>2, <4>1 DEF Terminal
            <3>3. QED
                  BY <3>1, <3>2 DEF Terminal
      <2>5. QED
            BY <2>1, <2>3, <2>4 DEF Base
<1>5. \A i \in DOMAIN r.conditions : evaluate(r.conditions[i], f) = evaluate(r.conditions[i], facts)
      BY <1>1, <1>3, ConditionStable DEF WellFormed, Resolved
<1>6. Resolved(r, f) /\ (AllHold(r, f) <=> AllHold(r, facts))
      BY <1>3, <1>5 DEF Resolved, AllHold
<1>7. y.mode = o.mode /\ ~y.error
      <2> DEFINE k == Deciding(r, facts)
                 vs == Overrides(r, facts)
                 ws == Overrides(r, f)
      <2>1. /\ o.error <=> k \in DOMAIN vs /\ vs[k] = "error"
            /\ ~(k \in DOMAIN vs /\ vs[k] = "true") => o.mode = b
            /\ k \in DOMAIN vs /\ vs[k] = "true" => o.mode = Strictest(b, r.overrides[k].mode)
            BY <1>1, <1>2, OverriddenFacts
      <2>2. /\ Deciding(r, f) = k /\ DOMAIN ws = DOMAIN vs
            /\ k \in DOMAIN vs => ws[k] = vs[k]
            BY <1>1, <1>3, <2>1, OverridesStable
      <2>3. /\ y.error <=> Deciding(r, f) \in DOMAIN ws /\ ws[Deciding(r, f)] = "error"
            /\ ~(Deciding(r, f) \in DOMAIN ws /\ ws[Deciding(r, f)] = "true") => y.mode = b
            /\ Deciding(r, f) \in DOMAIN ws /\ ws[Deciding(r, f)] = "true" =>
                    y.mode = Strictest(b, r.overrides[Deciding(r, f)].mode)
            BY <1>1, <1>2, OverriddenFacts
      <2> HIDE DEF k, vs, ws, y, o, b, r
      <2>4. QED
            BY <1>3, <2>1, <2>2, <2>3
<1>8. /\ z.mode \in Mode
      /\ z.errors <=> b # "never" /\ (~Resolved(r, f) \/ y.error)
      /\ z.mode = "auto" <=> y.mode = "auto" /\ AllHold(r, f) /\ ~z.errors
      /\ z.mode = "never" <=>
            \/ b = "never" \/ y.mode = "never"
            \/ Governed(c) /\ (~AllHold(r, f) \/ z.errors)
      /\ z.approval = [ttl |-> Ttl(p, r), channels |-> Channels(p, r),
                       roles |-> approvers(p, c, r.quorum)]
      BY <1>4, ResolveFacts
<1> HIDE DEF q, z, r, b, o, y
<1>9. ~z.errors /\ ~q.errors /\ q.mode # "never"
      BY <1>6, <1>7, <1>8 DEF q
<1>10. z.mode = q.mode
      BY <1>2, <1>6, <1>7, <1>8, <1>9 DEF Mode
<1>11. QED
      BY <1>2, <1>8, <1>9, <1>10 DEF q, z

LEMMA SanctionsStable ==
    ASSUME NEW p, Active(p), NEW c \in CLASSES, NEW role \in Roles, NEW a,
           NEW facts \in Facts, NEW f \in Facts, Extends(f, facts),
           Sanctions(p, c, role, facts, a)
    PROVE  Sanctions(p, c, role, f, a)
<1>1. ~resolve(p, c, role, facts).errors /\ resolve(p, c, role, facts).mode # "never"
      BY DEF Sanctions
<1>2. /\ ~resolve(p, c, role, f).errors
      /\ resolve(p, c, role, f).mode = resolve(p, c, role, facts).mode
      /\ resolve(p, c, role, f).approval = resolve(p, c, role, facts).approval
      BY <1>1, ResolveStable
<1>3. QED
      BY <1>2 DEF Sanctions

\* Security is sanctioned on the phone of an owner or adult only.
LEMMA SecurityFacts ==
    ASSUME NEW p, Active(p), NEW c \in CLASSES, NEW role \in Roles, NEW facts \in Facts,
           NEW a, Recorded(a), Sanctions(p, c, role, facts, a), Domain(c) = "security"
    PROVE  a # <<>> /\ a[1].channel = "app_push" /\ a[1].role \in {"owner", "adult"}
<1> DEFINE q == resolve(p, c, role, facts)
           r == rule(p, c, role)
           b == Base(p, c, role, facts)
           o == overridden(r, facts, b)
<1>1. WellFormed(r)
      BY RuleFacts
<1>2. q.approval = [ttl |-> Ttl(p, r), channels |-> Channels(p, r),
                    roles |-> approvers(p, c, r.quorum)]
      BY ResolveFacts
<1>3. b # "auto"
      BY RoleModeFacts DEF Base
<1>4. b \in Mode
      BY ResolveFacts
<1>5. o.mode # "auto"
      <2> HIDE DEF r, b
      <2>1. QED
            BY <1>1, <1>3, <1>4, OverriddenFacts
<1>6. q.mode # "auto"
      BY <1>5, ResolveFacts
<1>7. /\ a # <<>> /\ a[1].role \in approvers(p, c, r.quorum) /\ a[1].channel \in Channels(p, r)
      <2>1. a # <<>> /\ a[1].role \in q.approval.roles /\ a[1].channel \in q.approval.channels
            BY <1>6 DEF Sanctions
      <2> HIDE DEF q, r
      <2>2. QED
            BY <1>2, <2>1
<1>8. a[1].channel = "app_push"
      <2>1. Channels(p, r) = Channels(p, rule(p, c, "owner"))
            BY CommonFacts
      <2>2. "alexa" \notin Channels(p, r)
            BY <2>1 DEF Active
      <2>3. Channels(p, r) \subseteq Channel
            BY <1>1 DEF Channels, Active, WellFormed
      <2> HIDE DEF r
      <2>4. QED
            BY <1>7, <2>2, <2>3 DEF Channel
<1>9. a[1].role \in {"owner", "adult"}
      <2> DEFINE s == a[1].role
      <2>1. s \in Roles /\ domain_allowed(p, s, c) /\ (s = "owner" \/ Adult(p, s))
            BY <1>7 DEF approvers
      <2> HIDE DEF s
      <2>2. FixedRelations(p)
            BY DEF Active
      <2>3. s \in {"owner", "adult", "caregiver"}
            BY <2>1, <2>2, AncestorsFacts
      <2>4. s # "caregiver"
            <3> SUFFICES ASSUME s = "caregiver" PROVE FALSE
                OBVIOUS
            <3>1. /\ p.roles["caregiver"].limited_to # {}
                  /\ p.roles["caregiver"].limited_to \subseteq {"environment", "health", "communication"}
                  BY <2>1, <2>2 DEF FixedRelations
            <3>2. s \in Ancestors(p, s)
                  BY <2>1, <2>2, AncestorsFacts
            <3>3. Domain(c) \in p.roles["caregiver"].limited_to
                  BY <2>1, <3>1, <3>2 DEF domain_allowed
            <3>4. QED
                  BY <3>1, <3>3
      <2>5. QED
            BY <2>3, <2>4 DEF s
<1>10. QED
      BY <1>7, <1>8, <1>9
-----------------------------------------------------------------------------
(* Every policy that validates is active once loaded.                      *)

LEMMA LoadedRule ==
    ASSUME NEW p \in Candidates, validate_policy(p), NEW c \in DOMAIN p.autonomy
    PROVE  /\ c \in DOMAIN load(p).autonomy
           /\ WellFormed(load(p).autonomy[c])
           /\ load(p).autonomy[c].mode = p.autonomy[c].mode
           /\ load(p).autonomy[c].ask_channels = p.autonomy[c].ask_channels
<1> DEFINE r == p.autonomy[c]
           l == load(p).autonomy[c]
           cs == [i \in DOMAIN r.conditions |-> Parser(r.conditions[i])]
           os == [i \in DOMAIN r.overrides |-> [when |-> Parser(r.overrides[i].when),
                                                mode |-> r.overrides[i].mode]]
<1>1. /\ Constitution(p)
      /\ \A i \in DOMAIN r.conditions : Parses(r.conditions[i])
      /\ \A i \in DOMAIN r.overrides : Parses(r.overrides[i].when)
      BY RulesAssumption
<1>2. r \in Rule
      <2>1. p.autonomy \in [DOMAIN p.autonomy -> Rule]
            BY <1>1 DEF Constitution
      <2> HIDE DEF Rule
      <2>2. QED
            BY <2>1
<1>3. restrictions(r)
      BY DEF validate_policy
<1>4. c \in DOMAIN load(p).autonomy /\ l = [r EXCEPT !.conditions = cs, !.overrides = os]
      <2> DEFINE A == [d \in DOMAIN p.autonomy |->
                        [p.autonomy[d] EXCEPT
                            !.conditions = [i \in DOMAIN p.autonomy[d].conditions |->
                                                Parser(p.autonomy[d].conditions[i])],
                            !.overrides = [i \in DOMAIN p.autonomy[d].overrides |->
                                                [when |-> Parser(p.autonomy[d].overrides[i].when),
                                                 mode |-> p.autonomy[d].overrides[i].mode]]]]
      <2>1. load(p) = [p EXCEPT !.autonomy = A]
            BY DEF load
      <2>2. p = [roles |-> p.roles, autonomy |-> p.autonomy, per_role |-> p.per_role,
                 defaults |-> p.defaults]
            BY <1>1 DEF Constitution
      <2>3. A[c] = [r EXCEPT !.conditions = cs, !.overrides = os] /\ DOMAIN A = DOMAIN p.autonomy
            OBVIOUS
      <2> HIDE DEF A
      <2>4. load(p).autonomy = A
            BY <2>1, <2>2
      <2>5. QED
            BY <2>3, <2>4
<1>5. /\ l.mode = r.mode /\ l.conditions = cs /\ l.overrides = os
      /\ l.max_open_minutes = r.max_open_minutes /\ l.never_for = r.never_for
      /\ l.ask_channels = r.ask_channels
      <2> HIDE DEF l, r, cs, os
      <2>1. QED
            BY <1>2, <1>4 DEF Rule
<1>6. /\ r.mode \in Mode /\ r.conditions \in Seq(Seq(STRING))
      /\ r.overrides \in Seq([when : Seq(STRING), mode : Mode])
      /\ r.max_open_minutes \in Nat \cup {Null} /\ r.never_for \in BOOLEAN
      /\ r.ask_channels \subseteq Channel
      <2> HIDE DEF r
      <2>1. QED
            BY <1>2 DEF Rule
<1>7. cs \in Seq(Seq(Node)) /\ \A i \in DOMAIN cs : Condition(cs[i])
      <2>1. \A i \in DOMAIN r.conditions : Condition(cs[i])
            BY <1>1, <1>3 DEF Parses, restrictions
      <2>2. \A i \in DOMAIN r.conditions : cs[i] \in Seq(Node)
            BY <2>1 DEF Condition
      <2>3. Len(r.conditions) \in Nat /\ DOMAIN r.conditions = 1..Len(r.conditions)
            BY <1>6
      <2>4. cs \in [1..Len(r.conditions) -> Seq(Node)]
            BY <2>2, <2>3
      <2> HIDE DEF cs
      <2>5. cs \in Seq(Seq(Node)) /\ DOMAIN cs = DOMAIN r.conditions
            BY <2>3, <2>4, TableFacts
      <2>6. QED
            BY <2>1, <2>5
<1>8. /\ os \in Seq([when : Seq(Node), mode : Mode])
      /\ \A i \in DOMAIN os : Condition(os[i].when)
      <2> DEFINE O == [when : Seq(Node), mode : Mode]
      <2>1. \A i \in DOMAIN r.overrides : Condition(os[i].when)
            BY <1>1, <1>3 DEF Parses, restrictions
      <2>2. Len(r.overrides) \in Nat /\ DOMAIN r.overrides = 1..Len(r.overrides)
            BY <1>6
      <2>3. \A i \in DOMAIN r.overrides : r.overrides[i].mode \in Mode
            <3> DEFINE W == [when : Seq(STRING), mode : Mode]
            <3>1. r.overrides \in Seq(W)
                  BY <1>6
            <3> HIDE DEF W
            <3>2. \A i \in DOMAIN r.overrides : r.overrides[i] \in W
                  BY <3>1
            <3>3. QED
                  BY <3>2 DEF W
      <2>4. \A i \in DOMAIN r.overrides : os[i] \in O
            <3>1. \A i \in DOMAIN r.overrides : Parser(r.overrides[i].when) \in Seq(Node)
                  BY <2>1 DEF Condition
            <3>2. QED
                  BY <2>3, <3>1
      <2> HIDE DEF O
      <2>5. os \in [1..Len(r.overrides) -> O]
            BY <2>2, <2>4
      <2> HIDE DEF os
      <2>6. os \in Seq(O) /\ DOMAIN os = DOMAIN r.overrides
            BY <2>2, <2>5, TableFacts
      <2>7. QED
            BY <2>1, <2>6 DEF O
<1> HIDE DEF l, r, cs, os
<1>9. WellFormed(l)
      BY <1>5, <1>6, <1>7, <1>8 DEF WellFormed
<1>10. QED
      BY <1>4, <1>5, <1>9 DEF l, r

LEMMA LoadedFacts ==
    ASSUME NEW p \in Candidates, validate_policy(p)
    PROVE  Active(load(p))
<1> DEFINE l == load(p)
<1>1. Constitution(p)
      BY RulesAssumption
<1>2. /\ l.roles = p.roles /\ l.per_role = p.per_role /\ l.defaults = p.defaults
      /\ DOMAIN l.autonomy = DOMAIN p.autonomy
      <2>1. p = [roles |-> p.roles, autonomy |-> p.autonomy, per_role |-> p.per_role,
                 defaults |-> p.defaults]
            BY <1>1 DEF Constitution
      <2>2. QED
            BY <2>1 DEF load
<1> HIDE DEF l
<1>3. FixedRelations(l)
      BY <1>2 DEF validate_policy, FixedRelations
<1>4. \A r \in Roles : \A c \in DOMAIN l.per_role[r] : l.per_role[r][c] \in Mode
      BY <1>1, <1>2 DEF Constitution
<1>5. l.defaults.ask_channels \subseteq Channel
      BY <1>1, <1>2 DEF Constitution
<1>6. \A c \in DOMAIN l.autonomy :
        /\ c \in CLASSES /\ ~Governed(c) /\ WellFormed(l.autonomy[c])
        /\ floor_outcome(c) # "none" => l.autonomy[c].mode # "auto"
      BY <1>2, LoadedRule DEF validate_policy, l
<1>7. ASSUME NEW c \in CLASSES, Domain(c) = "security"
      PROVE  "alexa" \notin Channels(l, rule(l, c, "owner"))
      <2>1. "alexa" \notin Channels(p, rule(p, c, "owner"))
            BY <1>7 DEF validate_policy
      <2>2. ~Governed(c)
            BY <1>7 DEF Governed
      <2>3. rule(l, c, "owner").ask_channels = rule(p, c, "owner").ask_channels
            <3>1. CASE c \in DOMAIN p.autonomy
                  BY <1>2, <2>2, <3>1, LoadedRule DEF rule, l
            <3>2. CASE c \notin DOMAIN p.autonomy
                  BY <1>2, <2>2, <3>2 DEF rule, Bare
            <3>3. QED
                  BY <3>1, <3>2
      <2>4. QED
            BY <1>2, <2>1, <2>3 DEF Channels
<1>8. QED
      BY <1>3, <1>4, <1>5, <1>6, <1>7 DEF Active, l

-----------------------------------------------------------------------------
(* The theorems.                                                           *)

\* What is asked, and what approval is recorded of it.
Asked ==
    request = NoRequest \/ /\ request.class \in CLASSES
                           /\ request.roles \subseteq Roles /\ request.roles # {}
                           /\ request.facts \in FactsOf(request.class)

PTypeOK ==
    /\ Active(policy) /\ Asked /\ Recorded(approval)
    /\ clock \in Nat /\ checks \in Nat /\ helper \in {"up", "down"}
    /\ answer \in [verdict : {"none", "allow", "deny"}, answered : BOOLEAN]

\* Every reachable state has an active policy, a request under roles of the household on
\* facts of its class, and at most one approval, by a role over a channel.
THEOREM PTypeCorrect == PSpec => []PTypeOK
<1>1. PInit => PTypeOK
      <2> SUFFICES ASSUME PInit PROVE PTypeOK
          OBVIOUS
      <2>1. Active(policy)
            BY LoadedFacts DEF PInit
      <2>2. QED
            BY <2>1 DEF PInit, PTypeOK, Asked, Recorded, Unchecked
<1>2. PTypeOK /\ [PNext]_pvars => PTypeOK'
      <2> SUFFICES ASSUME PTypeOK, [PNext]_pvars PROVE PTypeOK'
          OBVIOUS
      <2>1. ASSUME NEW c \in CLASSES, NEW resolved \in Roles, NEW claimed \in Claimed \cup {resolved},
                   NEW facts \in FactsOf(c), ProposeAction(c, resolved, claimed, facts)
            PROVE  PTypeOK'
            <3>1. Claimed \subseteq Roles
                  BY RulesAssumption
            <3>2. Asked'
                  BY <2>1, <3>1 DEF ProposeAction, Asked
            <3>3. QED
                  BY <2>1, <3>2 DEF ProposeAction, PTypeOK
      <2>2. ASSUME NEW role \in Voters, NEW channel \in Channel, Approve(role, channel)
            PROVE  PTypeOK'
            <3>1. role \in Roles /\ clock \in Nat
                  BY RulesAssumption DEF PTypeOK
            <3>2. Recorded(approval')
                  BY <2>2, <3>1 DEF Approve, Recorded
            <3>3. QED
                  BY <2>2, <3>2 DEF Approve, PTypeOK, Asked
      <2>3. CASE Elapse
            BY <2>3 DEF Elapse, PTypeOK, Asked
      <2>4. CASE CheckBoundary
            BY <2>4 DEF CheckBoundary, PTypeOK, Asked
      <2>5. CASE CheckFails
            BY <2>5 DEF CheckFails, PTypeOK, Asked
      <2>6. CASE UNCHANGED pvars
            BY <2>6 DEF pvars, PTypeOK, Asked
      <2>7. QED
            BY <2>1, <2>2, <2>3, <2>4, <2>5, <2>6 DEF PNext
<1>3. QED
      BY <1>1, <1>2, PTL DEF PSpec

\* The check of a request that was made: what it answers is what the evaluator sanctions.
LEMMA CheckedFacts ==
    ASSUME PTypeOK, [PNext]_pvars, checks' # checks
    PROVE  /\ request # NoRequest /\ request.class \in CLASSES
           /\ request.roles \subseteq Roles /\ request.roles # {}
           /\ request.facts \in FactsOf(request.class) /\ FactsOf(request.class) \subseteq Facts
           /\ Active(policy) /\ Recorded(approval)
           /\ answer'.verdict = "allow" <=> answer'.answered /\ Sanctioned(request.facts)
           /\ Sanctioned(request.facts) <=>
                \A role \in request.roles :
                    Sanctions(policy, request.class, role, request.facts, approval)
<1>1. CheckBoundary \/ CheckFails
      BY DEF PNext, pvars, ProposeAction, Approve, Elapse, PTypeOK
<1>2. /\ request # NoRequest /\ request.class \in CLASSES
      /\ request.roles \subseteq Roles /\ request.roles # {}
      /\ request.facts \in FactsOf(request.class) /\ Active(policy) /\ Recorded(approval)
      BY <1>1 DEF CheckBoundary, CheckFails, PTypeOK, Asked
<1>3. FactsOf(request.class) \subseteq Facts /\ request.facts \in Facts
      BY <1>2, RulesAssumption
<1>4. Sanctioned(request.facts) <=>
          \A role \in request.roles :
              Sanctions(policy, request.class, role, request.facts, approval)
      BY DEF Sanctioned, Sanctions
<1>5. boundary_check <=> Sanctioned(request.facts)
      <2>1. \A role \in request.roles :
                authorize(policy, request.class, role, request.facts, approval)
                    <=> Sanctions(policy, request.class, role, request.facts, approval)
            BY <1>2, <1>3, Agreement
      <2>2. QED
            BY <1>4, <2>1 DEF boundary_check
<1>6. answer'.verdict = "allow" <=> answer'.answered /\ Sanctioned(request.facts)
      <2>1. CASE CheckBoundary
            <3>1. answer' = [verdict |-> IF boundary_check THEN "allow" ELSE "deny", answered |-> TRUE]
                  BY <2>1 DEF CheckBoundary
            <3>2. QED
                  BY <1>5, <3>1
      <2>2. CASE CheckFails
            <3>1. answer' = [verdict |-> "deny", answered |-> FALSE]
                  BY <2>2 DEF CheckFails
            <3>2. QED
                  BY <3>1
      <2>3. QED
            BY <1>1, <2>1, <2>2
<1>7. QED
      BY <1>2, <1>3, <1>4, <1>6

\* For every policy that validates, every request and every combination of known, null
\* and missing facts, the compiled statements allow exactly what the evaluator sanctions
\* (BoundaryAgrees).
THEOREM BoundaryAgreement == PSpec => BoundaryAgrees
<1>1. PTypeOK /\ [PNext]_pvars =>
        [checks' # checks =>
            (answer'.verdict = "allow" <=> answer'.answered /\ Sanctioned(request.facts))]_pvars
      BY CheckedFacts
<1>2. QED
      BY <1>1, PTypeCorrect, PTL DEF PSpec, BoundaryAgrees

\* For every policy that validates, an allowed action is one the evaluator sanctions
\* whatever its unknown facts turn out to be, and one of security has an approval on the
\* phone by an owner or adult (PermitIsEarned).
THEOREM PermitEarned == PSpec => PermitIsEarned
<1>1. PTypeOK /\ [PNext]_pvars =>
        [checks' # checks /\ answer'.verdict = "allow" =>
            \A f \in FactsOf(request.class) :
                (\A a \in Attributes : request.facts[a] # Absent => f[a] = request.facts[a])
                    => Sanctioned(f)]_pvars
      <2> SUFFICES ASSUME PTypeOK, [PNext]_pvars, checks' # checks, answer'.verdict = "allow",
                          NEW f \in FactsOf(request.class), Extends(f, request.facts)
                   PROVE  Sanctioned(f)
          BY DEF Extends
      <2>1. \A role \in request.roles :
                /\ role \in Roles
                /\ Sanctions(policy, request.class, role, request.facts, approval)
            BY CheckedFacts
      <2>2. /\ request.class \in CLASSES /\ Active(policy)
            /\ f \in Facts /\ request.facts \in Facts
            BY CheckedFacts
      <2>3. \A role \in request.roles : Sanctions(policy, request.class, role, f, approval)
            BY <2>1, <2>2, SanctionsStable
      <2>4. QED
            BY <2>3 DEF Sanctioned, Sanctions
<1>2. PTypeOK /\ [PNext]_pvars =>
        [checks' # checks /\ answer'.verdict = "allow" /\ Domain(request.class) = "security" =>
            /\ approval # <<>> /\ approval[1].channel = "app_push"
            /\ approval[1].role \in {"owner", "adult"}]_pvars
      <2> SUFFICES ASSUME PTypeOK, [PNext]_pvars, checks' # checks, answer'.verdict = "allow",
                          Domain(request.class) = "security"
                   PROVE  /\ approval # <<>> /\ approval[1].channel = "app_push"
                          /\ approval[1].role \in {"owner", "adult"}
          OBVIOUS
      <2>1. PICK role \in request.roles : TRUE
            BY CheckedFacts
      <2>2. /\ role \in Roles /\ request.class \in CLASSES /\ request.facts \in Facts
            /\ Active(policy) /\ Recorded(approval)
            /\ Sanctions(policy, request.class, role, request.facts, approval)
            BY CheckedFacts
      <2>3. QED
            BY <2>2, SecurityFacts
<1>3. QED
      BY <1>1, <1>2, PTypeCorrect, PTL DEF PSpec, PermitIsEarned, UnknownNeverPermits,
         SecurityNeedsPhone

-----------------------------------------------------------------------------
(* Publication: the inductive invariant.                                   *)


\* The rows that others refer to exist, and do not go away.
RowsExist ==
    /\ \A p \in Proposals : proposals[p] # None /\ proposals[p].draft # None =>
          drafts[proposals[p].draft] # None
    /\ \A h \in Households : writer[h] # None => proposals[writer[h].proposal] # None

\* Only drafts of routed households are published.
JobsBelong == \A d \in Drafts : jobs[d] # None =>
    drafts[d] # None /\ drafts[d].home \in Routed /\ engine # None

\* A job that has begun and did not end is the one the engine is held by, and
\* the engine is shut meanwhile.
OneHolds ==
    /\ \A d \in Drafts : jobs[d] # None /\ jobs[d].status \in Running \cup {"blocked"} =>
          engine # None /\ engine.publication = d
    /\ engine # None /\ engine.ready => engine.publication = None

\* AWS holds these statements and no other, none of them on its way.
Exactly(statements, inventory) ==
    /\ DOMAIN statements = DOMAIN inventory
    /\ \A n \in DOMAIN statements :
          statements[n].status = "active" /\ statements[n].text = inventory[n]

\* The worker has the engine's job, and the inventory that it read is still there.
WorkerKnows == worker.pc # "idle" =>
    /\ worker.job \in Drafts /\ jobs[worker.job] # None /\ worker.status \in {"publishing", "recovering"}
    /\ engine # None /\ engine.publication = worker.job /\ engine.inventory = worker.inventory
    /\ worker.pc = "done" => Exactly(remote, Target)

\* Nobody changes the statements of an engine that nobody holds.
Undisturbed ==
    /\ engine = None => DOMAIN remote = {}
    /\ engine # None /\ engine.publication = None => Exactly(remote, engine.inventory)

\* The recorded inventory is that of the versions in force.
Of(inventory, h) == Restrict(inventory, {n \in DOMAIN inventory : n[1] = h})
InForce(inventory, h, version) ==
    Of(inventory, h) = IF version.status = "active" THEN compiled(h, version.content) ELSE Empty

InventoryInForce == \A h \in Routed :
    InForce(IF engine = None THEN Empty ELSE engine.inventory, h, active[h])

\* A check keeps the engine as it found it.
CheckHolds == check # None =>
    engine # None /\ engine.ready /\ check.inventory = engine.inventory

Inv ==
    /\ TypeOK /\ RowsExist /\ JobsBelong /\ ApprovalsFollowPolicy
    /\ OneHolds /\ WorkerKnows /\ Undisturbed /\ InventoryInForce /\ CheckHolds

-----------------------------------------------------------------------------
(* Inventories.                                                            *)

LEMMA InventoryIs ==
    ASSUME NEW i
    PROVE  i \in Inventory <=>
              DOMAIN i \subseteq Names /\ i \in [DOMAIN i -> {"ask", "never"}]
BY DEF Inventory

LEMMA CompiledIs ==
    ASSUME NEW h, NEW k \in Contents
    PROVE  /\ compiled(h, k) \in Inventory
           /\ \A n \in DOMAIN compiled(h, k) : n[1] = h
<1> DEFINE D == {m \in Names : m[1] = h /\ (m[3] = "forbid" => Rules[k][m[2]] = "never")}
<1>1. PICK c : c = compiled(h, k)
      OBVIOUS
<1>2. c = [n \in D |-> Rules[k][n[2]]]
      BY <1>1 DEF compiled
<1>3. \A n \in Names : n[2] \in Classes
      BY DEF Names
<1>4. \A n \in D : Rules[k][n[2]] \in {"ask", "never"}
      BY <1>3, ConstantsAssumption
<1>5. DOMAIN c = D /\ D \subseteq Names /\ c \in [D -> {"ask", "never"}]
      BY <1>2, <1>4
<1>6. QED
      BY <1>1, <1>5, InventoryIs

LEMMA EmptyIs == Empty \in Inventory /\ DOMAIN Empty = {}
<1>1. DOMAIN Empty = {} /\ Empty \in [{} -> {"ask", "never"}]
      BY DEF Empty
<1>2. QED
      BY <1>1, InventoryIs

\* What is wanted for one household leaves the statements of the others alone.
LEMMA DesiredIs ==
    ASSUME NEW i \in Inventory, NEW h \in Routed, NEW k \in Contents, NEW j,
           j = Merge(Restrict(i, {n \in DOMAIN i : n[1] # h}), compiled(h, k))
    PROVE  /\ j \in Inventory
           /\ Of(j, h) = compiled(h, k)
           /\ \A g \in Routed : g # h => Of(j, g) = Of(i, g)
<1>1. PICK c : c = compiled(h, k)
      OBVIOUS
<1>2. PICK r : r = Restrict(i, {n \in DOMAIN i : n[1] # h})
      OBVIOUS
<1>3. /\ DOMAIN c \subseteq Names /\ c \in [DOMAIN c -> {"ask", "never"}]
      /\ \A n \in DOMAIN c : n[1] = h
      BY <1>1, CompiledIs, InventoryIs
<1>4. /\ DOMAIN i \subseteq Names /\ i \in [DOMAIN i -> {"ask", "never"}]
      BY InventoryIs
<1>5. DOMAIN r = {n \in DOMAIN i : n[1] # h} /\ \A n \in DOMAIN r : r[n] = i[n]
      BY <1>2 DEF Restrict
<1>6. j = [n \in DOMAIN r \cup DOMAIN c |-> IF n \in DOMAIN c THEN c[n] ELSE r[n]]
      BY <1>1, <1>2 DEF Merge
<1>7. DOMAIN j = DOMAIN r \cup DOMAIN c
      BY <1>6
<1>8. /\ \A n \in DOMAIN c : j[n] = c[n]
      /\ \A n \in DOMAIN r : j[n] = i[n] /\ n \notin DOMAIN c
      BY <1>3, <1>5, <1>6
<1>9. j \in Inventory
      <2>1. \A n \in DOMAIN j : n \in Names /\ j[n] \in {"ask", "never"}
            BY <1>3, <1>4, <1>5, <1>7, <1>8
      <2>2. j = [n \in DOMAIN j |-> j[n]]
            BY <1>6
      <2>3. QED
            BY <2>1, <2>2, InventoryIs
<1>10. Of(j, h) = c
       <2>1. {n \in DOMAIN j : n[1] = h} = DOMAIN c
             BY <1>3, <1>5, <1>7
       <2>2. Of(j, h) = [n \in DOMAIN c |-> j[n]]
             BY <2>1 DEF Of, Restrict
       <2>3. c = [n \in DOMAIN c |-> c[n]]
             BY <1>3
       <2>4. QED
             BY <1>8, <2>2, <2>3
<1>11. ASSUME NEW g \in Routed, g # h
       PROVE  Of(j, g) = Of(i, g)
       <2> DEFINE G == {n \in DOMAIN i : n[1] = g}
       <2>1. {n \in DOMAIN j : n[1] = g} = G /\ \A n \in G : j[n] = i[n]
             BY <1>3, <1>5, <1>7, <1>8, <1>11
       <2>2. Of(j, g) = [n \in G |-> j[n]] /\ Of(i, g) = [n \in G |-> i[n]]
             BY <2>1 DEF Of, Restrict
       <2>3. QED
             BY <2>1, <2>2
<1>12. QED
       BY <1>1, <1>9, <1>10, <1>11

-----------------------------------------------------------------------------
(* Proposals, drafts and versions.                                         *)

\* Rows stay.
RowsStay ==
    /\ \A d \in Drafts : drafts[d] # None => drafts'[d] # None /\ drafts'[d].home = drafts[d].home
    /\ \A p \in Proposals : proposals[p] # None => proposals'[p] # None

WritingTyped ==
    /\ proposals \in [Proposals -> Proposal \cup {None}]
    /\ writer \in [Households -> Writing \cup {None}]
    /\ drafts \in [Drafts -> DraftRow \cup {None}]

\* A draft that keeps its home.
LEMMA RevisedDraft ==
    ASSUME TypeOK, NEW d \in Drafts, NEW e \in DraftRow,
           drafts' = [drafts EXCEPT ![d] = e], drafts[d] # None => drafts[d].home = e.home
    PROVE  /\ drafts' \in [Drafts -> DraftRow \cup {None}] /\ drafts'[d] # None
           /\ \A x \in Drafts : drafts[x] # None =>
                 drafts'[x] # None /\ drafts'[x].home = drafts[x].home
BY ConstantsAssumption DEF TypeOK

LEMMA RevisedProposal ==
    ASSUME TypeOK, NEW p \in Proposals, NEW e \in Proposal,
           proposals' = [proposals EXCEPT ![p] = e]
    PROVE  /\ proposals' \in [Proposals -> Proposal \cup {None}]
           /\ proposals'[p] = e /\ proposals'[p] # None
           /\ \A x \in Proposals : x # p => proposals'[x] = proposals[x]
           /\ \A x \in Proposals : proposals[x] # None => proposals'[x] # None
BY ConstantsAssumption DEF TypeOK

LEMMA NewDraftIs ==
    ASSUME TypeOK, NEW h \in Households, NEW d \in Drafts, NEW k \in Contents, Fresh(d)
    PROVE  /\ [home |-> h, base |-> active[h], candidate |-> k,
               reviewed |-> None, status |-> "ready"] \in DraftRow
           /\ drafts[d] = None
BY DEF Fresh, DraftRow, TypeOK

LEMMA NewDraftStep ==
    ASSUME TypeOK, NEW h \in Households, NEW d \in Drafts, NEW k \in Contents, NewDraft(h, d, k)
    PROVE  /\ drafts' \in [Drafts -> DraftRow \cup {None}] /\ drafts'[d] # None
           /\ \A x \in Drafts : drafts[x] # None =>
                 drafts'[x] # None /\ drafts'[x].home = drafts[x].home
<1>1. PICK e : e = [home |-> h, base |-> active[h], candidate |-> k,
                    reviewed |-> None, status |-> "ready"]
      OBVIOUS
<1>2. e \in DraftRow /\ drafts[d] = None /\ drafts' = [drafts EXCEPT ![d] = e]
      BY <1>1, NewDraftIs DEF NewDraft
<1>3. QED
      BY <1>2, RevisedDraft

\* Dismissing a ready draft keeps it a draft of its home.
LEMMA UndraftedIs ==
    ASSUME TypeOK, RowsExist, NEW p \in Proposals, proposals[p] # None,
           NEW ds, ds = Undrafted(drafts, proposals[p].draft)
    PROVE  /\ ds \in [Drafts -> DraftRow \cup {None}]
           /\ \A x \in Drafts : drafts[x] # None => ds[x] # None /\ ds[x].home = drafts[x].home
<1>1. PICK d : d = proposals[p].draft
      OBVIOUS
<1>2. d \in Drafts \cup {None} /\ (d # None => drafts[d] # None)
      BY <1>1 DEF TypeOK, RowsExist, Proposal
<1>3. CASE d # None /\ drafts[d].status = "ready"
      <2>1. d \in Drafts /\ drafts[d] \in DraftRow
            BY <1>2, <1>3 DEF TypeOK
      <2>2. PICK e : e = [drafts[d] EXCEPT !.status = "dismissed"]
            OBVIOUS
      <2>3. e \in DraftRow /\ e.home = drafts[d].home /\ e # None
            BY <2>1, <2>2, ConstantsAssumption DEF DraftRow
      <2>4. ds = [drafts EXCEPT ![d] = e]
            BY <1>1, <1>3, <2>2 DEF Undrafted
      <2>5. QED
            BY <1>2, <1>3, <2>1, <2>3, <2>4 DEF TypeOK
<1>4. CASE ~(d # None /\ drafts[d].status = "ready")
      BY <1>1, <1>4 DEF Undrafted, TypeOK
<1>5. QED
      BY <1>3, <1>4

\* The drafting actions change no other tables.
Drafting ==
    \/ \E h \in Proposers, p \in Proposals : Propose(h, p)
    \/ \E h \in Households, d \in Drafts, k \in Contents : Draft(h, d, k)
    \/ \E p \in Proposals, d \in Drafts, k \in Contents : ProposalDraft(p, d, k)
    \/ \E p \in Proposals : Dismiss(p)
    \/ \E p \in Proposals : Take(p)
    \/ \E h \in Households, d \in Drafts, k \in Contents : Written(h, d, k)
    \/ \E h \in Households : WriterCrash(h)
    \/ \E d \in Drafts, s \in Sessions : Review(d, s)

LEMMA DraftingKeeps ==
    ASSUME TypeOK, Drafting
    PROVE  /\ UNCHANGED <<active, owner, approvals, jobs, engine, worker, remote, check>>
           /\ troubles' \in 0 .. MaxTroubles /\ inputs' \in 0 .. MaxInputs
<1>1. /\ UNCHANGED <<active, owner, approvals, jobs, engine, worker, remote, check>>
      /\ troubles' = troubles \/ (troubles < MaxTroubles /\ troubles' = troubles + 1)
      /\ inputs' = inputs \/ (inputs < MaxInputs /\ inputs' = inputs + 1)
      BY DEF Drafting, Propose, Draft, ProposalDraft, Dismiss, Take, Written, WriterCrash,
             Review, homes, publishing, budgets
<1>2. QED
      BY <1>1, ConstantsAssumption DEF TypeOK

LEMMA DraftingStep ==
    ASSUME TypeOK, RowsExist, Drafting
    PROVE  WritingTyped' /\ RowsStay /\ RowsExist'
<1> DEFINE Linked == \A p \in Proposals : proposals[p] # None /\ proposals[p].draft # None =>
                        drafts[proposals[p].draft] # None
           Taken == \A h \in Households : writer[h] # None => proposals[writer[h].proposal] # None
           Goal == WritingTyped' /\ RowsStay /\ Linked' /\ Taken'
<1>1. /\ drafts \in [Drafts -> DraftRow \cup {None}] /\ writer \in [Households -> Writing \cup {None}]
      /\ proposals \in [Proposals -> Proposal \cup {None}] /\ active \in [Households -> Version]
      BY DEF TypeOK
<1>2. /\ \A p \in Proposals : proposals[p] # None =>
            /\ proposals[p] \in Proposal /\ proposals[p].home \in Households
            /\ proposals[p].draft \in Drafts \cup {None}
      /\ \A h \in Households : writer[h] # None =>
            writer[h] \in Writing /\ writer[h].proposal \in Proposals
      BY <1>1 DEF Proposal, Writing
<1>3. Linked /\ Taken
      BY DEF RowsExist
<1>4. ASSUME UNCHANGED <<proposals, writer>>, drafts' \in [Drafts -> DraftRow \cup {None}],
             \A d \in Drafts : drafts[d] # None => drafts'[d] # None /\ drafts'[d].home = drafts[d].home
      PROVE  Goal
      BY <1>1, <1>2, <1>3, <1>4 DEF WritingTyped, RowsStay
<1>5. ASSUME UNCHANGED writer, NEW p \in Proposals, NEW e \in Proposal,
             proposals' = [proposals EXCEPT ![p] = e],
             drafts' \in [Drafts -> DraftRow \cup {None}], e.draft # None => drafts'[e.draft] # None,
             \A d \in Drafts : drafts[d] # None => drafts'[d] # None /\ drafts'[d].home = drafts[d].home
      PROVE  Goal
      <2>1. /\ proposals' \in [Proposals -> Proposal \cup {None}]
            /\ proposals'[p] = e /\ proposals'[p] # None
            /\ \A x \in Proposals : x # p => proposals'[x] = proposals[x]
            /\ \A x \in Proposals : proposals[x] # None => proposals'[x] # None
            BY <1>5, RevisedProposal
      <2>2. Linked'
            BY <1>2, <1>3, <1>5, <2>1
      <2>3. Taken'
            BY <1>2, <1>3, <1>5, <2>1
      <2>4. QED
            BY <1>1, <1>5, <2>1, <2>2, <2>3 DEF WritingTyped, RowsStay
<1>6. ASSUME UNCHANGED <<proposals, drafts>>, NEW h \in Households, NEW w \in Writing \cup {None},
             writer' = [writer EXCEPT ![h] = w], w # None => proposals[w.proposal] # None
      PROVE  Goal
      BY <1>1, <1>2, <1>3, <1>6 DEF WritingTyped, RowsStay
<1>7. ASSUME \E h \in Proposers, p \in Proposals : Propose(h, p)
      PROVE  Goal
      <2>1. PICK h \in Proposers, p \in Proposals : Propose(h, p)
            BY <1>7
      <2>2. PICK e : e = [home |-> h, status |-> "queued", draft |-> None]
            OBVIOUS
      <2>3. /\ e \in Proposal /\ e.draft = None /\ proposals' = [proposals EXCEPT ![p] = e]
            /\ UNCHANGED <<writer, drafts>>
            BY <2>1, <2>2, ConstantsAssumption DEF Propose, Proposal
      <2>4. QED
            BY <1>1, <1>5, <2>3
<1>8. ASSUME \E h \in Households, d \in Drafts, k \in Contents : Draft(h, d, k)
      PROVE  Goal
      BY <1>4, <1>8, NewDraftStep DEF Draft
<1>9. ASSUME \E p \in Proposals, d \in Drafts, k \in Contents : ProposalDraft(p, d, k)
      PROVE  Goal
      <2>1. PICK p \in Proposals, d \in Drafts, k \in Contents : ProposalDraft(p, d, k)
            BY <1>9
      <2>2. PICK h, u : h = proposals[p].home /\ u = Undrafted(drafts, proposals[p].draft)
            OBVIOUS
      <2>3. PICK e : e = [home |-> h, base |-> active[h], candidate |-> k,
                          reviewed |-> None, status |-> "ready"]
            OBVIOUS
      <2>4. /\ proposals[p] # None /\ Fresh(d) /\ drafts' = [u EXCEPT ![d] = e]
            /\ UNCHANGED writer
            BY <2>1, <2>2, <2>3 DEF ProposalDraft
      <2>5. h \in Households /\ e \in DraftRow /\ e # None /\ drafts[d] = None
            BY <1>2, <2>2, <2>3, <2>4, NewDraftIs, ConstantsAssumption
      <2>6. /\ u \in [Drafts -> DraftRow \cup {None}]
            /\ \A x \in Drafts : drafts[x] # None => u[x] # None /\ u[x].home = drafts[x].home
            BY <2>2, <2>4, UndraftedIs
      <2>7. /\ drafts' \in [Drafts -> DraftRow \cup {None}] /\ drafts'[d] # None
            /\ \A x \in Drafts : drafts[x] # None => drafts'[x] # None /\ drafts'[x].home = drafts[x].home
            BY <2>4, <2>5, <2>6
      <2>8. PICK q : q = [proposals[p] EXCEPT !.status = "ready", !.draft = d]
            OBVIOUS
      <2>9. q \in Proposal /\ q.draft = d /\ proposals' = [proposals EXCEPT ![p] = q]
            BY <1>2, <2>1, <2>4, <2>8 DEF ProposalDraft, Proposal
      <2>10. QED
             BY <1>5, <2>4, <2>7, <2>9
<1>10. ASSUME \E p \in Proposals : Dismiss(p)
      PROVE  Goal
      <2>1. PICK p \in Proposals : Dismiss(p)
            BY <1>10
      <2>2. /\ proposals[p] # None /\ drafts' = Undrafted(drafts, proposals[p].draft)
            /\ UNCHANGED writer
            BY <2>1 DEF Dismiss
      <2>3. PICK u : u = Undrafted(drafts, proposals[p].draft)
            OBVIOUS
      <2>4. /\ u \in [Drafts -> DraftRow \cup {None}] /\ drafts' = u
            /\ \A x \in Drafts : drafts[x] # None => u[x] # None /\ u[x].home = drafts[x].home
            BY <2>2, <2>3, UndraftedIs
      <2>5. PICK q : q = [proposals[p] EXCEPT !.status = "dismissed"]
            OBVIOUS
      <2>6. /\ q \in Proposal /\ q.draft = proposals[p].draft
            /\ proposals' = [proposals EXCEPT ![p] = q]
            BY <1>2, <2>1, <2>2, <2>5 DEF Dismiss, Proposal
      <2>7. q.draft # None => u[q.draft] # None
            BY <1>2, <1>3, <2>2, <2>4, <2>6
      <2>8. QED
            BY <1>5, <2>2, <2>4, <2>6, <2>7
<1>11. ASSUME \E p \in Proposals : Take(p)
      PROVE  Goal
      <2>1. PICK p \in Proposals : Take(p)
            BY <1>11
      <2>2. PICK h : h = proposals[p].home
            OBVIOUS
      <2>3. PICK w : w = [proposal |-> p, base |-> active[h]]
            OBVIOUS
      <2>4. /\ proposals[p] # None /\ writer' = [writer EXCEPT ![h] = w]
            /\ UNCHANGED <<proposals, drafts>>
            BY <2>1, <2>2, <2>3 DEF Take
      <2>5. h \in Households /\ w \in Writing /\ w.proposal = p
            BY <1>1, <1>2, <2>2, <2>3, <2>4 DEF Writing
      <2>6. QED
            BY <1>6, <2>4, <2>5
<1>12. ASSUME \E h \in Households, d \in Drafts, k \in Contents : Written(h, d, k)
      PROVE  Goal
      <2>1. PICK h \in Households, d \in Drafts, k \in Contents : Written(h, d, k)
            BY <1>12
      <2>2. PICK p : p = writer[h].proposal
            OBVIOUS
      <2>3. p \in Proposals /\ proposals[p] # None /\ writer' = [writer EXCEPT ![h] = None]
            BY <1>2, <1>3, <2>1, <2>2 DEF Written
      <2>4. /\ writer' \in [Households -> Writing \cup {None}]
            /\ \A g \in Households : writer'[g] # None => writer'[g] = writer[g]
            BY <1>1, <2>3
      <2>5. ASSUME NEW e \in Proposal, proposals' = [proposals EXCEPT ![p] = e],
                   drafts' \in [Drafts -> DraftRow \cup {None}],
                   e.draft # None => drafts'[e.draft] # None,
                   \A x \in Drafts : drafts[x] # None =>
                      drafts'[x] # None /\ drafts'[x].home = drafts[x].home
            PROVE  Goal
            <3>1. /\ proposals' \in [Proposals -> Proposal \cup {None}]
                  /\ proposals'[p] = e /\ proposals'[p] # None
                  /\ \A x \in Proposals : x # p => proposals'[x] = proposals[x]
                  /\ \A x \in Proposals : proposals[x] # None => proposals'[x] # None
                  BY <2>3, <2>5, RevisedProposal
            <3>2. Linked'
                  BY <1>2, <1>3, <2>5, <3>1
            <3>3. Taken'
                  BY <1>2, <1>3, <2>4, <3>1
            <3>4. QED
                  BY <2>4, <2>5, <3>1, <3>2, <3>3 DEF WritingTyped, RowsStay
      <2>6. \/ /\ NewDraft(h, d, k)
               /\ proposals' = [proposals EXCEPT ![p] = [@ EXCEPT !.status = "ready", !.draft = d]]
            \/ /\ proposals' = [proposals EXCEPT ![p].status = "failed"]
               /\ UNCHANGED drafts
            \/ UNCHANGED <<proposals, drafts>>
            BY <2>1, <2>2 DEF Written
      <2>7. CASE /\ NewDraft(h, d, k)
                 /\ proposals' = [proposals EXCEPT ![p] = [@ EXCEPT !.status = "ready", !.draft = d]]
            <3>1. PICK e : e = [proposals[p] EXCEPT !.status = "ready", !.draft = d]
                  OBVIOUS
            <3>2. e \in Proposal /\ e.draft = d /\ proposals' = [proposals EXCEPT ![p] = e]
                  BY <1>2, <2>3, <2>7, <3>1 DEF Proposal
            <3>3. /\ drafts' \in [Drafts -> DraftRow \cup {None}] /\ drafts'[d] # None
                  /\ \A x \in Drafts : drafts[x] # None =>
                        drafts'[x] # None /\ drafts'[x].home = drafts[x].home
                  BY <2>7, NewDraftStep
            <3>4. QED
                  BY <2>5, <3>2, <3>3
      <2>8. CASE /\ proposals' = [proposals EXCEPT ![p].status = "failed"]
                 /\ UNCHANGED drafts
            <3>1. PICK e : e = [proposals[p] EXCEPT !.status = "failed"]
                  OBVIOUS
            <3>2. /\ e \in Proposal /\ e.draft = proposals[p].draft
                  /\ proposals' = [proposals EXCEPT ![p] = e]
                  BY <1>2, <2>3, <2>8, <3>1 DEF Proposal
            <3>3. e.draft # None => drafts[e.draft] # None
                  BY <1>3, <2>3, <3>2
            <3>4. QED
                  BY <1>1, <2>5, <2>8, <3>2, <3>3
      <2>9. CASE UNCHANGED <<proposals, drafts>>
            BY <1>6, <2>3, <2>9
      <2>10. QED
             BY <2>6, <2>7, <2>8, <2>9
<1>13. ASSUME \E h \in Households : WriterCrash(h)
      PROVE  Goal
      BY <1>6, <1>13 DEF WriterCrash
<1>14. ASSUME \E d \in Drafts, s \in Sessions : Review(d, s)
      PROVE  Goal
      <2>1. PICK d \in Drafts, s \in Sessions : Review(d, s)
            BY <1>14
      <2>2. drafts[d] \in DraftRow
            BY <1>1, <2>1 DEF Review
      <2>3. PICK e : e = [drafts[d] EXCEPT !.reviewed = s]
            OBVIOUS
      <2>4. /\ e \in DraftRow /\ e.home = drafts[d].home
            /\ drafts' = [drafts EXCEPT ![d] = e] /\ UNCHANGED <<proposals, writer>>
            BY <2>1, <2>2, <2>3 DEF Review, DraftRow
      <2>5. /\ drafts' \in [Drafts -> DraftRow \cup {None}]
            /\ \A x \in Drafts : drafts[x] # None => drafts'[x] # None /\ drafts'[x].home = drafts[x].home
            BY <2>4, RevisedDraft
      <2>6. QED
            BY <1>4, <2>4, <2>5
<1>15. Goal
       BY <1>7, <1>8, <1>9, <1>10, <1>11, <1>12, <1>13, <1>14 DEF Drafting
<1>16. QED
       BY <1>15 DEF RowsExist

-----------------------------------------------------------------------------
(* Activation.                                                             *)

LEMMA CommitStep ==
    ASSUME TypeOK, RowsExist, ApprovalsFollowPolicy, NEW d \in Drafts, drafts[d] # None,
           commit(d), UNCHANGED writer
    PROVE  /\ active' \in [Households -> Version] /\ approvals' \subseteq Approval
           /\ WritingTyped' /\ RowsStay /\ RowsExist' /\ ApprovalsFollowPolicy'
           /\ drafts[d].home \in Households /\ drafts[d].candidate \in Contents
           /\ active'[drafts[d].home].status = "active"
           /\ active'[drafts[d].home].content = drafts[d].candidate
           /\ \A g \in Households : g # drafts[d].home => active'[g] = active[g]
           /\ drafts'[d].status = "activated"
<1>1. PICK h : h = drafts[d].home
      OBVIOUS
<1>2. PICK new : new = [version |-> IF active[h].status = "unvalidated" THEN active[h].version
                                    ELSE active[h].version + 1,
                        content |-> drafts[d].candidate, status |-> "active"]
      OBVIOUS
<1>3. /\ active' = [active EXCEPT ![h] = new]
      /\ approvals' = {IF a.home = h THEN [a EXCEPT !.bound = new] ELSE a : a \in approvals}
      /\ drafts' = [drafts EXCEPT ![d].status = "activated"]
      /\ proposals' = [p \in Proposals |->
            IF proposals[p] # None /\ proposals[p].draft = d
            THEN [proposals[p] EXCEPT !.status = "activated"] ELSE proposals[p]]
      BY <1>1, <1>2 DEF commit
<1>4. drafts[d] \in DraftRow
      BY DEF TypeOK
<1>5. h \in Households /\ drafts[d].candidate \in Contents /\ active[h] \in Version
      BY <1>1, <1>4 DEF TypeOK, DraftRow
<1>6. new \in Version /\ new.status = "active" /\ new.content = drafts[d].candidate
      BY <1>2, <1>5 DEF Version
<1>7. /\ active' \in [Households -> Version] /\ active'[h] = new
      /\ \A g \in Households : g # h => active'[g] = active[g]
      BY <1>3, <1>5, <1>6 DEF TypeOK
<1>8. \A a \in approvals' : a \in Approval /\ a.bound = active'[a.home]
      <2>1. ASSUME NEW a \in approvals
            PROVE  LET b == IF a.home = h THEN [a EXCEPT !.bound = new] ELSE a
                   IN  b \in Approval /\ b.bound = active'[b.home]
            <3>1. a \in Approval /\ a.bound = active[a.home] /\ a.home \in Households
                  BY DEF TypeOK, ApprovalsFollowPolicy, Approval
            <3>2. CASE a.home = h
                  <4>1. PICK b : b = [a EXCEPT !.bound = new]
                        OBVIOUS
                  <4>2. b \in Approval /\ b.bound = new /\ b.home = h
                        BY <1>6, <3>1, <3>2, <4>1 DEF Approval
                  <4>3. QED
                        BY <1>7, <3>2, <4>1, <4>2
            <3>3. CASE a.home # h
                  BY <1>7, <3>1, <3>3
            <3>4. QED
                  BY <3>2, <3>3
      <2>2. QED
            BY <1>3, <2>1
<1>9. PICK e : e = [drafts[d] EXCEPT !.status = "activated"]
      OBVIOUS
<1>10. e \in DraftRow /\ e.home = h /\ e.status = "activated" /\ drafts' = [drafts EXCEPT ![d] = e]
       BY <1>1, <1>3, <1>4, <1>9 DEF DraftRow
<1>11. /\ drafts' \in [Drafts -> DraftRow \cup {None}] /\ drafts'[d] = e
       /\ \A x \in Drafts : drafts[x] # None => drafts'[x] # None /\ drafts'[x].home = drafts[x].home
       <2>1. drafts'[d] = e
             BY <1>10 DEF TypeOK
       <2>2. QED
             BY <1>1, <1>10, <2>1, RevisedDraft
<1>12. ASSUME NEW p \in Proposals
       PROVE  /\ proposals'[p] \in Proposal \cup {None}
              /\ proposals[p] # None <=> proposals'[p] # None
              /\ proposals[p] # None => proposals'[p].draft = proposals[p].draft
       <2>1. CASE proposals[p] # None /\ proposals[p].draft = d
             <3>1. proposals[p] \in Proposal
                   BY <2>1 DEF TypeOK
             <3>2. PICK q : q = [proposals[p] EXCEPT !.status = "activated"]
                   OBVIOUS
             <3>3. q \in Proposal /\ q.draft = proposals[p].draft /\ proposals'[p] = q
                   BY <1>3, <2>1, <3>1, <3>2 DEF Proposal
             <3>4. QED
                   BY <2>1, <3>3, ConstantsAssumption
       <2>2. CASE ~(proposals[p] # None /\ proposals[p].draft = d)
             <3>1. proposals'[p] = proposals[p]
                   BY <1>3, <2>2
             <3>2. QED
                   BY <3>1 DEF TypeOK
       <2>3. QED
             BY <2>1, <2>2
<1>13. proposals' \in [Proposals -> Proposal \cup {None}]
       BY <1>3, <1>12
<1>14. WritingTyped' /\ RowsStay
       BY <1>11, <1>12, <1>13 DEF WritingTyped, RowsStay, TypeOK
<1>15. RowsExist'
       <2>1. \A p \in Proposals : proposals[p] # None => proposals[p].draft \in Drafts \cup {None}
             BY DEF TypeOK, Proposal
       <2>2. \A g \in Households : writer[g] # None => writer[g].proposal \in Proposals
             BY DEF TypeOK, Writing
       <2>3. QED
             BY <1>11, <1>12, <2>1, <2>2 DEF RowsExist
<1>16. ApprovalsFollowPolicy' /\ approvals' \subseteq Approval
       BY <1>8 DEF ApprovalsFollowPolicy
<1>17. QED
       BY <1>1, <1>5, <1>6, <1>7, <1>10, <1>11, <1>14, <1>15, <1>16

LEMMA DesiredOf ==
    ASSUME TypeOK, NEW d \in Drafts, drafts[d] # None, drafts[d].home \in Routed,
           NEW i \in Inventory, NEW j, j = desired_inventory(d, i)
    PROVE  /\ j \in Inventory
           /\ Of(j, drafts[d].home) = compiled(drafts[d].home, drafts[d].candidate)
           /\ \A g \in Routed : g # drafts[d].home => Of(j, g) = Of(i, g)
<1>1. PICK h, k : h = drafts[d].home /\ k = drafts[d].candidate
      OBVIOUS
<1>2. k \in Contents
      BY <1>1 DEF TypeOK, DraftRow
<1>3. j = Merge(Restrict(i, {n \in DOMAIN i : n[1] # h}), compiled(h, k))
      BY <1>1 DEF desired_inventory
<1>4. QED
      BY <1>1, <1>2, <1>3, DesiredIs

-----------------------------------------------------------------------------
(* The engine, the job it is held by, and the worker.                      *)

EngineTyped ==
    /\ jobs \in [Drafts -> Job \cup {None}] /\ engine \in Engine \cup {None}
    /\ DOMAIN remote \subseteq Names /\ remote \in [DOMAIN remote -> Statement]
    /\ worker \in Worker /\ check \in Checking \cup {None}

EngineOK ==
    /\ EngineTyped /\ JobsBelong
    /\ OneHolds /\ WorkerKnows /\ Undisturbed /\ InventoryInForce /\ CheckHolds

LEMMA ToIs ==
    ASSUME TypeOK, NEW d \in Drafts, jobs[d] # None,
           NEW status \in Running \cup {"queued", "failed", "blocked", "committed"}, To(d, status)
    PROVE  /\ jobs' \in [Drafts -> Job \cup {None}] /\ jobs'[d] # None
           /\ jobs'[d].status = status /\ jobs'[d].desired = jobs[d].desired
           /\ \A x \in Drafts : x # d => jobs'[x] = jobs[x]
<1>1. jobs[d] \in Job
      BY DEF TypeOK
<1>2. PICK e : e = [jobs[d] EXCEPT !.status = status]
      OBVIOUS
<1>3. e \in Job /\ e.status = status /\ e.desired = jobs[d].desired /\ jobs' = [jobs EXCEPT ![d] = e]
      BY <1>1, <1>2 DEF Job, To
<1>4. QED
      BY <1>3, ConstantsAssumption DEF TypeOK

\* A job that the engine is held by moves on, or another ends.
LEMMA JobMoves ==
    ASSUME TypeOK, JobsBelong, OneHolds, NEW d \in Drafts, jobs[d] # None, jobs'[d] # None,
           UNCHANGED <<engine, drafts>>,
           jobs'[d].status \in Running \cup {"blocked"} => engine.publication = d,
           \A x \in Drafts : x # d => jobs'[x] = jobs[x]
    PROVE  JobsBelong' /\ OneHolds'
BY DEF JobsBelong, OneHolds

LEMMA IdleIs == Idle \in Worker /\ Idle.pc = "idle"
BY EmptyIs DEF Idle, Worker

LEMMA QueueStep ==
    ASSUME Inv, NEW d \in Drafts, NEW s \in Sessions, Queue(d, s)
    PROVE  EngineOK'
<1> USE DEF Inv
<1>1. PICK e : e = [status |-> "queued", session |-> s, desired |-> Empty, accepted |-> {}]
      OBVIOUS
<1>2. e \in Job /\ e.status = "queued" /\ e # None
      BY <1>1, EmptyIs, ConstantsAssumption DEF Job
<1>3. /\ jobs' = [jobs EXCEPT ![d] = e] /\ jobs[d] = None
      /\ drafts[d] # None /\ drafts[d].home \in Routed
      /\ UNCHANGED <<worker, active, drafts, remote, check>>
      BY <1>1 DEF Queue, homes, writing
<1>4. /\ jobs' \in [Drafts -> Job \cup {None}] /\ jobs'[d] = e
      /\ \A x \in Drafts : x # d => jobs'[x] = jobs[x]
      BY <1>2, <1>3 DEF TypeOK
<1>5. PICK r : r = [ready |-> FALSE, publication |-> None, inventory |-> Empty]
      OBVIOUS
<1>6. /\ r \in Engine /\ r # None /\ r.ready = FALSE /\ r.publication = None
      /\ r.inventory = Empty
      <2>1. r.ready = FALSE /\ r.publication = None /\ r.inventory = Empty
            BY <1>5
      <2>2. r \in Engine
            BY <1>5, EmptyIs DEF Engine
      <2>3. QED
            BY <2>1, <2>2, ConstantsAssumption
<1>7. /\ engine' # None
      /\ engine' = IF engine # None THEN engine ELSE r
      BY <1>3, <1>5, <1>6 DEF Queue
<1>8. EngineTyped' /\ JobsBelong'
      BY <1>3, <1>4, <1>6, <1>7 DEF EngineTyped, TypeOK, JobsBelong
<1>9. OneHolds'
      BY <1>2, <1>4, <1>6, <1>7 DEF OneHolds, Running, JobsBelong
<1>10. WorkerKnows'
       <2>1. worker.pc # "idle" => worker.job # d /\ engine' = engine /\ jobs'[worker.job] = jobs[worker.job]
             BY <1>3, <1>4, <1>7 DEF WorkerKnows
       <2>2. QED
             BY <1>3, <2>1 DEF WorkerKnows, Target
<1>11. Undisturbed'
       BY <1>3, <1>6, <1>7, EmptyIs DEF Undisturbed, Exactly
<1>12. InventoryInForce' /\ CheckHolds'
       BY <1>3, <1>6, <1>7 DEF InventoryInForce, CheckHolds
<1>13. QED
       BY <1>8, <1>9, <1>10, <1>11, <1>12 DEF EngineOK

LEMMA BeginStep ==
    ASSUME Inv, NEW h, NEW d \in Drafts, Begin(h, d)
    PROVE  EngineOK'
<1> USE DEF Inv
<1>1. /\ worker.pc = "idle" /\ engine # None /\ check = None /\ jobs[d] # None
      /\ engine.publication \in {None, d} /\ jobs[d].status = "queued"
      /\ UNCHANGED <<worker, active, drafts, remote, check>>
      BY DEF Begin, Takes, homes, writing
<1>2. d # None /\ drafts[d] # None /\ drafts[d].home \in Routed
      /\ engine \in Engine /\ jobs[d] \in Job /\ engine.inventory \in Inventory
      BY <1>1, ConstantsAssumption DEF Drafts, JobsBelong, TypeOK, Engine
<1>3. CASE checked(d)
      <2>1. PICK j : j = desired_inventory(d, engine.inventory)
            OBVIOUS
      <2>2. j \in Inventory
            BY <1>2, <2>1, DesiredOf
      <2>3. PICK e : e = [jobs[d] EXCEPT !.status = "publishing", !.desired = j]
            OBVIOUS
      <2>4. e \in Job /\ e # None /\ jobs' = [jobs EXCEPT ![d] = e]
            <3>1. e \in Job
                  BY <1>2, <2>2, <2>3 DEF Job, Running
            <3>2. QED
                  BY <1>3, <2>1, <2>3, <3>1, ConstantsAssumption DEF Begin
      <2>5. PICK r : r = [engine EXCEPT !.ready = FALSE, !.publication = d]
            OBVIOUS
      <2>6. /\ r \in Engine /\ r # None /\ r.ready = FALSE /\ r.publication = d
            /\ r.inventory = engine.inventory /\ engine' = r
            <3>1. /\ r \in Engine /\ r.ready = FALSE /\ r.publication = d
                  /\ r.inventory = engine.inventory
                  BY <1>2, <2>5 DEF Engine
            <3>2. QED
                  BY <1>3, <2>5, <3>1, ConstantsAssumption DEF Begin
      <2>7. /\ jobs' \in [Drafts -> Job \cup {None}] /\ jobs'[d] = e
            /\ \A x \in Drafts : x # d => jobs'[x] = jobs[x]
            BY <2>4 DEF TypeOK
      <2>8. EngineTyped' /\ JobsBelong'
            BY <1>1, <1>2, <2>6, <2>7 DEF EngineTyped, TypeOK, JobsBelong
      <2>9. OneHolds'
            BY <1>1, <2>6, <2>7, ConstantsAssumption DEF OneHolds, Drafts
      <2>10. WorkerKnows' /\ Undisturbed' /\ InventoryInForce' /\ CheckHolds'
             BY <1>1, <1>2, <2>6 DEF WorkerKnows, Undisturbed, InventoryInForce, CheckHolds
      <2>11. QED
             BY <2>8, <2>9, <2>10 DEF EngineOK
<1>4. CASE ~checked(d)
      <2>1. To(d, "failed") /\ UNCHANGED engine
            BY <1>4 DEF Begin
      <2>2. /\ jobs' \in [Drafts -> Job \cup {None}] /\ jobs'[d] # None
            /\ jobs'[d].status = "failed" /\ \A x \in Drafts : x # d => jobs'[x] = jobs[x]
            BY <1>1, <2>1, ToIs
      <2>3. JobsBelong' /\ OneHolds'
            BY <1>1, <2>1, <2>2, JobMoves DEF Running
      <2>4. EngineTyped'
            BY <1>1, <2>1, <2>2 DEF EngineTyped, TypeOK
      <2>5. WorkerKnows' /\ Undisturbed' /\ InventoryInForce' /\ CheckHolds'
             BY <1>1, <2>1 DEF WorkerKnows, Undisturbed, InventoryInForce, CheckHolds
      <2>6. QED
             BY <2>3, <2>4, <2>5 DEF EngineOK
<1>5. QED
      BY <1>3, <1>4

LEMMA InterruptedStep ==
    ASSUME Inv, NEW h, NEW d \in Drafts, Interrupted(h, d)
    PROVE  EngineOK'
<1> USE DEF Inv
<1>1. /\ worker.pc = "idle" /\ jobs[d] # None /\ jobs[d].status = "applying"
      /\ To(d, "recovering")
      /\ UNCHANGED <<engine, worker, active, drafts, remote, check>>
      BY DEF Interrupted, Takes, homes, writing
<1>2. /\ jobs' \in [Drafts -> Job \cup {None}] /\ jobs'[d] # None
      /\ \A x \in Drafts : x # d => jobs'[x] = jobs[x]
      BY <1>1, ToIs DEF Running
<1>3. engine.publication = d
      BY <1>1 DEF OneHolds, Running
<1>4. JobsBelong' /\ OneHolds'
      BY <1>1, <1>2, <1>3, JobMoves
<1>5. EngineTyped' /\ WorkerKnows' /\ Undisturbed' /\ InventoryInForce' /\ CheckHolds'
      BY <1>1, <1>2 DEF EngineTyped, TypeOK, WorkerKnows, Undisturbed, InventoryInForce, CheckHolds
<1>6. QED
      BY <1>4, <1>5 DEF EngineOK

LEMMA LoadStep ==
    ASSUME Inv, NEW h, NEW d \in Drafts, Load(h, d)
    PROVE  EngineOK'
<1> USE DEF Inv
<1>1. PICK w : w = [pc |-> IF jobs[d].status = "publishing" THEN "loaded" ELSE "remote",
                    job |-> d, status |-> jobs[d].status, inventory |-> engine.inventory]
      OBVIOUS
<1>2. /\ jobs[d] # None /\ jobs[d].status \in {"publishing", "recovering"} /\ worker' = w
      /\ UNCHANGED <<jobs, engine, active, drafts, remote, check>>
      BY <1>1 DEF Load, Takes, homes, writing
<1>3. engine # None /\ engine.publication = d /\ engine \in Engine
      BY <1>2 DEF OneHolds, Running, TypeOK
<1>4. /\ w \in Worker /\ w.pc # "done" /\ w.job = d /\ w.status = jobs[d].status
      /\ w.inventory = engine.inventory
      BY <1>1, <1>2, <1>3 DEF Worker, Engine
<1>5. WorkerKnows'
      BY <1>2, <1>3, <1>4 DEF WorkerKnows
<1>6. EngineTyped' /\ JobsBelong' /\ OneHolds'
      BY <1>2, <1>4 DEF EngineTyped, TypeOK, JobsBelong, OneHolds
<1>7. Undisturbed' /\ InventoryInForce' /\ CheckHolds'
      BY <1>2 DEF Undisturbed, InventoryInForce, CheckHolds
<1>8. QED
      BY <1>5, <1>6, <1>7 DEF EngineOK

\* The worker's job, and what it is to reach.
LEMMA WorkingIs ==
    ASSUME TypeOK, JobsBelong, OneHolds, WorkerKnows, worker.pc # "idle"
    PROVE  /\ worker.job \in Drafts /\ worker.job # None /\ jobs[worker.job] \in Job
           /\ jobs[worker.job] # None
           /\ engine \in Engine /\ engine # None
           /\ engine.publication = worker.job /\ ~engine.ready
           /\ engine.inventory = worker.inventory /\ engine.inventory \in Inventory
           /\ Target \in Inventory
           /\ drafts[worker.job] # None /\ drafts[worker.job].home \in Routed
<1>1. /\ worker.job \in Drafts /\ jobs[worker.job] # None
      /\ engine # None /\ engine.publication = worker.job /\ engine.inventory = worker.inventory
      BY DEF WorkerKnows
<1>2. worker.job # None
      BY <1>1, ConstantsAssumption DEF Drafts
<1>3. jobs[worker.job] \in Job /\ engine \in Engine
      BY <1>1 DEF TypeOK
<1>4. ~engine.ready
      BY <1>1, <1>2 DEF OneHolds
<1>5. engine.inventory \in Inventory /\ jobs[worker.job].desired \in Inventory
      BY <1>3 DEF Engine, Job
<1>6. Target \in Inventory
      BY <1>1, <1>5 DEF Target
<1>7. QED
      BY <1>1, <1>2, <1>3, <1>4, <1>5, <1>6 DEF JobsBelong

\* Back to idle, or on without having reached anything, nothing else happening.
LEMMA WorkerMoves ==
    ASSUME Inv, UNCHANGED <<jobs, engine, active, drafts, remote, check>>,
           \/ worker' = Idle
           \/ /\ worker.pc # "idle"
              /\ \E result \in {"loaded", "remote", "more", "hard", "error"} :
                    worker' = [worker EXCEPT !.pc = result]
    PROVE  EngineOK'
<1> USE DEF Inv
<1>1. worker' \in Worker /\ WorkerKnows'
      <2>1. CASE worker' = Idle
            BY <2>1, IdleIs DEF WorkerKnows
      <2>2. ASSUME worker.pc # "idle", NEW result \in {"loaded", "remote", "more", "hard", "error"},
                   worker' = [worker EXCEPT !.pc = result]
            PROVE  worker' \in Worker /\ WorkerKnows'
            <3>1. /\ worker' \in Worker /\ worker'.pc # "done" /\ worker'.job = worker.job
                  /\ worker'.status = worker.status /\ worker'.inventory = worker.inventory
                  BY <2>2 DEF TypeOK, Worker
            <3>2. QED
                  BY <2>2, <3>1 DEF WorkerKnows
      <2>3. QED
            BY <2>1, <2>2
<1>2. EngineTyped' /\ JobsBelong' /\ OneHolds'
      BY <1>1 DEF EngineTyped, TypeOK, JobsBelong, OneHolds
<1>3. Undisturbed' /\ InventoryInForce' /\ CheckHolds'
      BY DEF Undisturbed, InventoryInForce, CheckHolds
<1>4. QED
      BY <1>1, <1>2, <1>3 DEF EngineOK

\* The worker's job moves on and the worker is idle again, or goes on to the
\* remote step.
LEMMA WorkerReports ==
    ASSUME Inv, worker.pc # "idle", UNCHANGED <<engine, active, drafts, remote, check>>,
           jobs' \in [Drafts -> Job \cup {None}], jobs'[worker.job] # None,
           \A x \in Drafts : x # worker.job => jobs'[x] = jobs[x],
           worker' = Idle \/ worker' = [worker EXCEPT !.pc = "remote"]
    PROVE  EngineOK'
<1> USE DEF Inv
<1>1. /\ worker.job \in Drafts /\ jobs[worker.job] # None
      /\ engine.publication = worker.job
      BY WorkingIs
<1>2. JobsBelong' /\ OneHolds'
      BY <1>1, JobMoves
<1>3. worker' \in Worker /\ WorkerKnows'
      <2>1. CASE worker' = Idle
            BY <2>1, IdleIs DEF WorkerKnows
      <2>2. CASE worker' = [worker EXCEPT !.pc = "remote"]
            <3>1. /\ worker' \in Worker /\ worker'.pc = "remote" /\ worker'.job = worker.job
                  /\ worker'.status = worker.status /\ worker'.inventory = worker.inventory
                  BY <2>2 DEF TypeOK, Worker
            <3>2. QED
                  BY <3>1 DEF WorkerKnows
      <2>3. QED
            BY <2>1, <2>2
<1>4. EngineTyped' /\ Undisturbed' /\ InventoryInForce' /\ CheckHolds'
      BY <1>3 DEF EngineTyped, TypeOK, Undisturbed, InventoryInForce, CheckHolds
<1>5. QED
      BY <1>2, <1>3, <1>4 DEF EngineOK

LEMMA ApplyStep ==
    ASSUME Inv, Apply
    PROVE  EngineOK'
<1> USE DEF Inv
<1>1. PICK d : d = worker.job
      OBVIOUS
<1>2. /\ worker.pc = "loaded" /\ UNCHANGED <<engine, active, drafts, remote, check>>
      /\ \/ To(d, "applying") /\ worker' = [worker EXCEPT !.pc = "remote"]
         \/ To(d, "recovering") /\ worker' = Idle
      BY <1>1 DEF Apply, homes, writing
<1>3. d \in Drafts /\ jobs[d] # None
      BY <1>1, <1>2, WorkingIs
<1>4. /\ jobs' \in [Drafts -> Job \cup {None}] /\ jobs'[d] # None
      /\ \A x \in Drafts : x # d => jobs'[x] = jobs[x]
      BY <1>2, <1>3, ToIs DEF Running
<1>5. QED
      BY <1>1, <1>2, <1>4, WorkerReports

LEMMA ReportStep ==
    ASSUME Inv, Report
    PROVE  EngineOK'
<1> USE DEF Inv
<1>1. PICK d : d = worker.job
      OBVIOUS
<1>2. /\ worker.pc \in {"more", "hard", "error"} /\ worker' = Idle
      /\ UNCHANGED <<engine, active, drafts, remote, check>>
      BY DEF Report, homes, writing
<1>3. d \in Drafts /\ jobs[d] # None /\ jobs[d] \in Job /\ worker.status \in {"publishing", "recovering"}
      BY <1>1, <1>2, WorkingIs DEF WorkerKnows
<1>4. /\ jobs' \in [Drafts -> Job \cup {None}] /\ jobs'[d] # None
      /\ \A x \in Drafts : x # d => jobs'[x] = jobs[x]
      <2>1. CASE \E status \in Running \cup {"blocked"} : To(d, status)
            BY <1>3, <2>1, ToIs
      <2>2. CASE /\ worker.pc = "hard"
                 /\ jobs' = [jobs EXCEPT ![d] = [jobs[d] EXCEPT !.status = worker.status,
                       !.accepted = @ \cup {n \in Refused : HardDeny(n)}]]
            <3>1. PICK w, a : w = worker.status /\ a = {n \in Refused : HardDeny(n)}
                  OBVIOUS
            <3>2. w \in Running /\ a \subseteq Names
                  BY <1>3, <3>1 DEF Running, Refused, TypeOK
            <3>3. PICK c, e : c = jobs[d].accepted \cup a /\ e = [jobs[d] EXCEPT !.status = w, !.accepted = c]
                  OBVIOUS
            <3>4. e \in Job /\ e # None /\ jobs' = [jobs EXCEPT ![d] = e]
                  <4>1. e \in Job
                        BY <1>3, <3>2, <3>3 DEF Job
                  <4>2. jobs' = [jobs EXCEPT ![d] = [jobs[d] EXCEPT !.status = w, !.accepted = @ \cup a]]
                        BY <2>2, <3>1, Zenon
                  <4>3. jobs' = [jobs EXCEPT ![d] = e]
                        <5>1. PICK v : v = [jobs[d] EXCEPT !.status = w, !.accepted = @ \cup a]
                              OBVIOUS
                        <5>2. v = e
                              BY <1>3, <3>3, <5>1 DEF Job
                        <5>3. jobs' = [jobs EXCEPT ![d] = v]
                              BY <4>2, <5>1, Zenon
                        <5>4. QED
                              BY <5>2, <5>3, Zenon
                  <4>4. QED
                        BY <4>1, <4>3, ConstantsAssumption
            <3>5. QED
                  BY <1>3, <3>4 DEF TypeOK
      <2>3. QED
            BY <1>1, <1>2, <1>3, <2>1, <2>2 DEF Report, Running
<1>5. QED
      BY <1>1, <1>2, <1>4, WorkerReports

-----------------------------------------------------------------------------
(* The remote statements.                                                  *)

LEMMA PutIs ==
    ASSUME TypeOK, NEW n \in Names, NEW row \in Statement, Put(n, row)
    PROVE  /\ DOMAIN remote' \subseteq Names /\ remote' \in [DOMAIN remote' -> Statement]
           /\ DOMAIN remote' = DOMAIN remote \cup {n} /\ remote'[n] = row
           /\ \A m \in DOMAIN remote : m # n => remote'[m] = remote[m]
<1>1. PICK g : g = [m \in {n} |-> row]
      OBVIOUS
<1>2. DOMAIN g = {n} /\ g[n] = row
      BY <1>1
<1>3. remote' = [m \in DOMAIN remote \cup DOMAIN g |-> IF m \in DOMAIN g THEN g[m] ELSE remote[m]]
      BY <1>1 DEF Put, Merge
<1>4. QED
      BY <1>2, <1>3 DEF TypeOK

\* Done is only said of an engine that holds what was wanted, all of it active.
LEMMA DoneIs ==
    ASSUME TypeOK, Unsettled = {}, Refused = {}, Obsolete = {}, Missing = {}
    PROVE  Exactly(remote, Target)
<1>1. ASSUME NEW n \in DOMAIN remote
      PROVE  n \in DOMAIN Target /\ remote[n].status = "active" /\ remote[n].text = Target[n]
      <2>1. remote[n].status \in {"creating", "active", "refused", "deleting"}
            BY DEF TypeOK, Statement
      <2>2. n \notin Unsettled /\ n \notin Refused /\ n \notin Obsolete /\ n \notin Missing
            OBVIOUS
      <2>3. remote[n].status = "active"
            BY <2>1, <2>2 DEF Unsettled, Refused
      <2>4. n \in DOMAIN Target
            BY <2>2 DEF Obsolete
      <2>5. remote[n].text = Target[n]
            BY <2>2, <2>4 DEF Missing
      <2>6. QED
            BY <2>3, <2>4, <2>5
<1>2. \A n \in DOMAIN Target : n \in DOMAIN remote
      BY DEF Missing
<1>3. QED
      BY <1>1, <1>2 DEF Exactly

LEMMA StepStep ==
    ASSUME Inv, Step
    PROVE  EngineOK'
<1> USE DEF Inv
<1>1. /\ worker.pc = "remote" /\ UNCHANGED <<jobs, engine, active, drafts, check>>
      BY DEF Step, homes, writing
<1>2. /\ engine # None /\ engine.publication # None /\ Target \in Inventory
      BY <1>1, WorkingIs
<1>3. DOMAIN Target \subseteq Names /\ \A n \in DOMAIN Target : Target[n] \in {"ask", "never"}
      BY <1>2, InventoryIs
<1>4. /\ DOMAIN remote' \subseteq Names /\ remote' \in [DOMAIN remote' -> Statement]
      <2>1. CASE UNCHANGED remote
            BY <2>1 DEF TypeOK
      <2>2. ASSUME NEW n \in DOMAIN remote, Deletes(n)
            PROVE  /\ DOMAIN remote' \subseteq Names /\ remote' \in [DOMAIN remote' -> Statement]
            <3>1. PICK row : row = [remote[n] EXCEPT !.status = "deleting"]
                  OBVIOUS
            <3>2. row \in Statement /\ n \in Names
                  BY <3>1 DEF TypeOK, Statement
            <3>3. Put(n, row)
                  BY <2>2, <3>1 DEF Deletes
            <3>4. QED
                  BY <3>2, <3>3, PutIs
      <2>3. ASSUME NEW n \in Missing, NEW b \in BOOLEAN,
                   Put(n, [text |-> Target[n], status |-> "creating", strict |-> b])
            PROVE  /\ DOMAIN remote' \subseteq Names /\ remote' \in [DOMAIN remote' -> Statement]
            <3>1. PICK row : row = [text |-> Target[n], status |-> "creating", strict |-> b]
                  OBVIOUS
            <3>2. n \in DOMAIN Target
                  BY DEF Missing
            <3>3. row \in Statement /\ n \in Names /\ Put(n, row)
                  BY <1>3, <2>3, <3>1, <3>2 DEF Statement
            <3>4. QED
                  BY <3>3, PutIs
      <2>4. Refused \subseteq DOMAIN remote /\ Obsolete \subseteq DOMAIN remote
            BY DEF Refused, Obsolete
      <2>5. \A n : (n \notin jobs[worker.job].accepted) \in BOOLEAN
            OBVIOUS
      <2>6. \/ UNCHANGED remote
            \/ \E n \in DOMAIN remote : Deletes(n)
            \/ \E n \in Missing :
                  Put(n, [text |-> Target[n], status |-> "creating",
                          strict |-> n \notin jobs[worker.job].accepted])
            BY <2>4 DEF Step
      <2>7. QED
            BY <2>1, <2>2, <2>3, <2>5, <2>6
<1>5. \/ /\ worker' = [worker EXCEPT !.pc = "done"] /\ UNCHANGED remote
         /\ Unsettled = {} /\ Refused = {} /\ Obsolete = {} /\ Missing = {}
      \/ \E result \in {"more", "hard", "error"} : worker' = [worker EXCEPT !.pc = result]
      BY DEF Step, Says
<1>6. /\ worker' \in Worker /\ worker'.job = worker.job /\ worker'.status = worker.status
      /\ worker'.inventory = worker.inventory
      /\ worker'.pc = "done" => /\ UNCHANGED remote /\ Unsettled = {} /\ Refused = {}
                                /\ Obsolete = {} /\ Missing = {}
      BY <1>5 DEF TypeOK, Worker
<1>7. Target' = Target
      BY <1>1, <1>6 DEF Target
<1>8. worker'.pc = "done" => Exactly(remote, Target) /\ remote' = remote
      BY <1>6, DoneIs
<1>9. WorkerKnows'
      BY <1>1, <1>6, <1>7, <1>8 DEF WorkerKnows
<1>10. EngineTyped' /\ JobsBelong' /\ OneHolds'
       BY <1>1, <1>4, <1>6 DEF EngineTyped, TypeOK, JobsBelong, OneHolds
<1>11. Undisturbed' /\ InventoryInForce' /\ CheckHolds'
       BY <1>1, <1>2 DEF Undisturbed, InventoryInForce, CheckHolds
<1>12. QED
       BY <1>9, <1>10, <1>11 DEF EngineOK

\* An accepted call finishes: only on an engine that is held, and not yet done.
LEMMA SettleStep ==
    ASSUME Inv, NEW n \in Names, Settle(n)
    PROVE  EngineOK'
<1> USE DEF Inv
<1>1. /\ n \in DOMAIN remote /\ remote[n].status \in {"creating", "deleting"}
      /\ UNCHANGED <<jobs, engine, worker, active, drafts, check>>
      BY DEF Settle, Unsettled, homes, writing, publishing
<1>2. remote[n] \in Statement
      BY <1>1 DEF TypeOK
<1>3. /\ DOMAIN remote' \subseteq Names /\ remote' \in [DOMAIN remote' -> Statement]
      <2>1. CASE remote' = Restrict(remote, DOMAIN remote \ {n})
            BY <2>1 DEF Restrict, TypeOK
      <2>2. ASSUME NEW status \in {"active", "refused"}, Put(n, [remote[n] EXCEPT !.status = status])
            PROVE  /\ DOMAIN remote' \subseteq Names /\ remote' \in [DOMAIN remote' -> Statement]
            <3>1. PICK row : row = [remote[n] EXCEPT !.status = status]
                  OBVIOUS
            <3>2. row \in Statement /\ Put(n, row)
                  BY <1>2, <2>2, <3>1 DEF Statement
            <3>3. QED
                  BY <3>2, PutIs
      <2>3. QED
            BY <2>1, <2>2 DEF Settle
<1>4. engine # None /\ engine.publication # None
      BY <1>1 DEF Undisturbed, Exactly
<1>5. worker.pc # "done"
      BY <1>1 DEF WorkerKnows, Exactly
<1>6. WorkerKnows'
      BY <1>1, <1>5 DEF WorkerKnows
<1>7. EngineTyped' /\ JobsBelong' /\ OneHolds'
      BY <1>1, <1>3 DEF EngineTyped, TypeOK, JobsBelong, OneHolds
<1>8. Undisturbed' /\ InventoryInForce' /\ CheckHolds'
      BY <1>1, <1>4 DEF Undisturbed, InventoryInForce, CheckHolds
<1>9. QED
      BY <1>6, <1>7, <1>8 DEF EngineOK

-----------------------------------------------------------------------------
(* The end of a publication.                                               *)

\* The engine is given free with the inventory that AWS holds.
LEMMA ReadyIs ==
    ASSUME TypeOK, engine # None, NEW i \in Inventory, Ready(i)
    PROVE  /\ engine' \in Engine /\ engine' # None /\ engine'.publication = None
           /\ engine'.inventory = i
<1>1. engine \in Engine
      BY DEF TypeOK
<1>2. PICK e : e = [engine EXCEPT !.ready = TRUE, !.publication = None, !.inventory = i]
      OBVIOUS
<1>3. e \in Engine /\ e.publication = None /\ e.inventory = i
      BY <1>1, <1>2 DEF Engine
<1>4. QED
      BY <1>2, <1>3, ConstantsAssumption DEF Ready

LEMMA RestoreStep ==
    ASSUME Inv, Restore
    PROVE  EngineOK'
<1> USE DEF Inv
<1>1. PICK d : d = worker.job
      OBVIOUS
<1>2. /\ worker.pc = "done" /\ worker.status = "recovering" /\ To(d, "failed")
      /\ Ready(worker.inventory) /\ worker' = Idle
      /\ UNCHANGED <<active, drafts, remote, check>>
      BY <1>1 DEF Restore, homes, writing
<1>3. /\ d \in Drafts /\ jobs[d] # None /\ engine # None /\ engine.publication = d /\ ~engine.ready
      /\ engine.inventory = worker.inventory /\ engine.inventory \in Inventory
      BY <1>1, <1>2, WorkingIs
<1>4. Exactly(remote, engine.inventory)
      BY <1>2, <1>3 DEF WorkerKnows, Target
<1>5. /\ engine' \in Engine /\ engine' # None /\ engine'.publication = None
      /\ engine'.inventory = engine.inventory
      BY <1>2, <1>3, ReadyIs
<1>6. /\ jobs' \in [Drafts -> Job \cup {None}] /\ jobs'[d] # None /\ jobs'[d].status = "failed"
      /\ \A x \in Drafts : x # d => jobs'[x] = jobs[x]
      BY <1>2, <1>3, ToIs
<1>7. EngineTyped' /\ JobsBelong'
      BY <1>2, <1>3, <1>5, <1>6, IdleIs DEF EngineTyped, TypeOK, JobsBelong
<1>8. OneHolds'
      BY <1>3, <1>5, <1>6 DEF OneHolds, Running
<1>9. WorkerKnows' /\ Undisturbed'
      BY <1>2, <1>4, <1>5, IdleIs DEF WorkerKnows, Undisturbed
<1>10. InventoryInForce' /\ CheckHolds'
       BY <1>2, <1>3, <1>5 DEF InventoryInForce, CheckHolds
<1>11. QED
       BY <1>7, <1>8, <1>9, <1>10 DEF EngineOK

\* The version in force and the inventory move on together.
LEMMA CommitEnds ==
    ASSUME Inv, Commit
    PROVE  /\ EngineOK'
           /\ active' \in [Households -> Version] /\ approvals' \subseteq Approval
           /\ WritingTyped' /\ RowsStay /\ RowsExist' /\ ApprovalsFollowPolicy'
<1> USE DEF Inv
<1>1. PICK d, h : d = worker.job /\ h = drafts[worker.job].home
      OBVIOUS
<1>2. /\ worker.pc = "done" /\ worker.status = "publishing" /\ worker' = Idle
      /\ UNCHANGED <<writer, remote, check>>
      BY DEF Commit
<1>3. /\ d \in Drafts /\ jobs[d] # None /\ engine # None /\ engine.publication = d /\ ~engine.ready
      /\ engine.inventory = worker.inventory /\ engine.inventory \in Inventory
      /\ Target \in Inventory /\ drafts[d] # None /\ h \in Routed
      BY <1>1, <1>2, WorkingIs
<1>4. Exactly(remote, jobs[d].desired) /\ Target = jobs[d].desired
      BY <1>1, <1>2 DEF WorkerKnows, Target
<1>5. CASE Holds(d)
      <2>1. /\ To(d, "committed") /\ commit(d) /\ Ready(jobs[d].desired)
            /\ jobs[d].desired = desired_inventory(d, worker.inventory)
            BY <1>1, <1>5 DEF Commit, Holds
      <2>2. /\ active' \in [Households -> Version] /\ approvals' \subseteq Approval
            /\ WritingTyped' /\ RowsStay /\ RowsExist' /\ ApprovalsFollowPolicy'
            /\ active'[h].status = "active" /\ active'[h].content = drafts[d].candidate
            /\ \A g \in Households : g # h => active'[g] = active[g]
            BY <1>1, <1>2, <1>3, <2>1, CommitStep
      <2>3. PICK j : j = jobs[d].desired
            OBVIOUS
      <2>4. /\ j \in Inventory /\ Of(j, h) = compiled(h, drafts[d].candidate)
            /\ \A g \in Routed : g # h => Of(j, g) = Of(engine.inventory, g)
            BY <1>1, <1>3, <2>1, <2>3, DesiredOf
      <2>5. /\ engine' \in Engine /\ engine' # None /\ engine'.publication = None
            /\ engine'.inventory = j
            BY <1>3, <2>1, <2>3, <2>4, ReadyIs
      <2>6. /\ jobs' \in [Drafts -> Job \cup {None}] /\ jobs'[d] # None /\ jobs'[d].status = "committed"
            /\ \A x \in Drafts : x # d => jobs'[x] = jobs[x]
            BY <1>3, <2>1, ToIs
      <2>7. EngineTyped' /\ JobsBelong'
            BY <1>2, <1>3, <2>2, <2>5, <2>6, IdleIs DEF EngineTyped, TypeOK, JobsBelong, RowsStay
      <2>8. OneHolds'
            BY <1>3, <2>5, <2>6 DEF OneHolds, Running
      <2>9. WorkerKnows' /\ Undisturbed'
            BY <1>2, <1>4, <2>3, <2>5, IdleIs DEF WorkerKnows, Undisturbed
      <2>10. InventoryInForce'
             <3>1. ASSUME NEW g \in Routed
                   PROVE  InForce(j, g, active'[g])
                   <4>1. CASE g = h
                         BY <2>2, <2>4, <4>1 DEF InForce
                   <4>2. CASE g # h
                         <5>1. active'[g] = active[g] /\ Of(j, g) = Of(engine.inventory, g)
                               BY <2>2, <2>4, <4>2, ConstantsAssumption
                         <5>2. InForce(engine.inventory, g, active[g])
                               BY <1>3 DEF InventoryInForce
                         <5>3. QED
                               BY <5>1, <5>2 DEF InForce
                   <4>3. QED
                         BY <4>1, <4>2
             <3>2. QED
                   BY <2>5, <3>1 DEF InventoryInForce
      <2>11. CheckHolds'
             BY <1>2, <1>3 DEF CheckHolds
      <2>12. QED
             BY <2>2, <2>7, <2>8, <2>9, <2>10, <2>11 DEF EngineOK
<1>6. CASE ~Holds(d)
      <2>1. To(d, "recovering") /\ UNCHANGED <<engine, active, approvals, drafts, proposals>>
            BY <1>1, <1>6 DEF Commit
      <2>2. /\ jobs' \in [Drafts -> Job \cup {None}] /\ jobs'[d] # None
            /\ \A x \in Drafts : x # d => jobs'[x] = jobs[x]
            BY <1>3, <2>1, ToIs DEF Running
      <2>3. EngineOK'
            BY <1>1, <1>2, <2>1, <2>2, WorkerReports
      <2>4. /\ active' \in [Households -> Version] /\ approvals' \subseteq Approval
            /\ WritingTyped' /\ RowsStay
            BY <1>2, <2>1 DEF TypeOK, WritingTyped, RowsStay
      <2>5. RowsExist' /\ ApprovalsFollowPolicy'
            BY <1>2, <2>1 DEF RowsExist, ApprovalsFollowPolicy
      <2>6. QED
            BY <2>3, <2>4, <2>5
<1>7. QED
      BY <1>5, <1>6

-----------------------------------------------------------------------------
(* Everything together.                                                    *)

LEMMA Initially == Init => Inv
<1> SUFFICES ASSUME Init
             PROVE  Inv
    OBVIOUS
<1>1. Seed \in Contents /\ Published \subseteq Routed /\ Routed \subseteq Households
      BY ConstantsAssumption
<1>2. PICK D : D = UNION {DOMAIN compiled(h, Seed) : h \in Published}
      OBVIOUS
<1>3. Installed = [n \in D |-> compiled(n[1], Seed)[n]]
      BY <1>2 DEF Installed
<1>4. \A n \in D : /\ n \in Names /\ n[1] \in Published /\ n \in DOMAIN compiled(n[1], Seed)
                   /\ compiled(n[1], Seed)[n] \in {"ask", "never"}
      <2>1. ASSUME NEW h \in Published, NEW n \in DOMAIN compiled(h, Seed)
            PROVE  /\ n \in Names /\ n[1] = h /\ compiled(h, Seed)[n] \in {"ask", "never"}
            <3>1. PICK c : c = compiled(h, Seed)
                  OBVIOUS
            <3>2. c \in Inventory /\ n[1] = h
                  BY <1>1, <3>1, CompiledIs
            <3>3. DOMAIN c \subseteq Names /\ c \in [DOMAIN c -> {"ask", "never"}]
                  BY <3>2, InventoryIs
            <3>4. QED
                  BY <3>1, <3>2, <3>3
      <2>2. QED
            BY <1>2, <2>1
<1>5. /\ DOMAIN Installed = D /\ Installed \in Inventory
      /\ \A n \in D : Installed[n] \in {"ask", "never"}
      <2>1. PICK i : i = Installed
            OBVIOUS
      <2>2. DOMAIN i = D /\ i \in [D -> {"ask", "never"}] /\ D \subseteq Names
            BY <1>3, <1>4, <2>1
      <2>3. QED
            BY <2>1, <2>2, InventoryIs
<1>6. ASSUME NEW h \in Routed
      PROVE  Of(Installed, h) = IF h \in Published THEN compiled(h, Seed) ELSE Empty
      <2> DEFINE H == {n \in DOMAIN Installed : n[1] = h}
      <2>1. Of(Installed, h) = [n \in H |-> Installed[n]]
            BY DEF Of, Restrict
      <2>2. CASE h \in Published
            <3>1. PICK c : c = compiled(h, Seed)
                  OBVIOUS
            <3>2. c \in Inventory /\ \A n \in DOMAIN c : n[1] = h
                  BY <1>1, <3>1, CompiledIs
            <3>3. c = [n \in DOMAIN c |-> c[n]]
                  BY <3>2, InventoryIs
            <3>4. H = DOMAIN c
                  BY <1>2, <1>4, <1>5, <2>2, <3>1, <3>2
            <3>5. \A n \in DOMAIN c : Installed[n] = c[n]
                  BY <1>3, <1>5, <3>1, <3>2, <3>4
            <3>6. QED
                  BY <2>1, <2>2, <3>1, <3>3, <3>4, <3>5
      <2>3. CASE h \notin Published
            <3>1. H = {}
                  BY <1>4, <1>5, <2>3
            <3>2. Of(Installed, h) = [n \in {} |-> Installed[n]]
                  BY <2>1, <3>1
            <3>3. QED
                  BY <2>3, <3>2 DEF Empty
      <2>4. QED
            BY <2>2, <2>3
<1>7. /\ engine = IF Published = {} THEN None
                  ELSE [ready |-> TRUE, publication |-> None, inventory |-> Installed]
      /\ remote = [n \in D |-> [text |-> Installed[n], status |-> "active", strict |-> n[3] = "permit"]]
      /\ worker = Idle /\ check = None /\ jobs = [d \in Drafts |-> None]
      BY <1>5 DEF Init
<1>8. PICK r : r = [ready |-> TRUE, publication |-> None, inventory |-> Installed]
      OBVIOUS
<1>9. /\ r \in Engine /\ r.ready = TRUE /\ r.publication = None /\ r.inventory = Installed
      /\ r # None
      <2>1. r.ready = TRUE /\ r.publication = None /\ r.inventory = Installed
            BY <1>8
      <2>2. r \in Engine
            BY <1>5, <1>8 DEF Engine
      <2>3. QED
            BY <2>1, <2>2, ConstantsAssumption
<1>10. Published = {} => D = {}
       BY <1>4
<1>11. EngineTyped
       <2>1. jobs \in [Drafts -> Job \cup {None}] /\ engine \in Engine \cup {None}
             BY <1>7, <1>8, <1>9
       <2>2. \A n \in D : [text |-> Installed[n], status |-> "active", strict |-> n[3] = "permit"] \in Statement
             BY <1>5 DEF Statement
       <2>3. DOMAIN remote = D /\ remote \in [DOMAIN remote -> Statement]
             BY <1>7, <2>2
       <2>4. QED
             BY <1>4, <1>7, <2>1, <2>3, IdleIs DEF EngineTyped
<1>12. /\ active \in [Households -> Version]
       /\ \A h \in Routed : active[h].content = Seed
       /\ \A h \in Routed : active[h].status = IF h \in Published THEN "active" ELSE "unvalidated"
       <2>1. ASSUME NEW h \in Households
             PROVE  /\ active[h] \in Version /\ active[h].content = Seed
                    /\ active[h].status = IF h \in Published THEN "active" ELSE "unvalidated"
             <3>1. active[h] = [version |-> 1, content |-> Seed,
                                status |-> IF h \in Published THEN "active" ELSE "unvalidated"]
                   BY DEF Init
             <3>2. QED
                   BY <1>1, <3>1 DEF Version
       <2>2. active = [h \in Households |-> active[h]]
             BY DEF Init
       <2>3. active \in [Households -> Version]
             BY <2>1, <2>2
       <2>4. QED
             BY <1>1, <2>1, <2>3
<1>13. TypeOK
       <2>1. /\ owner \in [Households -> BOOLEAN] /\ drafts \in [Drafts -> DraftRow \cup {None}]
             /\ proposals \in [Proposals -> Proposal \cup {None}]
             /\ writer \in [Households -> Writing \cup {None}]
             BY DEF Init
       <2>2. approvals \subseteq Approval /\ troubles \in 0 .. MaxTroubles /\ inputs \in 0 .. MaxInputs
             BY ConstantsAssumption DEF Init
       <2>3. QED
             BY <1>11, <1>12, <2>1, <2>2 DEF TypeOK, EngineTyped
<1>14. RowsExist /\ JobsBelong /\ ApprovalsFollowPolicy
       BY DEF Init, RowsExist, JobsBelong, ApprovalsFollowPolicy
<1>15. OneHolds /\ WorkerKnows /\ CheckHolds
       BY <1>7, <1>8, <1>9, IdleIs DEF OneHolds, WorkerKnows, CheckHolds
<1>16. Undisturbed
       <2>1. DOMAIN remote = D /\ \A n \in D : remote[n].status = "active" /\ remote[n].text = Installed[n]
             BY <1>7
       <2>2. Exactly(remote, Installed)
             BY <1>5, <2>1 DEF Exactly
       <2>3. QED
             BY <1>7, <1>8, <1>9, <1>10, <2>1, <2>2 DEF Undisturbed
<1>17. InventoryInForce
       <2>1. Published = {} => Installed = Empty
             BY <1>3, <1>10 DEF Empty
       <2>2. (IF engine = None THEN Empty ELSE engine.inventory) = Installed
             BY <1>7, <1>8, <1>9, <2>1
       <2>3. ASSUME NEW h \in Routed
             PROVE  InForce(Installed, h, active[h])
             <3>1. CASE h \in Published
                   BY <1>6, <1>12, <3>1 DEF InForce
             <3>2. CASE h \notin Published
                   BY <1>6, <1>12, <3>2 DEF InForce
             <3>3. QED
                   BY <3>1, <3>2
       <2>4. QED
             BY <2>2, <2>3 DEF InventoryInForce
<1>18. QED
       BY <1>13, <1>14, <1>15, <1>16, <1>17 DEF Inv

\* Nothing but a household's tables.
LEMMA HomesOnly ==
    ASSUME Inv, UNCHANGED <<jobs, engine, worker, remote>>, RowsStay,
           check' = check \/ check' = None,
           \A h \in Routed : active'[h] = active[h]
    PROVE  EngineOK'
<1> USE DEF Inv
<1>1. EngineTyped' /\ JobsBelong'
      BY DEF EngineTyped, TypeOK, JobsBelong, RowsStay
<1>2. OneHolds' /\ WorkerKnows' /\ Undisturbed'
      BY DEF OneHolds, WorkerKnows, Undisturbed, Target
<1>3. InventoryInForce' /\ CheckHolds'
      BY DEF InventoryInForce, CheckHolds
<1>4. QED
      BY <1>1, <1>2, <1>3 DEF EngineOK

\* The actions of the publication, and of the checks beside it.
Publishing ==
    \/ \E d \in Drafts, s \in Sessions : Queue(d, s)
    \/ \E h \in Routed, d \in Drafts : Begin(h, d) \/ Interrupted(h, d) \/ Load(h, d)
    \/ Apply \/ Step \/ StepFails \/ Report \/ Restore \/ Crash
    \/ \E n \in Names : Settle(n)
    \/ \E h \in Households : Check(h)
    \/ Answered

LEMMA PublishingKeeps ==
    ASSUME TypeOK, Publishing
    PROVE  /\ UNCHANGED <<active, owner, approvals, proposals, writer, drafts>>
           /\ troubles' \in 0 .. MaxTroubles /\ inputs' \in 0 .. MaxInputs
<1>1. UNCHANGED <<active, owner, approvals, proposals, writer, drafts, inputs>>
      BY DEF Publishing, Queue, Begin, Interrupted, Load, Apply, Step, StepFails, Report,
             Restore, Crash, Settle, Check, Answered, homes, writing, budgets
<1>2. troubles' = troubles \/ (troubles < MaxTroubles /\ troubles' = troubles + 1)
      BY DEF Publishing, Queue, Begin, Interrupted, Load, Apply, Step, StepFails, Report,
             Restore, Crash, Settle, Check, Answered, budgets
<1>3. QED
      BY <1>1, <1>2, ConstantsAssumption DEF TypeOK

LEMMA PublishingStep ==
    ASSUME Inv, Publishing
    PROVE  EngineOK'
<1>1. CASE StepFails \/ Crash
      BY <1>1, WorkerMoves DEF StepFails, Crash, Says, homes, writing
<1>2. ASSUME NEW h \in Households, Check(h)
      PROVE  EngineOK'
      <2> USE DEF Inv
      <2>1. PICK c : c = [home |-> h, inventory |-> engine.inventory]
            OBVIOUS
      <2>2. /\ h \in Routed /\ engine # None /\ engine.ready /\ check' = c
            /\ UNCHANGED <<jobs, engine, worker, remote, active, drafts>>
            BY <1>2, <2>1 DEF Check, homes, writing, publishing
      <2>3. c \in Checking /\ c.inventory = engine.inventory
            BY <2>1, <2>2 DEF Checking, TypeOK, Engine
      <2>4. EngineTyped' /\ JobsBelong' /\ CheckHolds'
            BY <2>2, <2>3 DEF EngineTyped, TypeOK, JobsBelong, CheckHolds
      <2>5. OneHolds' /\ WorkerKnows' /\ Undisturbed' /\ InventoryInForce'
            BY <2>2 DEF OneHolds, WorkerKnows, Undisturbed, InventoryInForce, Target
      <2>6. QED
            BY <2>4, <2>5 DEF EngineOK
<1>3. CASE Answered
      <2>1. RowsStay /\ UNCHANGED <<jobs, engine, worker, remote, active>> /\ check' = None
            BY <1>3 DEF Answered, homes, writing, publishing, RowsStay
      <2>2. QED
            BY <2>1, HomesOnly
<1>4. QED
      BY <1>1, <1>2, <1>3, QueueStep, BeginStep, InterruptedStep, LoadStep, ApplyStep,
         StepStep, ReportStep, RestoreStep, SettleStep DEF Publishing

\* Approvals asked for and closed, and a passkey revoked.
Homely ==
    \/ \E h \in Households, c \in Classes : Ask(h, c)
    \/ \E a \in approvals : Close(a)
    \/ \E h \in Households : Revoke(h)

LEMMA HomelyStep ==
    ASSUME TypeOK, ApprovalsFollowPolicy, Homely
    PROVE  /\ UNCHANGED <<active, proposals, writer, drafts, jobs, engine, worker, remote, check, troubles>>
           /\ approvals' \subseteq Approval /\ owner' \in [Households -> BOOLEAN]
           /\ inputs' \in 0 .. MaxInputs /\ ApprovalsFollowPolicy'
<1>1. /\ UNCHANGED <<active, proposals, writer, drafts, jobs, engine, worker, remote, check, troubles>>
      /\ inputs' = inputs \/ (inputs < MaxInputs /\ inputs' = inputs + 1)
      BY DEF Homely, Ask, Close, Revoke, writing, publishing, budgets
<1>2. inputs' \in 0 .. MaxInputs
      BY <1>1, ConstantsAssumption DEF TypeOK
<1>3. ASSUME NEW h \in Households, NEW c \in Classes, Ask(h, c)
      PROVE  /\ approvals' \subseteq Approval /\ owner' \in [Households -> BOOLEAN]
             /\ ApprovalsFollowPolicy'
      <2>1. PICK a : a = [home |-> h, class |-> c, bound |-> active[h]]
            OBVIOUS
      <2>2. a \in Approval /\ a.bound = active[a.home]
            BY <2>1 DEF Approval, TypeOK
      <2>3. approvals' = approvals \cup {a} /\ UNCHANGED <<owner, active>>
            BY <1>3, <2>1 DEF Ask
      <2>4. QED
            BY <2>2, <2>3 DEF TypeOK, ApprovalsFollowPolicy
<1>4. ASSUME (\E a \in approvals : Close(a)) \/ (\E h \in Households : Revoke(h))
      PROVE  /\ approvals' \subseteq Approval /\ owner' \in [Households -> BOOLEAN]
             /\ ApprovalsFollowPolicy'
      BY <1>1, <1>4 DEF Close, Revoke, TypeOK, ApprovalsFollowPolicy
<1>5. QED
      BY <1>1, <1>2, <1>3, <1>4 DEF Homely

\* A home without a route has no statements at AWS.
LEMMA ActivateStep ==
    ASSUME Inv, NEW d \in Drafts, NEW s \in Sessions, Activate(d, s)
    PROVE  /\ EngineOK'
           /\ active' \in [Households -> Version] /\ approvals' \subseteq Approval
           /\ WritingTyped' /\ RowsExist' /\ ApprovalsFollowPolicy'
           /\ UNCHANGED <<owner, troubles, inputs>>
<1> USE DEF Inv
<1>1. /\ drafts[d] # None /\ drafts[d].home \notin Routed /\ commit(d)
      /\ UNCHANGED <<owner, writer, jobs, engine, worker, remote, check, troubles, inputs>>
      BY DEF Activate, publishing, budgets
<1>2. /\ active' \in [Households -> Version] /\ approvals' \subseteq Approval
      /\ WritingTyped' /\ RowsStay /\ RowsExist' /\ ApprovalsFollowPolicy'
      /\ \A g \in Households : g # drafts[d].home => active'[g] = active[g]
      BY <1>1, CommitStep
<1>3. \A h \in Routed : active'[h] = active[h]
      BY <1>1, <1>2, ConstantsAssumption
<1>4. QED
      BY <1>1, <1>2, <1>3, HomesOnly

LEMMA StepKeeps ==
    ASSUME Inv, [Next]_vars
    PROVE  Inv'
<1> USE DEF Inv
<1>1. ASSUME active' \in [Households -> Version], owner' \in [Households -> BOOLEAN],
             approvals' \subseteq Approval, WritingTyped', EngineOK',
             troubles' \in 0 .. MaxTroubles, inputs' \in 0 .. MaxInputs,
             RowsExist', ApprovalsFollowPolicy'
      PROVE  Inv'
      <2>1. TypeOK'
            BY <1>1 DEF TypeOK, WritingTyped, EngineOK, EngineTyped
      <2>2. QED
            BY <1>1, <2>1 DEF EngineOK
<1>2. /\ active \in [Households -> Version] /\ owner \in [Households -> BOOLEAN]
      /\ approvals \subseteq Approval /\ WritingTyped
      /\ troubles \in 0 .. MaxTroubles /\ inputs \in 0 .. MaxInputs
      BY DEF TypeOK, WritingTyped
<1>3. UNCHANGED <<proposals, writer, drafts>> => WritingTyped' /\ RowsExist' /\ RowsStay
      BY <1>2 DEF WritingTyped, RowsExist, RowsStay
<1>4. UNCHANGED <<active, approvals>> => ApprovalsFollowPolicy'
      BY DEF ApprovalsFollowPolicy
<1>5. CASE Drafting
      <2>1. /\ UNCHANGED <<active, owner, approvals, jobs, engine, worker, remote, check>>
            /\ troubles' \in 0 .. MaxTroubles /\ inputs' \in 0 .. MaxInputs
            BY <1>5, DraftingKeeps
      <2>2. WritingTyped' /\ RowsStay /\ RowsExist'
            BY <1>5, DraftingStep
      <2>3. EngineOK'
            BY <2>1, <2>2, HomesOnly
      <2>4. QED
            BY <1>1, <1>2, <1>4, <2>1, <2>2, <2>3
<1>6. CASE \E d \in Drafts, s \in Sessions : Activate(d, s)
      BY <1>1, <1>2, <1>6, ActivateStep
<1>7. CASE Publishing
      <2>1. /\ UNCHANGED <<active, owner, approvals, proposals, writer, drafts>>
            /\ troubles' \in 0 .. MaxTroubles /\ inputs' \in 0 .. MaxInputs
            BY <1>7, PublishingKeeps
      <2>2. EngineOK'
            BY <1>7, PublishingStep
      <2>3. QED
            BY <1>1, <1>2, <1>3, <1>4, <2>1, <2>2
<1>8. CASE Commit
      <2>1. UNCHANGED <<owner, troubles, inputs>>
            BY <1>8 DEF Commit, budgets
      <2>2. QED
            BY <1>1, <1>2, <1>8, <2>1, CommitEnds
<1>9. CASE Homely
      <2>1. /\ UNCHANGED <<active, proposals, writer, drafts, jobs, engine, worker, remote, check, troubles>>
            /\ approvals' \subseteq Approval /\ owner' \in [Households -> BOOLEAN]
            /\ inputs' \in 0 .. MaxInputs /\ ApprovalsFollowPolicy'
            BY <1>9, HomelyStep
      <2>2. EngineOK'
            BY <1>3, <2>1, HomesOnly
      <2>3. QED
            BY <1>1, <1>2, <1>3, <2>1, <2>2
<1>10. CASE UNCHANGED vars
       <2>1. UNCHANGED <<active, owner, proposals, writer, drafts, jobs, engine, remote, worker,
                         approvals, check, troubles, inputs>>
             BY <1>10 DEF vars
       <2>2. EngineOK'
             BY <1>3, <2>1, HomesOnly
       <2>3. QED
             BY <1>1, <1>2, <1>3, <1>4, <2>1, <2>2
<1>11. QED
       BY <1>5, <1>6, <1>7, <1>8, <1>9, <1>10 DEF Next, Drafting, Publishing, Homely

-----------------------------------------------------------------------------
(* What every behaviour keeps.                                             *)

\* The parts of the invariant hold together.
THEOREM Invariant == Spec => []Inv
BY Initially, StepKeeps, PTL DEF Spec

\* Every variable keeps its type.
THEOREM TypeCorrect == Spec => []TypeOK
<1>1. Inv => TypeOK
      BY DEF Inv
<1>2. QED
      BY <1>1, Invariant, PTL

\* Whenever AWS is relied on, it holds the compiled statements of the versions in
\* force and nothing else, whatever failed, crashed or was changed on the way.
THEOREM EngineEnforcesActive == Spec => []EnforcedIsActive
<1>1. Inv => EnforcedIsActive
      <2> SUFFICES ASSUME Inv, engine # None, engine.ready \/ check # None
                   PROVE  /\ \A n \in DOMAIN remote : remote[n].status = "active"
                          /\ [n \in DOMAIN remote |-> remote[n].text] = engine.inventory
                          /\ \A h \in Routed :
                                Restrict(engine.inventory, {n \in DOMAIN engine.inventory : n[1] = h})
                                   = IF active[h].status = "active" THEN compiled(h, active[h].content) ELSE Empty
                          /\ check # None => check.inventory = engine.inventory
          BY DEF EnforcedIsActive
      <2>1. engine.ready /\ engine.publication = None /\ (check # None => check.inventory = engine.inventory)
            BY DEF Inv, CheckHolds, OneHolds
      <2>2. Exactly(remote, engine.inventory)
            BY <2>1 DEF Inv, Undisturbed
      <2>3. engine.inventory \in Inventory
            BY DEF Inv, TypeOK, Engine
      <2>4. PICK i : i = engine.inventory
            OBVIOUS
      <2>5. i = [n \in DOMAIN i |-> i[n]] /\ DOMAIN remote = DOMAIN i
            BY <2>2, <2>3, <2>4, InventoryIs DEF Exactly
      <2>6. [n \in DOMAIN remote |-> remote[n].text] = i
            BY <2>2, <2>4, <2>5 DEF Exactly
      <2>7. \A h \in Routed : InForce(engine.inventory, h, active[h])
            BY DEF Inv, InventoryInForce
      <2>8. QED
            BY <2>1, <2>2, <2>4, <2>6, <2>7 DEF Exactly, InForce, Of
<1>2. QED
      BY <1>1, Invariant, PTL

\* What is committed was checked in the same transaction.
LEMMA CommitIsReviewed ==
    ASSUME Inv, NEW d \in Drafts, NEW s, drafts[d] # None, activation_inputs(d, s), commit(d),
           UNCHANGED writer, NEW h \in Households, active'[h] # active[h]
    PROVE  /\ owner[h]
           /\ \E e \in Drafts : drafts[e] # None /\ drafts[e].home = h
                 /\ drafts[e].status = "ready" /\ drafts'[e].status = "activated"
                 /\ SameRules(drafts[e].base, active[h])
                 /\ drafts[e].candidate = active'[h].content
           /\ \A a \in approvals : a.home = h =>
                 Rules[active[h].content][a.class] = Rules[active'[h].content][a.class]
<1> USE DEF Inv
<1>1. /\ active'[drafts[d].home].content = drafts[d].candidate /\ drafts'[d].status = "activated"
      /\ \A g \in Households : g # drafts[d].home => active'[g] = active[g]
      BY CommitStep
<1>2. h = drafts[d].home
      BY <1>1
<1>3. /\ owner[h] /\ drafts[d].status = "ready" /\ SameRules(drafts[d].base, active[h])
      /\ \A a \in approvals : a.home = h => a.class \notin changed_classes(active[h].content, drafts[d].candidate)
      BY <1>2 DEF activation_inputs, Current
<1>4. \A a \in approvals : a.class \in Classes
      BY DEF TypeOK, Approval
<1>5. QED
      BY <1>1, <1>2, <1>3, <1>4 DEF changed_classes

\* A policy is replaced only by what its owner reviewed against the version it
\* replaces, and the approvals that stay open are bound to the new one.
THEOREM PolicyIsReviewed == Spec => ActivatedAsReviewed
<1> DEFINE Reviewed == \A h \in Households : active'[h] # active[h] =>
             /\ owner[h]
             /\ \E d \in Drafts : drafts[d] # None /\ drafts[d].home = h
                   /\ drafts[d].status = "ready" /\ drafts'[d].status = "activated"
                   /\ SameRules(drafts[d].base, active[h])
                   /\ drafts[d].candidate = active'[h].content
             /\ \A a \in approvals : a.home = h =>
                   Rules[active[h].content][a.class] = Rules[active'[h].content][a.class]
<1>1. Inv => ApprovalsFollowPolicy
      BY DEF Inv
<1>2. ASSUME Inv, [Next]_vars
      PROVE  Reviewed \/ UNCHANGED vars
      <2>1. CASE Drafting \/ Publishing \/ Homely
            <3>1. UNCHANGED active
                  BY <1>2, <2>1, DraftingKeeps, PublishingKeeps, HomelyStep DEF Inv
            <3>2. QED
                  BY <3>1
      <2>2. ASSUME NEW d \in Drafts, NEW s \in Sessions, Activate(d, s)
            PROVE  Reviewed
            <3>1. drafts[d] # None /\ activation_inputs(d, s) /\ commit(d) /\ UNCHANGED writer
                  BY <2>2 DEF Activate
            <3>2. QED
                  BY <1>2, <3>1, CommitIsReviewed
      <2>3. CASE Commit
            <3>1. PICK d : d = worker.job
                  OBVIOUS
            <3>2. d \in Drafts /\ jobs[d] # None /\ drafts[d] # None
                  BY <1>2, <2>3, <3>1, WorkingIs DEF Inv, Commit
            <3>3. CASE Holds(d)
                  <4>1. activation_inputs(d, jobs[d].session) /\ commit(d) /\ UNCHANGED writer
                        BY <2>3, <3>1, <3>3 DEF Commit, Holds, checked
                  <4>2. QED
                        BY <1>2, <3>2, <4>1, CommitIsReviewed
            <3>4. CASE ~Holds(d)
                  BY <2>3, <3>1, <3>4 DEF Commit
            <3>5. QED
                  BY <3>3, <3>4
      <2>4. QED
            BY <1>2, <2>1, <2>2, <2>3 DEF Next, Drafting, Publishing, Homely
<1>3. ASSUME Inv, [Next]_vars
      PROVE  [Reviewed]_vars
      BY <1>2, <1>3
<1>4. Spec => [][Reviewed]_vars
      BY <1>3, Invariant, PTL DEF Spec
<1>5. QED
      BY <1>1, <1>4, Invariant, PTL DEF ActivatedAsReviewed
=============================================================================
