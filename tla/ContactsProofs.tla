--------------------------- MODULE ContactsProofs ---------------------------
(***************************************************************************)
(* Proofs about trusted contacts, for every set of contacts, links and      *)
(* cases, every deadline, cap and number of stops of the worker.            *)
(*                                                                         *)
(* Three parties write a check: the household starts and removes, the      *)
(* contact replies and the worker ends.  The invariant says how far the    *)
(* job, the case and the receipt of one check agree at every moment, and    *)
(* what the worker may still do with the attempt it holds.                 *)
(*                                                                         *)
(* The caps are decided by what the rows count and are about what was sent. *)
(* CapInv says that the counts since any instant cover the sends since       *)
(* then, so a step that the counts allow leaves room for the one it adds.    *)
(***************************************************************************)
EXTENDS Contacts, FiniteSetTheorems, WellFoundedInduction, TLAPS

\* The job's row says how far the check has come; the case follows it.
Started(k) == jobs[k].status \in {"pending", "sending", "sent"}
Follows(k) ==
    /\ jobs[k].status = None => receipts[k] = None /\ jobs[k].link = None
    /\ jobs[k].status # None => jobs[k].link \in Links
    /\ jobs[k].status = "approval" => cases[k].check = "reported" /\ receipts[k] = None
    /\ Started(k) => cases[k].check = "pending" /\ cases[k].source = "real"
    /\ jobs[k].status = "closed" => cases[k].check = Final(k)
    /\ cases[k].check = None => jobs[k].status = None
    /\ cases[k].check = "reported" => jobs[k].status \in {None, "approval"}
    /\ cases[k].check = "pending" /\ cases[k].source = "twin" => jobs[k].status = None
JobsFollow == \A k \in Cases : Follows(k)

\* An attempt at a check in the worker's hand was claimed from the row, which
\* stays as the claim left it unless the check was closed meanwhile.
HandClaimed ==
    /\ hand.on \in Cases => jobs[hand.on].status \in {"sending", "closed"}
    /\ hand.result # None => hand.on # None

Inv == TypeOK /\ JobsFollow /\ HandClaimed

-----------------------------------------------------------------------------
(* Sums over finite sets, as in DecisionProofs: SumFunctionOnSet is a        *)
(* recursive function over the subsets of a set.                             *)

\* g adds up f over every subset of S, one chosen element after the other.
Chosen(s) == CHOOSE x \in s : TRUE
Adds(g, f, S) == g = [s \in SUBSET S |-> IF s = {} THEN 0 ELSE f[Chosen(s)] + g[s \ {Chosen(s)}]]
SumOn(f, S) == (CHOOSE g : Adds(g, f, S))[S]

\* Induction over a finite set, for what can be written as a set of subsets.
LEMMA FiniteInduction ==
    ASSUME NEW S, IsFiniteSet(S), NEW T,
           \A s \in SUBSET S : (\A u \in SUBSET s : u # s => u \in T) => s \in T
    PROVE  \A s \in SUBSET S : s \in T
<1> DEFINE bad == {s \in SUBSET S : s \notin T}
<1> SUFFICES ASSUME bad # {} PROVE FALSE
    OBVIOUS
<1>1. IsWellFoundedOn(StrictSubsetOrdering(S), SUBSET S)
      <2>1. IsWellFoundedOn(StrictSubsetOrdering(S), FiniteSubsetsOf(S))
            BY FS_StrictSubsetOrderingWellFounded
      <2>2. FiniteSubsetsOf(S) = SUBSET S
            BY FS_FiniteSubsetsOfFinite
      <2>3. QED
            BY <2>1, <2>2, Zenon
<1>2. bad \subseteq SUBSET S
      OBVIOUS
<1>3. PICK m \in bad : \A y \in bad : ~(<<y, m>> \in StrictSubsetOrdering(S))
      <2> HIDE DEF bad
      <2>1. QED
            BY <1>1, <1>2, WFMin
<1>4. \A u \in SUBSET m : u # m => u \in T
      <2> SUFFICES ASSUME NEW u \in SUBSET m, u # m, u \notin T PROVE FALSE
          OBVIOUS
      <2>1. <<u, m>> \in StrictSubsetOrdering(S)
            BY DEF StrictSubsetOrdering
      <2>2. QED
            BY <1>3, <2>1
<1>5. QED
      BY <1>4

\* What is chosen from a set is an element of it.
LEMMA ChosenIn == ASSUME NEW s, s # {} PROVE Chosen(s) \in s
BY DEF Chosen

\* Two ways of adding up agree on the subsets both know.
LEMMA AddsAgree ==
    ASSUME NEW A, NEW B, IsFiniteSet(A), NEW f, NEW g, NEW h, Adds(g, f, A), Adds(h, f, B)
    PROVE  \A s \in SUBSET A : s \in SUBSET B => g[s] = h[s]
<1> DEFINE T == {s \in SUBSET A : s \in SUBSET B => g[s] = h[s]}
<1>1. ASSUME NEW s \in SUBSET A, \A u \in SUBSET s : u # s => u \in T, s \in SUBSET B
      PROVE  g[s] = h[s]
      <2>1. CASE s = {}
            BY <2>1 DEF Adds
      <2>2. CASE s # {}
            <3>1. PICK c \in s : c = Chosen(s)
                  BY <2>2, ChosenIn
            <3>2. g[s \ {c}] = h[s \ {c}]
                  BY <1>1, <3>1
            <3>3. g[s] = f[c] + g[s \ {c}]
                  BY <2>2, <3>1 DEF Adds
            <3>4. h[s] = f[c] + h[s \ {c}]
                  BY <1>1, <2>2, <3>1 DEF Adds
            <3>5. QED
                  BY <3>2, <3>3, <3>4
      <2>3. QED
            BY <2>1, <2>2
<1>2. \A s \in SUBSET A : (\A u \in SUBSET s : u # s => u \in T) => s \in T
      BY <1>1
<1>3. \A s \in SUBSET A : s \in T
      <2> HIDE DEF T
      <2>1. QED
            BY <1>2, FiniteInduction
<1>4. QED
      BY <1>3

\* Every finite set can be added up.
LEMMA AddsExists ==
    ASSUME NEW S, IsFiniteSet(S), NEW f
    PROVE  \E g : Adds(g, f, S)
<1> DEFINE T == {s \in SUBSET S : \E g : Adds(g, f, s)}
<1>1. ASSUME NEW s \in SUBSET S, \A u \in SUBSET s : u # s => u \in T
      PROVE  \E g : Adds(g, f, s)
      <2>0. \A u \in SUBSET s : IsFiniteSet(u)
            BY FS_Subset
      <2>1. \A u \in SUBSET s : u # s => Adds(CHOOSE g : Adds(g, f, u), f, u)
            BY <1>1
      <2> DEFINE part(u) == SumOn(f, u)
                 value(u) == IF u = {} THEN 0 ELSE f[Chosen(u)] + part(u \ {Chosen(u)})
                 whole == [u \in SUBSET s |-> value(u)]
      <2>2. ASSUME NEW u \in SUBSET s, u # s
            PROVE  part(u) = value(u)
            <3>1. PICK g : g = CHOOSE k : Adds(k, f, u)
                  OBVIOUS
            <3>2. Adds(g, f, u) /\ part(u) = g[u]
                  BY <2>1, <2>2, <3>1 DEF SumOn
            <3>3. CASE u = {}
                  BY <3>2, <3>3 DEF Adds
            <3>4. CASE u # {}
                  <4>1. PICK c \in u : c = Chosen(u)
                        BY <3>4, ChosenIn
                  <4>2. g[u] = f[c] + g[u \ {c}]
                        BY <3>2, <3>4, <4>1 DEF Adds
                  <4>3. PICK w : w = u \ {c}
                        OBVIOUS
                  <4>4. w \in SUBSET s /\ w # s /\ w \in SUBSET u
                        BY <2>2, <4>1, <4>3
                  <4>5. PICK h : h = CHOOSE k : Adds(k, f, w)
                        OBVIOUS
                  <4>6. Adds(h, f, w) /\ part(w) = h[w]
                        BY <2>1, <4>4, <4>5 DEF SumOn
                  <4>7. g[w] = h[w]
                        BY <2>0, <3>2, <4>4, <4>6, AddsAgree
                  <4>8. QED
                        BY <3>2, <3>4, <4>1, <4>2, <4>3, <4>6, <4>7
            <3>5. QED
                  BY <3>3, <3>4
      <2>3. ASSUME NEW u \in SUBSET s, u # {}
            PROVE  value(u) = f[Chosen(u)] + whole[u \ {Chosen(u)}]
            <3>1. PICK c \in u : c = Chosen(u)
                  BY <2>3, ChosenIn
            <3>2. PICK w : w = u \ {c}
                  OBVIOUS
            <3>3. w \in SUBSET s /\ c \in s /\ c \notin w
                  BY <3>1, <3>2
            <3>4. part(w) = value(w)
                  BY <2>2, <3>3
            <3>5. whole[w] = value(w)
                  BY <3>3
            <3> HIDE DEF part, whole
            <3>6. QED
                  BY <2>3, <3>1, <3>2, <3>4, <3>5
      <2>4. \A u \in SUBSET s : value(u) = IF u = {} THEN 0 ELSE f[Chosen(u)] + whole[u \ {Chosen(u)}]
            BY <2>3
      <2>5. Adds(whole, f, s)
            <3> HIDE DEF value
            <3>1. QED
                  BY <2>4 DEF Adds
      <2>6. QED
            BY <2>5
<1>2. \A s \in SUBSET S : (\A u \in SUBSET s : u # s => u \in T) => s \in T
      BY <1>1
<1>3. \A s \in SUBSET S : s \in T
      <2> HIDE DEF T
      <2>1. QED
            BY <1>2, FiniteInduction
<1>4. QED
      BY <1>3

\* SumOn is what any way of adding up gives.
LEMMA SumAdds ==
    ASSUME NEW S, IsFiniteSet(S), NEW f, NEW g, Adds(g, f, S)
    PROVE  \A s \in SUBSET S : g[s] = SumOn(f, s)
<1> SUFFICES ASSUME NEW s \in SUBSET S PROVE g[s] = SumOn(f, s)
    OBVIOUS
<1>1. IsFiniteSet(s)
      BY FS_Subset
<1>2. PICK h : h = CHOOSE k : Adds(k, f, s)
      OBVIOUS
<1>3. Adds(h, f, s)
      BY <1>1, <1>2, AddsExists
<1>4. g[s] = h[s]
      BY <1>1, <1>3, AddsAgree
<1>5. QED
      BY <1>2, <1>4 DEF SumOn

\* The sum over nothing, and over a set and its chosen element.
LEMMA SumEmpty == ASSUME NEW f PROVE SumOn(f, {}) = 0
<1>1. PICK g : Adds(g, f, {})
      BY AddsExists, FS_EmptySet
<1>2. g[{}] = SumOn(f, {})
      BY <1>1, SumAdds, FS_EmptySet
<1>3. QED
      BY <1>1, <1>2 DEF Adds

LEMMA SumChosen ==
    ASSUME NEW S, IsFiniteSet(S), NEW f, S # {}
    PROVE  SumOn(f, S) = f[Chosen(S)] + SumOn(f, S \ {Chosen(S)})
<1>1. PICK g : Adds(g, f, S)
      BY AddsExists
<1>2. g[S] = f[Chosen(S)] + g[S \ {Chosen(S)}]
      BY <1>1 DEF Adds
<1>3. QED
      BY <1>1, <1>2, SumAdds

\* What is added up is a number.
LEMMA SumType ==
    ASSUME NEW S, IsFiniteSet(S), NEW f, \A x \in S : f[x] \in Nat
    PROVE  \A s \in SUBSET S : SumOn(f, s) \in Nat
<1> DEFINE T == {s \in SUBSET S : SumOn(f, s) \in Nat}
<1>1. ASSUME NEW s \in SUBSET S, \A u \in SUBSET s : u # s => u \in T
      PROVE  SumOn(f, s) \in Nat
      <2>1. CASE s = {}
            BY <2>1, SumEmpty
      <2>2. CASE s # {}
            <3>1. Chosen(s) \in s
                  BY <2>2, ChosenIn
            <3>2. SumOn(f, s) = f[Chosen(s)] + SumOn(f, s \ {Chosen(s)})
                  BY <2>2, SumChosen, FS_Subset
            <3>3. SumOn(f, s \ {Chosen(s)}) \in Nat
                  BY <1>1, <3>1
            <3>4. QED
                  BY <3>1, <3>2, <3>3
      <2>3. QED
            BY <2>1, <2>2
<1>2. \A s \in SUBSET S : (\A u \in SUBSET s : u # s => u \in T) => s \in T
      BY <1>1
<1>3. \A s \in SUBSET S : s \in T
      <2> HIDE DEF T
      <2>1. QED
            BY <1>2, FiniteInduction
<1>4. QED
      BY <1>3

\* Any element can be taken out of a sum.
LEMMA SumTake ==
    ASSUME NEW S, IsFiniteSet(S), NEW f, \A x \in S : f[x] \in Nat
    PROVE  \A s \in SUBSET S : \A x \in s : SumOn(f, s) = f[x] + SumOn(f, s \ {x})
<1> DEFINE T == {s \in SUBSET S : \A x \in s : SumOn(f, s) = f[x] + SumOn(f, s \ {x})}
<1>0. \A s \in SUBSET S : IsFiniteSet(s) /\ SumOn(f, s) \in Nat
      BY FS_Subset, SumType
<1>1. ASSUME NEW s \in SUBSET S, \A u \in SUBSET s : u # s => u \in T, NEW x \in s
      PROVE  SumOn(f, s) = f[x] + SumOn(f, s \ {x})
      <2>1. PICK c \in s : c = Chosen(s)
            BY ChosenIn
      <2>2. SumOn(f, s) = f[c] + SumOn(f, s \ {c})
            BY <1>0, <2>1, SumChosen
      <2>3. CASE x = c
            BY <2>2, <2>3
      <2>4. CASE x # c
            <3>1. s \ {c} \in T /\ s \ {x} \in T
                  BY <1>1
            <3>2. PICK r \in SUBSET S : r = (s \ {c}) \ {x} /\ r = (s \ {x}) \ {c}
                  OBVIOUS
            <3>3. SumOn(f, s \ {c}) = f[x] + SumOn(f, r)
                  BY <2>4, <3>1, <3>2
            <3>4. SumOn(f, s \ {x}) = f[c] + SumOn(f, r)
                  BY <2>4, <3>1, <3>2
            <3>5. f[x] \in Nat /\ f[c] \in Nat /\ SumOn(f, r) \in Nat
                  BY <1>0
            <3>6. QED
                  BY <2>2, <3>3, <3>4, <3>5
      <2>5. QED
            BY <2>3, <2>4
<1>2. \A s \in SUBSET S : (\A u \in SUBSET s : u # s => u \in T) => s \in T
      BY <1>1
<1>3. \A s \in SUBSET S : s \in T
      <2> HIDE DEF T
      <2>1. QED
            BY <1>2, FiniteInduction
<1>4. QED
      BY <1>3


\* Larger values have a larger sum.
LEMMA SumMore ==
    ASSUME NEW S, IsFiniteSet(S), NEW f, NEW h,
           \A x \in S : f[x] \in Nat /\ h[x] \in Nat /\ f[x] <= h[x]
    PROVE  SumOn(f, S) <= SumOn(h, S)
<1> DEFINE T == {s \in SUBSET S : SumOn(f, s) <= SumOn(h, s)}
<1>0. \A s \in SUBSET S : IsFiniteSet(s) /\ SumOn(f, s) \in Nat /\ SumOn(h, s) \in Nat
      BY FS_Subset, SumType
<1>1. ASSUME NEW s \in SUBSET S, \A u \in SUBSET s : u # s => u \in T
      PROVE  SumOn(f, s) <= SumOn(h, s)
      <2>1. CASE s = {}
            BY <2>1, SumEmpty
      <2>2. CASE s # {}
            <3>1. PICK c \in s : c = Chosen(s)
                  BY <2>2, ChosenIn
            <3>2. PICK r \in SUBSET S : r = s \ {c}
                  OBVIOUS
            <3>3. SumOn(f, s) = f[c] + SumOn(f, r) /\ SumOn(h, s) = h[c] + SumOn(h, r)
                  BY <1>0, <2>2, <3>1, <3>2, SumChosen
            <3>4. SumOn(f, r) <= SumOn(h, r)
                  BY <1>1, <3>1, <3>2
            <3>5. f[c] \in Nat /\ h[c] \in Nat /\ f[c] <= h[c]
                  BY <3>1
            <3>6. QED
                  BY <1>0, <3>3, <3>4, <3>5
      <2>3. QED
            BY <2>1, <2>2
<1>2. \A s \in SUBSET S : (\A u \in SUBSET s : u # s => u \in T) => s \in T
      BY <1>1
<1>3. \A s \in SUBSET S : s \in T
      <2> HIDE DEF T
      <2>1. QED
            BY <1>2, FiniteInduction
<1>4. QED
      BY <1>3

\* One value that is larger by at least one makes the sum larger by at least one;
\* if it is the only one that changes, and by one, so does the sum.
LEMMA SumRaised ==
    ASSUME NEW S, IsFiniteSet(S), NEW f, NEW h, NEW x \in S,
           \A y \in S : f[y] \in Nat /\ h[y] \in Nat /\ f[y] <= h[y], f[x] + 1 <= h[x]
    PROVE  SumOn(f, S) + 1 <= SumOn(h, S)
<1>1. PICK r \in SUBSET S : r = S \ {x}
      OBVIOUS
<1>2. SumOn(f, S) = f[x] + SumOn(f, r) /\ SumOn(h, S) = h[x] + SumOn(h, r)
      BY <1>1, SumTake
<1>3. IsFiniteSet(r)
      BY FS_Subset
<1>4. SumOn(f, r) <= SumOn(h, r)
      BY <1>3, SumMore
<1>5. SumOn(f, r) \in Nat /\ SumOn(h, r) \in Nat
      BY SumType
<1>6. QED
      BY <1>2, <1>4, <1>5

LEMMA SumOneMore ==
    ASSUME NEW S, IsFiniteSet(S), NEW f, NEW h, NEW x \in S,
           \A y \in S : f[y] \in Nat /\ h[y] \in Nat,
           \A y \in S \ {x} : h[y] <= f[y], h[x] <= f[x] + 1
    PROVE  SumOn(h, S) <= SumOn(f, S) + 1
<1>1. PICK r \in SUBSET S : r = S \ {x}
      OBVIOUS
<1>2. SumOn(f, S) = f[x] + SumOn(f, r) /\ SumOn(h, S) = h[x] + SumOn(h, r)
      BY <1>1, SumTake
<1>3. IsFiniteSet(r)
      BY FS_Subset
<1>4. SumOn(h, r) <= SumOn(f, r)
      BY <1>1, <1>3, SumMore
<1>5. SumOn(f, r) \in Nat /\ SumOn(h, r) \in Nat
      BY SumType
<1>6. QED
      BY <1>2, <1>4, <1>5

\* Nothing adds up to nothing.
LEMMA SumZero ==
    ASSUME NEW S, IsFiniteSet(S), NEW f, \A x \in S : f[x] = 0
    PROVE  SumOn(f, S) = 0
<1> DEFINE T == {s \in SUBSET S : SumOn(f, s) = 0}
<1>1. ASSUME NEW s \in SUBSET S, \A u \in SUBSET s : u # s => u \in T
      PROVE  SumOn(f, s) = 0
      <2>1. CASE s = {}
            BY <2>1, SumEmpty
      <2>2. CASE s # {}
            <3>1. PICK c \in s : c = Chosen(s)
                  BY <2>2, ChosenIn
            <3>2. SumOn(f, s) = f[c] + SumOn(f, s \ {c})
                  BY <2>2, <3>1, SumChosen, FS_Subset
            <3>3. QED
                  BY <1>1, <3>1, <3>2
      <2>3. QED
            BY <2>1, <2>2
<1>2. \A s \in SUBSET S : (\A u \in SUBSET s : u # s => u \in T) => s \in T
      BY <1>1
<1>3. \A s \in SUBSET S : s \in T
      <2> HIDE DEF T
      <2>1. QED
            BY <1>2, FiniteInduction
<1>4. QED
      BY <1>3

\* The community modules add up like that.
LEMMA FunctionSum ==
    ASSUME NEW S, IsFiniteSet(S), NEW f
    PROVE  SumFunctionOnSet(f, S) = SumOn(f, S)
<1>1. SumFunctionOnSet(f, S) = (CHOOSE g : Adds(g, f, S))[S]
      BY DEF SumFunctionOnSet, FoldFunctionOnSet, MapThenFoldSet, Adds, Chosen
<1>2. QED
      BY <1>1 DEF SumOn

-----------------------------------------------------------------------------
(* Types.                                                                  *)

\* Instants and deadlines are numbers, and rows are rows.
LEMMA Numbers ==
    ASSUME TypeOK
    PROVE  /\ now \in Time /\ now \in Nat
           /\ \A x \in Kinds : now + Ttl[x] \in Nat /\ now + InviteTtl[x] \in Nat
           /\ \A l \in Links : Kind[l] \in Kinds /\ ContactOf[l] \in People
           /\ \A k \in Cases : ContactOf[k] \in People
           /\ now + ApprovalTtl \in Nat /\ now + CourierTtl \in Nat
           /\ \A n \in Nat : now + Backoff * n \in Nat
           /\ MaxAttempts \in Nat /\ 0 \in Time
<1>1. now \in Nat /\ now \in Time
      BY ContactsAssumption DEF TypeOK, Time
<1>2. \A x \in Kinds : Ttl[x] \in Nat /\ InviteTtl[x] \in Nat
      BY ContactsAssumption
<1>3. \A l \in Links : Kind[l] \in Kinds /\ ContactOf[l] \in People
      BY ContactsAssumption
<1>4. \A k \in Cases : ContactOf[k] \in People
      BY ContactsAssumption
<1>5. /\ ApprovalTtl \in Nat /\ CourierTtl \in Nat /\ Backoff \in Nat /\ MaxAttempts \in Nat
      /\ MaxTime \in Nat
      BY ContactsAssumption
<1>6. \A n \in Nat : Backoff * n \in Nat
      BY <1>5
<1>7. 0 \in Time
      BY <1>5 DEF Time
<1> HIDE ContactsAssumption
<1>8. QED
      BY <1>1, <1>2, <1>3, <1>4, <1>5, <1>6, <1>7

LEMMA Rows ==
    ASSUME TypeOK
    PROVE  /\ \A l \in Links : links[l] \in Link
           /\ \A k \in Cases : /\ cases[k] \in Case /\ jobs[k] \in Job
                               /\ receipts[k] \in Answers \cup {None}
           /\ hand.on \in Links \cup Cases \cup {None} /\ hand.attempts \in 0 .. MaxAttempts
           /\ hand.result \in {None, "sent", "failed", "refused"}
BY DEF TypeOK, Hand

\* Writing one row.
LEMMA Written ==
    ASSUME NEW D, NEW S, NEW f \in [D -> S], NEW d \in D, NEW v \in S
    PROVE  [f EXCEPT ![d] = v] \in [D -> S]
OBVIOUS

\* Rows nothing was written to.
LEMMA EmptyRows == NoLink \in Link /\ NoCase \in Case /\ NoJob \in Job
<1>1. PICK N, T : N = 0 .. MaxAttempts /\ T = Time
      OBVIOUS
<1>2. 0 \in N /\ 0 \in T /\ 0 \in Deadline
      BY <1>1, ContactsAssumption DEF Time, Deadline
<1>3. NoLink \in [status : {None, "pending", "confirmed", "active", "revoked"},
                  created : T, expires : Deadline,
                  delivery : {"pending", "sending", "sent", "failed"},
                  attempts : N, next : Deadline]
      BY <1>2 DEF NoLink
<1>4. NoJob \in [status : {None, "approval", "pending", "sending", "sent", "closed"},
                 link : Links \cup {None}, attempts : N, created : T,
                 expires : Deadline, next : Deadline, until : Deadline]
      BY <1>2 DEF NoJob
<1>5. NoCase \in Case
      BY <1>2 DEF NoCase, Case, Warning
<1>6. QED
      BY <1>1, <1>3, <1>4, <1>5 DEF Link, Job

\* An attempt counts up, and its row is due again later.
LEMMA AttemptWritten ==
    ASSUME NEW n \in 0 .. MaxAttempts, NEW d \in Nat
    PROVE  /\ \A j \in Job : \A s \in {"pending", "sending", "sent"} :
                [j EXCEPT !.status = s, !.attempts = n, !.next = d] \in Job
           /\ \A j \in Link : \A s \in {"pending", "sending", "sent", "failed"} :
                /\ [j EXCEPT !.delivery = s, !.attempts = n, !.next = d] \in Link
                /\ [j EXCEPT !.delivery = s, !.attempts = n] \in Link
           /\ \A x \in Links \cup Cases : [Idle EXCEPT !.on = x, !.attempts = n] \in Hand
           /\ Idle \in Hand
<1>1. PICK N : N = 0 .. MaxAttempts
      OBVIOUS
<1>2. n \in N /\ d \in Deadline
      BY <1>1 DEF Deadline
<1>3. 0 \in N
      BY <1>1, ContactsAssumption
<1>4. ASSUME NEW j \in Job, NEW s \in {"pending", "sending", "sent"}
      PROVE  [j EXCEPT !.status = s, !.attempts = n, !.next = d] \in Job
      <2>1. j \in [status : {None, "approval", "pending", "sending", "sent", "closed"},
                    link : Links \cup {None}, attempts : N, created : Time,
                    expires : Deadline, next : Deadline, until : Deadline]
            BY <1>1 DEF Job
      <2>2. [j EXCEPT !.status = s, !.attempts = n, !.next = d] \in
                   [status : {None, "approval", "pending", "sending", "sent", "closed"},
                    link : Links \cup {None}, attempts : N, created : Time,
                    expires : Deadline, next : Deadline, until : Deadline]
            BY <1>2, <2>1
      <2>3. QED
            BY <1>1, <2>2 DEF Job
<1>5. ASSUME NEW j \in Link, NEW s \in {"pending", "sending", "sent", "failed"}
      PROVE  /\ [j EXCEPT !.delivery = s, !.attempts = n, !.next = d] \in Link
             /\ [j EXCEPT !.delivery = s, !.attempts = n] \in Link
      <2> DEFINE Row == [status : {None, "pending", "confirmed", "active", "revoked"},
                         created : Time, expires : Deadline,
                         delivery : {"pending", "sending", "sent", "failed"},
                         attempts : N, next : Deadline]
      <2>1. j \in Row
            BY <1>1 DEF Link
      <2>2. /\ [j EXCEPT !.delivery = s, !.attempts = n, !.next = d] \in Row
            /\ [j EXCEPT !.delivery = s, !.attempts = n] \in Row
            BY <1>2, <2>1
      <2>3. QED
            BY <1>1, <2>2 DEF Link
<1>6. ASSUME NEW x \in Links \cup Cases
      PROVE  [Idle EXCEPT !.on = x, !.attempts = n] \in Hand
      <2>1. [Idle EXCEPT !.on = x, !.attempts = n] \in
                [on : Links \cup Cases \cup {None}, attempts : N,
                 result : {None, "sent", "failed", "refused"}]
            BY <1>2 DEF Idle
      <2>2. QED
            BY <1>1, <2>1 DEF Hand
<1>7. Idle \in Hand
      BY <1>1, <1>3 DEF Idle, Hand
<1>8. QED
      BY <1>4, <1>5, <1>6, <1>7

\* What is sent is counted.
LEMMA SentTypes ==
    ASSUME TypeOK, NEW c \in People, Sent(c)
    PROVE  sends' \in [People -> [Time -> Nat]]
<1>1. sends[c] \in [Time -> Nat] /\ now \in Time
      BY DEF TypeOK
<1>2. [sends[c] EXCEPT ![now] = sends[c][now] + 1] \in [Time -> Nat]
      BY <1>1
<1>3. sends' = [sends EXCEPT ![c] = [sends[c] EXCEPT ![now] = sends[c][now] + 1]]
      BY DEF Sent, TypeOK
<1>4. QED
      BY <1>2, <1>3 DEF TypeOK

\* Finishing checks with answers keeps the types.
LEMMA FinishTypes ==
    ASSUME TypeOK, NEW ends \in SUBSET Cases, NEW answer,
           \A k \in ends : answer[k] \in Answers \cup {"no_answer"},
           Finish(ends, answer)
    PROVE  cases' \in [Cases -> Case] /\ jobs' \in [Cases -> Job]
<1>1. ASSUME NEW k \in ends
      PROVE  /\ [cases[k] EXCEPT !.check = answer[k],
                                 !.source = IF cases[k].source = None THEN "real" ELSE cases[k].source] \in Case
             /\ [jobs[k] EXCEPT !.status = "closed"] \in Job
      <2>1. k \in Cases /\ answer[k] \in Answers \cup {"no_answer"}
            OBVIOUS
      <2>2. cases[k] \in Case /\ jobs[k] \in Job
            BY <2>1, Rows
      <2>3. QED
            BY <2>1, <2>2 DEF Case, Job
<1>2. QED
      BY <1>1, Rows DEF Finish

\* Starting a check from a job with a link keeps the types.
LEMMA QueuedTypes ==
    ASSUME TypeOK, NEW k \in Cases, NEW j \in Job, j.link \in Links, Queued(k, j)
    PROVE  cases' \in [Cases -> Case] /\ jobs' \in [Cases -> Job]
<1>1. PICK e \in Nat : e = now + Ttl[Kind[j.link]]
      BY Numbers
<1>2. [j EXCEPT !.status = "pending", !.expires = e, !.until = 0] \in Job
      BY <1>1 DEF Job, Deadline
<1>3. jobs' \in [Cases -> Job]
      BY <1>1, <1>2 DEF Queued, TypeOK
<1>4. [cases[k] EXCEPT !.check = "pending", !.source = "real", !.expires = e] \in Case
      BY <1>1, Rows DEF Case, Deadline
<1>5. cases' = [cases EXCEPT ![k] = [cases[k] EXCEPT !.check = "pending", !.source = "real",
                                                     !.expires = e]]
      BY <1>1 DEF Queued, TypeOK
<1>6. QED
      BY <1>3, <1>4, <1>5, Written DEF TypeOK

\* The steps on one link.
LinkStep(l) == Invite(l) \/ Accept(l) \/ Confirm(l) \/ Revoke(l) \/ ClaimInvitation(l) \/ GiveUp(l)

LEMMA LinkTypes ==
    ASSUME Inv, NEW l \in Links, LinkStep(l)
    PROVE  TypeOK'
<1>0. TypeOK /\ (\A m \in Links : links[m] \in Link)
      BY Rows DEF Inv
<1>1. CASE Invite(l)
      <2>1. PICK e \in Nat : e = now + InviteTtl[Kind[l]]
            BY <1>0, Numbers
      <2>2. [NoLink EXCEPT !.status = "pending", !.created = now, !.expires = e] \in Link
            BY <1>0, <2>1, Numbers, EmptyRows DEF Link, Deadline
      <2>3. links' \in [Links -> Link]
            BY <1>0, <1>1, <2>1, <2>2 DEF Invite, TypeOK
      <2>4. QED
            BY <1>0, <1>1, <2>3 DEF Invite, TypeOK
<1>2. \A m \in Links : \A s \in {"confirmed", "active", "revoked"} :
        [links[m] EXCEPT !.status = s] \in Link
      BY <1>0 DEF Link
<1>3. CASE Accept(l) \/ Confirm(l) \/ Revoke(l)
      <2>1. links' \in [Links -> Link]
            <3>1. CASE Accept(l)
                  BY <1>0, <1>2, <3>1 DEF Accept, TypeOK
            <3>2. CASE Confirm(l)
                  BY <1>0, <1>2, <3>2 DEF Confirm, TypeOK
            <3>3. CASE Revoke(l)
                  BY <1>0, <1>2, <3>3 DEF Revoke, TypeOK
            <3>4. QED
                  BY <1>3, <3>1, <3>2, <3>3
      <2>2. UNCHANGED <<now, people, cases, jobs, receipts, hand, mail, sends, crashes>>
            BY <1>3 DEF Accept, Confirm, Revoke
      <2>3. QED
            BY <1>0, <2>1, <2>2 DEF TypeOK
<1>5. CASE ClaimInvitation(l)
      <2>1. links[l].attempts \in 0 .. MaxAttempts
            BY <1>0 DEF Link
      <2>2. PICK n \in 0 .. MaxAttempts : n = links[l].attempts + 1
            BY <1>0, <1>5, <2>1, Numbers DEF ClaimInvitation
      <2>3. PICK d \in Nat : d = now + Backoff * n
            BY <1>0, Numbers
      <2>4. [links[l] EXCEPT !.delivery = "sending", !.attempts = n, !.next = d] \in Link
            BY <1>0, <2>2, <2>3, AttemptWritten
      <2>5. links' = [links EXCEPT ![l] = [links[l] EXCEPT !.delivery = "sending", !.attempts = n,
                                                           !.next = d]]
            BY <1>0, <1>5, <2>2, <2>3 DEF ClaimInvitation, TypeOK
      <2>6. links' \in [Links -> Link]
            BY <1>0, <2>4, <2>5, Written DEF TypeOK
      <2>7. hand' \in Hand
            BY <1>5, <2>2, AttemptWritten DEF ClaimInvitation
      <2>8. sends' \in [People -> [Time -> Nat]]
            BY <1>0, <1>5, SentTypes, Numbers DEF ClaimInvitation
      <2>9. QED
            BY <1>0, <1>5, <2>6, <2>7, <2>8 DEF ClaimInvitation, TypeOK
<1>6. CASE GiveUp(l)
      <2>1. [links[l] EXCEPT !.delivery = "failed"] \in Link
            BY <1>0 DEF Link
      <2>2. links' \in [Links -> Link]
            BY <1>0, <1>6, <2>1 DEF GiveUp, TypeOK
      <2>3. QED
            BY <1>0, <1>6, <2>2 DEF GiveUp, TypeOK
<1>7. QED
      BY <1>1, <1>3, <1>5, <1>6 DEF LinkStep

\* The steps on one case and its check.
CaseStep(k) ==
    \/ Assess(k) \/ Simulate(k) \/ Approve(k) \/ Reject(k) \/ Forbid(k) \/ Script(k)
    \/ Claim(k) \/ Press(k) \/ Deliver(k) \/ Lapse(k) \/ Settle(k)
    \/ \E l \in Links : Start(k, l)
    \/ \E answer \in Answers : Reply(k, answer)

\* What the worker ends a check with is what its receipt gives.
LEMMA OutcomeTypes ==
    ASSUME TypeOK, NEW k \in Cases
    PROVE  /\ outcome(k) # None => outcome(k) = Final(k)
           /\ Final(k) \in Answers \cup {"no_answer"}
           /\ outcome(k) = None => receipts[k] = None
BY DEF outcome, Final, TypeOK, None

LEMMA CaseTypes ==
    ASSUME Inv, NEW k \in Cases, CaseStep(k)
    PROVE  TypeOK'
<1>0. TypeOK /\ cases[k] \in Case /\ jobs[k] \in Job
      BY Rows DEF Inv
<1>1. CASE Assess(k)
      <2>1. [cases[k] EXCEPT !.check = "reported"] \in Case
            BY <1>0 DEF Case
      <2>2. cases' \in [Cases -> Case]
            BY <1>0, <1>1, <2>1 DEF Assess, TypeOK
      <2>3. QED
            BY <1>0, <1>1, <2>2 DEF Assess, TypeOK
<1>2. CASE Simulate(k)
      <2>1. PICK e \in Nat : e = now + Ttl["app"]
            BY <1>0, Numbers DEF Kinds
      <2>2. [cases[k] EXCEPT !.check = "pending", !.source = "twin", !.expires = e] \in Case
            BY <1>0, <2>1 DEF Case, Deadline
      <2>3. cases' = [cases EXCEPT ![k] = [cases[k] EXCEPT !.check = "pending", !.source = "twin",
                                                           !.expires = e]]
            BY <1>0, <1>2, <2>1 DEF Simulate, TypeOK
      <2>4. cases' \in [Cases -> Case]
            BY <1>0, <2>2, <2>3, Written DEF TypeOK
      <2>5. QED
            BY <1>0, <1>2, <2>4 DEF Simulate, TypeOK
<1>3. CASE Approve(k)
      <2>1. jobs[k].link \in Links
            BY <1>3 DEF Inv, JobsFollow, Follows, Approve, None
      <2>2. cases' \in [Cases -> Case] /\ jobs' \in [Cases -> Job]
            BY <1>0, <1>3, <2>1, QueuedTypes DEF Approve
      <2>3. QED
            BY <1>0, <1>3, <2>2 DEF Approve, TypeOK
<1>4. CASE Reject(k)
      <2>1. [jobs[k] EXCEPT !.until = 0] \in Job
            BY <1>0 DEF Job, Deadline
      <2>2. jobs' \in [Cases -> Job]
            BY <1>0, <1>4, <2>1 DEF Reject, TypeOK
      <2>3. QED
            BY <1>0, <1>4, <2>2 DEF Reject, TypeOK
<1>5. CASE Forbid(k) \/ Lapse(k) \/ Settle(k)
      <2>1. PICK a \in Answers \cup {"no_answer"} : Finish({k}, [x \in {k} |-> a])
            <3>1. CASE Forbid(k) \/ Lapse(k)
                  BY <3>1 DEF Forbid, Lapse
            <3>2. CASE Settle(k)
                  <4>1. outcome(k) \in Answers \cup {"no_answer"}
                        BY <1>0, <3>2, OutcomeTypes DEF Settle
                  <4>2. [x \in {k} |-> outcome(x)] = [x \in {k} |-> outcome(k)]
                        OBVIOUS
                  <4>3. QED
                        BY <3>2, <4>1, <4>2 DEF Settle
            <3>3. QED
                  BY <1>5, <3>1, <3>2
      <2>2. cases' \in [Cases -> Case] /\ jobs' \in [Cases -> Job]
            BY <1>0, <2>1, FinishTypes
      <2>3. UNCHANGED <<now, people, links, receipts, hand, mail, sends, crashes>>
            BY <1>5 DEF Forbid, Lapse, Settle
      <2>4. QED
            BY <1>0, <2>2, <2>3 DEF TypeOK
<1>6. CASE Script(k)
      <2>1. PICK a \in Answers \cup {"no_answer"} : cases' = [cases EXCEPT ![k].check = a]
            BY <1>6 DEF Script
      <2>2. [cases[k] EXCEPT !.check = a] \in Case
            BY <1>0, <2>1 DEF Case
      <2>3. cases' \in [Cases -> Case]
            BY <1>0, <2>1, <2>2 DEF TypeOK
      <2>4. QED
            BY <1>0, <1>6, <2>3 DEF Script, TypeOK
<1>7. CASE Claim(k)
      <2>1. jobs[k].attempts \in 0 .. MaxAttempts
            BY <1>0 DEF Job
      <2>2. ~(jobs[k].attempts >= MaxAttempts)
            BY <1>7 DEF Claim, outcome, None
      <2>3. PICK n \in 0 .. MaxAttempts : n = jobs[k].attempts + 1
            BY <1>0, <2>1, <2>2, Numbers
      <2>4. PICK d \in Nat : d = now + Backoff * n
            BY <1>0, Numbers
      <2>5. PICK s \in {"sent", "sending"} : s = IF Kind[jobs[k].link] = "app" THEN "sent" ELSE "sending"
            OBVIOUS
      <2>6. [jobs[k] EXCEPT !.status = s, !.attempts = n, !.next = d] \in Job
            BY <1>0, <2>3, <2>4, <2>5, AttemptWritten
      <2>7. jobs' = [jobs EXCEPT ![k] = [jobs[k] EXCEPT !.status = s, !.attempts = n, !.next = d]]
            BY <1>0, <1>7, <2>3, <2>4, <2>5 DEF Claim, TypeOK
      <2>8. jobs' \in [Cases -> Job]
            BY <1>0, <2>6, <2>7, Written DEF TypeOK
      <2>9. hand' \in Hand
            BY <1>0, <1>7, <2>3, AttemptWritten DEF Claim
      <2>10. sends' \in [People -> [Time -> Nat]]
            BY <1>0, <1>7, SentTypes, Numbers DEF Claim
      <2>11. QED
            BY <1>0, <1>7, <2>8, <2>9, <2>10 DEF Claim, TypeOK
<1>8. CASE Press(k)
      <2>1. PICK w \in Nat : w = IF channel(k) # {} THEN now + CourierTtl ELSE 0
            BY <1>0, Numbers
      <2>2. PICK s \in Warning : s = IF channel(k) # {} THEN "pending" ELSE "stopped"
            BY DEF Warning
      <2>3. PICK c \in Links \cup {None} :
                c = IF channel(k) # {} THEN CHOOSE l \in channel(k) : TRUE ELSE None
            BY DEF channel
      <2>4. cases' = [cases EXCEPT ![k].warned = w, ![k].contact = s, ![k].channel = c]
            BY <1>8, <2>1, <2>2, <2>3 DEF Press
      <2>5. [cases[k] EXCEPT !.warned = w, !.contact = s, !.channel = c] \in Case
            BY <1>0, <2>1, <2>2, <2>3 DEF Case, Deadline
      <2>6. cases' = [cases EXCEPT ![k] = [cases[k] EXCEPT !.warned = w, !.contact = s, !.channel = c]]
            BY <1>0, <2>4 DEF TypeOK
      <2>7. cases' \in [Cases -> Case]
            BY <1>0, <2>5, <2>6, Written DEF TypeOK
      <2>8. QED
            BY <1>0, <1>8, <2>7 DEF Press, TypeOK
<1>9. CASE Deliver(k)
      <2>1. PICK s \in Warning, w \in Nat : cases' = [cases EXCEPT ![k].contact = s, ![k].warned = w]
            BY <1>0, <1>9, Numbers DEF Deliver, Warning
      <2>2. [cases[k] EXCEPT !.contact = s, !.warned = w] \in Case
            BY <1>0, <2>1 DEF Case, Deadline
      <2>3. cases' = [cases EXCEPT ![k] = [cases[k] EXCEPT !.contact = s, !.warned = w]]
            BY <1>0, <2>1 DEF TypeOK
      <2>4. cases' \in [Cases -> Case]
            BY <1>0, <2>2, <2>3, Written DEF TypeOK
      <2>5. sends' \in [People -> [Time -> Nat]]
            BY <1>0, <1>9, SentTypes, Numbers DEF Deliver, TypeOK
      <2>6. QED
            BY <1>0, <1>9, <2>4, <2>5 DEF Deliver, TypeOK
<1>10. CASE \E l \in Links : Start(k, l)
      <2>1. PICK l \in Links : Start(k, l)
            BY <1>10
      <2>2. PICK job \in Job :
                /\ job.link = l
                /\ job = [NoJob EXCEPT !.status = "approval", !.link = l, !.created = now, !.next = now]
            <3>1. [NoJob EXCEPT !.status = "approval", !.link = l, !.created = now, !.next = now] \in Job
                  BY <1>0, Numbers, EmptyRows DEF Job, Deadline
            <3>2. [NoJob EXCEPT !.status = "approval", !.link = l, !.created = now, !.next = now].link = l
                  BY EmptyRows DEF Job
            <3>3. QED
                  BY <3>1, <3>2, EmptyRows DEF Job
      <2>3. CASE Queued(k, job)
            <3>1. cases' \in [Cases -> Case] /\ jobs' \in [Cases -> Job]
                  BY <1>0, <2>2, <2>3, QueuedTypes
            <3>2. QED
                  BY <1>0, <2>1, <3>1 DEF Start, TypeOK
      <2>4. CASE /\ jobs' = [jobs EXCEPT ![k] = [job EXCEPT !.until = now + ApprovalTtl]]
                 /\ UNCHANGED cases
            <3>1. PICK u \in Nat : u = now + ApprovalTtl
                  BY <1>0, Numbers
            <3>2. [job EXCEPT !.until = u] \in Job
                  BY <2>2, <3>1 DEF Job, Deadline
            <3>3. jobs' \in [Cases -> Job]
                  BY <1>0, <2>4, <3>1, <3>2 DEF TypeOK
            <3>4. QED
                  BY <1>0, <2>1, <2>4, <3>3 DEF Start, TypeOK
      <2>5. QED
            BY <2>1, <2>2, <2>3, <2>4 DEF Start
<1>11. CASE \E answer \in Answers : Reply(k, answer)
      BY <1>0, <1>11 DEF Reply, TypeOK
<1>12. QED
      BY <1>1, <1>2, <1>3, <1>4, <1>5, <1>6, <1>7, <1>8, <1>9, <1>10, <1>11 DEF CaseStep

LEMMA RestTypes ==
    ASSUME Inv, Smtp \/ Record \/ Tick \/ Crash \/ (\E c \in People : Remove(c)) \/ UNCHANGED vars
    PROVE  TypeOK'
<1>0. TypeOK /\ HandClaimed
      BY DEF Inv
<1>1. CASE Smtp
      <2>1. hand.on \in Links \cup Cases
            BY <1>0, <1>1, Rows DEF Smtp
      <2>2. mail' \subseteq Links \cup Cases
            BY <1>0, <1>1, <2>1 DEF Smtp, TypeOK
      <2>3. hand' \in Hand
            BY <1>0, <1>1 DEF Smtp, TypeOK, Hand
      <2>4. QED
            BY <1>0, <1>1, <2>2, <2>3 DEF Smtp, TypeOK
<1>2. CASE Record
      <2>1. hand.on \in Links \cup Cases
            BY <1>0, <1>2, Rows DEF Record, HandClaimed
      <2>2. PICK n \in 0 .. MaxAttempts : n = Attempts
            BY <1>0, Rows, Numbers DEF Attempts
      <2>3. PICK d \in Nat : d = now + IF hand.result = "refused" THEN 0 ELSE Backoff * hand.attempts
            <3>1. hand.attempts \in Nat
                  BY <1>0, Rows
            <3>2. QED
                  BY <1>0, <3>1, Numbers
      <2>4. jobs' \in [Cases -> Job]
            <3>1. CASE hand.on \in Cases /\ jobs[hand.on].status # "closed"
                  <4>1. PICK s \in {"sent", "pending"} : s = IF hand.result = "sent" THEN "sent" ELSE "pending"
                        OBVIOUS
                  <4>2. [jobs[hand.on] EXCEPT !.status = s, !.attempts = n, !.next = d] \in Job
                        BY <1>0, <2>2, <2>3, <3>1, <4>1, Rows, AttemptWritten
                  <4>3. jobs' = [jobs EXCEPT ![hand.on].status = s, ![hand.on].attempts = n,
                                             ![hand.on].next = d]
                        BY <1>2, <2>2, <2>3, <3>1, <4>1 DEF Record
                  <4>4. jobs' = [jobs EXCEPT ![hand.on] = [jobs[hand.on] EXCEPT
                                                !.status = s, !.attempts = n, !.next = d]]
                        BY <1>0, <3>1, <4>3 DEF TypeOK
                  <4>5. QED
                        BY <1>0, <3>1, <4>2, <4>4, Written DEF TypeOK
            <3>2. CASE ~(hand.on \in Cases /\ jobs[hand.on].status # "closed")
                  BY <1>0, <1>2, <3>2 DEF Record, TypeOK
            <3>3. QED
                  BY <3>1, <3>2
      <2>5. links' \in [Links -> Link]
            <3>1. CASE hand.on \notin Cases
                  <4>1. PICK s \in {"sent", "failed", "pending"} :
                            s = IF hand.result = "sent" THEN "sent"
                                ELSE IF Attempts >= MaxAttempts THEN "failed" ELSE "pending"
                        OBVIOUS
                  <4>2. hand.on \in Links /\ links[hand.on] \in Link
                        BY <1>0, <2>1, <3>1, Rows
                  <4>3. [links[hand.on] EXCEPT !.delivery = s, !.attempts = n] \in Link
                        BY <2>2, <2>3, <4>1, <4>2, AttemptWritten
                  <4>4. links' = [links EXCEPT ![hand.on].delivery = s, ![hand.on].attempts = n]
                        BY <1>2, <2>2, <3>1, <4>1 DEF Record
                  <4>5. links' = [links EXCEPT ![hand.on] = [links[hand.on] EXCEPT
                                                !.delivery = s, !.attempts = n]]
                        BY <1>0, <4>2, <4>4 DEF TypeOK
                  <4>6. QED
                        BY <1>0, <4>2, <4>3, <4>5, Written DEF TypeOK
            <3>2. CASE hand.on \in Cases
                  BY <1>0, <1>2, <3>2 DEF Record, TypeOK
            <3>3. QED
                  BY <3>1, <3>2
      <2>6. hand' \in Hand
            BY <1>0, <1>2, Numbers DEF Record, Hand, Idle
      <2>7. QED
            BY <1>0, <1>2, <2>4, <2>5, <2>6 DEF Record, TypeOK
<1>3. CASE Tick
      <2>1. now' \in Time
            BY <1>0, <1>3, ContactsAssumption DEF Tick, TypeOK, Time
      <2>2. QED
            BY <1>0, <1>3, <2>1 DEF Tick, TypeOK
<1>4. CASE Crash
      <2>1. crashes' \in 0 .. MaxCrashes
            BY <1>0, <1>4, ContactsAssumption DEF Crash, TypeOK
      <2>2. hand' \in Hand
            BY <1>0, <1>4, Numbers DEF Crash, Hand, Idle
      <2>3. QED
            BY <1>0, <1>4, <2>1, <2>2 DEF Crash, TypeOK
<1>5. CASE \E c \in People : Remove(c)
      <2>1. PICK c \in People : Remove(c)
            BY <1>5
      <2>2. \A l \in Links : [links[l] EXCEPT !.status = "revoked"] \in Link
            BY <1>0, Rows DEF Link
      <2>3. links' \in [Links -> Link]
            BY <1>0, <2>1, <2>2, Rows DEF Remove
      <2>4. \A k \in Cases : [i \in Cases |-> Final(i)][k] \in Answers \cup {"no_answer"}
            BY <1>0, OutcomeTypes
      <2>5. PICK ends \in SUBSET Cases : Finish(ends, [i \in Cases |-> Final(i)])
            BY <2>1 DEF Remove
      <2>6. cases' \in [Cases -> Case] /\ jobs' \in [Cases -> Job]
            BY <1>0, <2>4, <2>5, FinishTypes
      <2>7. QED
            BY <1>0, <2>1, <2>3, <2>6 DEF Remove, TypeOK
<1>6. CASE UNCHANGED vars
      BY <1>0, <1>6 DEF vars, TypeOK
<1>7. QED
      BY <1>1, <1>2, <1>3, <1>4, <1>5, <1>6

-----------------------------------------------------------------------------
(* The job, the case and the receipt agree.                                *)

\* A step that leaves the three alone keeps them in agreement.
LEMMA Untouched ==
    ASSUME JobsFollow, UNCHANGED <<cases, jobs, receipts>>
    PROVE  JobsFollow'
BY DEF JobsFollow, Follows, Started, Final

\* However checks are finished, by the worker or with the contact, the answer
\* of each is the one its receipt gives.
LEMMA FinishFollows ==
    ASSUME Inv, NEW ends \in SUBSET Cases, NEW answer,
           \A k \in ends : /\ answer[k] = Final(k)
                           /\ cases[k].check = "pending" \/ jobs[k].status = "approval",
           Finish(ends, answer), UNCHANGED receipts
    PROVE  JobsFollow'
<1> SUFFICES ASSUME NEW k \in Cases PROVE Follows(k)'
    BY DEF JobsFollow
<1> USE DEF Inv, TypeOK
<1>1. Follows(k) /\ cases[k] \in Case /\ jobs[k] \in Job
      BY DEF JobsFollow
<1>2. Final(k)' = Final(k) /\ Final(k) \in Answers \cup {"no_answer"}
      BY OutcomeTypes DEF Final
<1>3. CASE k \in ends
      <2>1. Waiting(k)
            BY <1>1, <1>3 DEF Follows, Waiting
      <2>2. cases'[k].check = Final(k)
            BY <1>1, <1>3, <2>1 DEF Finish, Case
      <2>3. IF jobs[k].status # None THEN /\ jobs'[k].status = "closed"
                                          /\ jobs'[k].link = jobs[k].link
            ELSE jobs'[k] = jobs[k]
            BY <1>1, <1>3 DEF Finish, Job
      <2>4. QED
            BY <1>1, <1>2, <2>2, <2>3, ContactsAssumption DEF Follows, Started, None
<1>4. CASE k \notin ends
      <2>1. cases'[k] = cases[k] /\ jobs'[k] = jobs[k] /\ receipts'[k] = receipts[k]
            BY <1>4 DEF Finish
      <2>2. QED
            BY <1>1, <1>2, <2>1 DEF Follows, Started
<1>5. QED
      BY <1>3, <1>4

\* A step on the check of k leaves the other checks alone.
LEMMA OthersFollow ==
    ASSUME JobsFollow, NEW k \in Cases, Follows(k)',
           \A i \in Cases \ {k} : /\ cases'[i] = cases[i] /\ jobs'[i] = jobs[i]
                                  /\ receipts'[i] = receipts[i]
    PROVE  JobsFollow'
BY DEF JobsFollow, Follows, Started, Final

LEMMA QueuedFollows ==
    ASSUME Inv, NEW k \in Cases, NEW j \in Job, j.link \in Links, receipts[k] = None,
           jobs[k].status \in {None, "approval"}, Queued(k, j), UNCHANGED receipts
    PROVE  JobsFollow'
<1> USE DEF Inv, TypeOK
<1>1. /\ cases'[k].check = "pending" /\ cases'[k].source = "real"
      /\ jobs'[k].status = "pending" /\ jobs'[k].link = j.link
      /\ \A i \in Cases \ {k} : cases'[i] = cases[i] /\ jobs'[i] = jobs[i]
      BY DEF Queued, Case, Job
<1>2. Follows(k)'
      BY <1>1 DEF Follows, Started, None
<1>3. QED
      BY <1>1, <1>2, OthersFollow

LEMMA CaseFollows ==
    ASSUME Inv, NEW k \in Cases, CaseStep(k)
    PROVE  JobsFollow'
<1> USE DEF Inv, TypeOK
<1>0. Follows(k) /\ cases[k] \in Case /\ jobs[k] \in Job
      BY DEF JobsFollow
<1>1. CASE Assess(k)
      <2>1. /\ cases'[k].check = "reported" /\ UNCHANGED <<jobs, receipts>>
            /\ \A i \in Cases \ {k} : cases'[i] = cases[i]
            BY <1>1 DEF Assess, Case
      <2>2. Follows(k)'
            BY <1>0, <1>1, <2>1 DEF Assess, Follows, Started, None
      <2>3. QED
            BY <2>1, <2>2, OthersFollow
<1>2. CASE Simulate(k)
      <2>1. /\ cases'[k].check = "pending" /\ UNCHANGED <<jobs, receipts>>
            /\ \A i \in Cases \ {k} : cases'[i] = cases[i]
            BY <1>2 DEF Simulate, Case
      <2>2. Follows(k)'
            BY <1>0, <1>2, <2>1 DEF Simulate, Follows, Started, None
      <2>3. QED
            BY <2>1, <2>2, OthersFollow
<1>3. CASE Approve(k)
      BY <1>0, <1>3, QueuedFollows DEF Approve, Follows, None
<1>4. CASE Reject(k)
      <2>1. /\ UNCHANGED <<cases, receipts>>
            /\ jobs'[k].status = jobs[k].status /\ jobs'[k].link = jobs[k].link
            /\ \A i \in Cases \ {k} : jobs'[i] = jobs[i]
            BY <1>4 DEF Reject, Job
      <2>2. Follows(k)'
            BY <1>0, <2>1 DEF Follows, Started, Final
      <2>3. QED
            BY <2>1, <2>2, OthersFollow
<1>5. CASE Forbid(k) \/ Lapse(k) \/ Settle(k)
      <2>1. PICK a : Finish({k}, [x \in {k} |-> a]) /\ a = Final(k)
            BY <1>0, <1>5, OutcomeTypes DEF Forbid, Lapse, Settle, Follows, Final
      <2>2. cases[k].check = "pending" \/ jobs[k].status = "approval"
            BY <1>0, <1>5 DEF Forbid, Lapse, Settle, Follows, Started
      <2>3. QED
            BY <1>5, <2>1, <2>2, FinishFollows DEF Forbid, Lapse, Settle
<1>6. CASE Script(k)
      <2>1. PICK answer \in Answers \cup {"no_answer"} : cases' = [cases EXCEPT ![k].check = answer]
            BY <1>6 DEF Script
      <2>2. /\ cases'[k].check = answer /\ UNCHANGED <<jobs, receipts>>
            /\ \A i \in Cases \ {k} : cases'[i] = cases[i]
            BY <1>6, <2>1 DEF Script, Case
      <2>3. Follows(k)'
            BY <1>0, <1>6, <2>2, ContactsAssumption DEF Script, Follows, Started, None
      <2>4. QED
            BY <2>2, <2>3, OthersFollow
<1>7. CASE Claim(k)
      <2>1. /\ UNCHANGED <<cases, receipts>>
            /\ jobs'[k].status \in {"sent", "sending"} /\ jobs'[k].link = jobs[k].link
            /\ \A i \in Cases \ {k} : jobs'[i] = jobs[i]
            BY <1>7 DEF Claim, Job
      <2>2. Started(k)
            BY <1>7 DEF Claim, Started
      <2>3. Follows(k)'
            BY <1>0, <2>1, <2>2 DEF Follows, Started, None
      <2>4. QED
            BY <2>1, <2>3, OthersFollow
<1>8. CASE Press(k) \/ Deliver(k)
      <2>1. \E w, s, c : \/ cases' = [cases EXCEPT ![k].warned = w, ![k].contact = s, ![k].channel = c]
                        \/ cases' = [cases EXCEPT ![k].contact = s, ![k].warned = w]
            <3>1. CASE Press(k)
                  <4>1. PICK w, s, c :
                            /\ w = IF channel(k) # {} THEN now + CourierTtl ELSE 0
                            /\ s = IF channel(k) # {} THEN "pending" ELSE "stopped"
                            /\ c = IF channel(k) # {} THEN CHOOSE l \in channel(k) : TRUE ELSE None
                        OBVIOUS
                  <4>2. QED
                        BY <3>1, <4>1 DEF Press
            <3>2. CASE Deliver(k)
                  BY <3>2 DEF Deliver
            <3>3. QED
                  BY <1>8, <3>1, <3>2
      <2>2. /\ cases'[k].check = cases[k].check /\ cases'[k].source = cases[k].source
            /\ \A i \in Cases \ {k} : cases'[i] = cases[i]
            BY <1>0, <2>1 DEF Case
      <2>3. UNCHANGED <<jobs, receipts>>
            BY <1>8 DEF Press, Deliver
      <2>4. Follows(k)'
            BY <1>0, <2>2, <2>3 DEF Follows, Started, Final
      <2>5. QED
            BY <2>2, <2>3, <2>4, OthersFollow
<1>9. CASE \E l \in Links : Start(k, l)
      <2>1. PICK l \in Links : Start(k, l)
            BY <1>9
      <2>2. PICK job \in Job :
                /\ job.link = l /\ job.status = "approval"
                /\ job = [NoJob EXCEPT !.status = "approval", !.link = l, !.created = now, !.next = now]
            <3>1. [NoJob EXCEPT !.status = "approval", !.link = l, !.created = now, !.next = now] \in Job
                  BY Numbers, EmptyRows DEF Job, Deadline
            <3>2. [NoJob EXCEPT !.status = "approval", !.link = l, !.created = now, !.next = now].link = l
                  BY EmptyRows DEF Job
            <3>3. QED
                  BY <3>1, <3>2, EmptyRows DEF Job
      <2>3. receipts[k] = None /\ cases[k].check = "reported" /\ jobs[k].status = None
            BY <1>0, <2>1 DEF Start, Follows
      <2>4. CASE Queued(k, job)
            BY <2>1, <2>2, <2>3, <2>4, QueuedFollows DEF Start
      <2>5. CASE /\ jobs' = [jobs EXCEPT ![k] = [job EXCEPT !.until = now + ApprovalTtl]]
                 /\ UNCHANGED cases
            <3>1. /\ jobs'[k].status = "approval" /\ jobs'[k].link = l
                  /\ \A i \in Cases \ {k} : jobs'[i] = jobs[i]
                  BY <2>2, <2>5 DEF Job
            <3>2. Follows(k)'
                  BY <2>1, <2>3, <2>5, <3>1 DEF Start, Follows, Started, None
            <3>3. QED
                  BY <2>1, <2>5, <3>1, <3>2, OthersFollow DEF Start
      <2>6. QED
            BY <2>1, <2>2, <2>4, <2>5 DEF Start
<1>10. CASE \E answer \in Answers : Reply(k, answer)
      <2>1. PICK answer \in Answers : Reply(k, answer)
            BY <1>10
      <2>2. /\ UNCHANGED <<cases, jobs>>
            /\ \A i \in Cases \ {k} : receipts'[i] = receipts[i]
            BY <2>1 DEF Reply
      <2>3. Started(k)
            BY <2>1 DEF Reply, Accepts, Started
      <2>4. Follows(k)'
            BY <1>0, <2>2, <2>3 DEF Follows, Started, None
      <2>5. QED
            BY <2>2, <2>4, OthersFollow
<1>11. QED
      BY <1>1, <1>2, <1>3, <1>4, <1>5, <1>6, <1>7, <1>8, <1>9, <1>10 DEF CaseStep

\* The record of an attempt finds the check started, or closed and leaves it.
LEMMA RecordFollows ==
    ASSUME Inv, Record
    PROVE  JobsFollow'
<1> USE DEF Inv, TypeOK
<1>1. CASE hand.on \in Cases /\ jobs[hand.on].status # "closed"
      <2>1. PICK k \in Cases : k = hand.on
            BY <1>1
      <2>2. Follows(k) /\ Started(k) /\ jobs[k] \in Job
            BY <1>1, <2>1 DEF JobsFollow, HandClaimed, Started
      <2>3. PICK s : s = IF hand.result = "sent" THEN "sent" ELSE "pending"
            OBVIOUS
      <2>4. /\ UNCHANGED <<cases, receipts>>
            /\ jobs'[k].status = s /\ jobs'[k].link = jobs[k].link
            /\ \A i \in Cases \ {k} : jobs'[i] = jobs[i]
            BY <1>1, <2>1, <2>2, <2>3 DEF Record, Job
      <2>5. Follows(k)'
            BY <2>2, <2>3, <2>4 DEF Follows, Started, None
      <2>6. QED
            BY <2>4, <2>5, OthersFollow
<1>2. CASE ~(hand.on \in Cases /\ jobs[hand.on].status # "closed")
      BY <1>2, Untouched DEF Record
<1>3. QED
      BY <1>1, <1>2

LEMMA RemoveFollows ==
    ASSUME Inv, NEW c \in People, Remove(c)
    PROVE  JobsFollow'
BY FinishFollows DEF Remove

LEMMA StepFollows ==
    ASSUME Inv, [Next]_vars
    PROVE  JobsFollow'
<1>1. CASE \E l \in Links : LinkStep(l)
      BY <1>1, Untouched DEF Inv, LinkStep, Invite, Accept, Confirm, Revoke, ClaimInvitation, GiveUp
<1>2. CASE \E k \in Cases : CaseStep(k)
      BY <1>2, CaseFollows
<1>3. CASE \E c \in People : Remove(c)
      BY <1>3, RemoveFollows
<1>4. CASE Smtp \/ Tick \/ Crash \/ UNCHANGED vars
      BY <1>4, Untouched DEF Inv, Smtp, Tick, Crash, vars
<1>5. QED
      BY <1>1, <1>2, <1>3, <1>4, RecordFollows DEF Next, Worker, LinkStep, CaseStep

-----------------------------------------------------------------------------
(* What the worker holds.                                                  *)

\* While the worker holds an attempt, only the removal of the contact closes
\* the check it is at; the worker ends no other check meanwhile.
LEMMA StepHand ==
    ASSUME Inv, [Next]_vars
    PROVE  HandClaimed'
<1> USE ContactsAssumption DEF Inv, TypeOK
<1>0. HandClaimed /\ (hand.on \in Cases => Follows(hand.on) /\ jobs[hand.on] \in Job)
      BY DEF JobsFollow
<1>1. ASSUME NEW l \in Links, LinkStep(l) PROVE HandClaimed'
      <2>1. CASE ClaimInvitation(l)
            <3>1. hand'.on = l /\ hand'.result = None
                  BY <2>1 DEF ClaimInvitation, Idle
            <3>2. l \notin Cases /\ l # None
                  OBVIOUS
            <3>3. QED
                  BY <3>1, <3>2 DEF HandClaimed
      <2>2. CASE ~ClaimInvitation(l)
            <3>1. UNCHANGED <<jobs, hand>>
                  BY <1>1, <2>2 DEF LinkStep, Invite, Accept, Confirm, Revoke, GiveUp
            <3>2. QED
                  BY <1>0, <3>1 DEF HandClaimed
      <2>3. QED
            BY <2>1, <2>2
<1>2. ASSUME NEW k \in Cases, CaseStep(k) PROVE HandClaimed'
      <2>1. CASE Claim(k)
            BY <2>1 DEF Claim, HandClaimed, Idle, Job, None
      <2>2. CASE hand = Idle /\ UNCHANGED hand
            BY <2>2 DEF HandClaimed, Idle
      <2>3. CASE Approve(k) \/ Reject(k) \/ \E l \in Links : Start(k, l)
            <3>1. hand.on \in Cases => hand.on # k
                  BY <1>0, <2>3 DEF HandClaimed, Approve, Reject, Start, None
            <3>2. /\ UNCHANGED hand
                  /\ \A i \in Cases \ {k} : jobs'[i] = jobs[i]
                  BY <2>3 DEF Approve, Reject, Start, Queued
            <3>3. QED
                  BY <1>0, <3>1, <3>2 DEF HandClaimed
      <2>4. CASE UNCHANGED <<jobs, hand>>
            BY <1>0, <2>4 DEF HandClaimed
      <2>5. QED
            BY <1>2, <2>1, <2>2, <2>3, <2>4 DEF CaseStep, Assess, Simulate, Forbid, Script, Press,
                   Deliver, Lapse, Settle, Reply
<1>3. CASE \E c \in People : Remove(c)
      <2>1. UNCHANGED hand /\ \A i \in Cases : jobs'[i].status \in {jobs[i].status, "closed"}
            <3>1. PICK ends, answer : Finish(ends, answer) /\ UNCHANGED hand
                  BY <1>3 DEF Remove
            <3>2. \A i \in Cases : [jobs[i] EXCEPT !.status = "closed"].status = "closed"
                  BY DEF Job
            <3>3. QED
                  BY <3>1, <3>2 DEF Finish
      <2>2. QED
            BY <1>0, <2>1 DEF HandClaimed
<1>4. CASE Smtp
      <2>1. UNCHANGED jobs /\ hand'.on = hand.on /\ hand.on # None
            BY <1>4 DEF Smtp, Hand
      <2>2. QED
            BY <1>0, <2>1 DEF HandClaimed
<1>5. CASE Record \/ Crash
      BY <1>5 DEF Record, Crash, HandClaimed, Idle
<1>6. CASE Tick \/ UNCHANGED vars
      BY <1>0, <1>6 DEF Tick, vars, HandClaimed
<1>7. QED
      BY <1>1, <1>2, <1>3, <1>4, <1>5, <1>6 DEF Next, Worker, LinkStep, CaseStep

-----------------------------------------------------------------------------
(* The rolling caps.                                                       *)

Ids == Links \cup Cases
\* What a table says was sent between two instants.
Window(table, d, from, to) == [u \in Time |-> IF from <= u /\ u <= to THEN table[d][u] ELSE 0]
Sends(table, from, to) == [d \in People |-> SumFunctionOnSet(Window(table, d, from, to), Time)]
\* What was sent since any instant, to any contacts, is counted by their rows.
Covered ==
    \A who \in SUBSET People, u \in Int : u <= now =>
        SumOn(Sends(sends, u, now), who) <= SumOn(Attempted(u), Of(who))
NothingAhead == \A d \in People, u \in Time : u > now => sends[d][u] = 0
\* An attempt in the worker's hand is the last one its row counts.
HandCounts ==
    /\ hand.on \in Cases => jobs[hand.on].attempts <= hand.attempts
    /\ hand.on \in Links => links[hand.on].status # None /\ links[hand.on].attempts <= hand.attempts
CapInv == HandCounts /\ NothingAhead /\ Covered /\ SendsCapped

\* A row's attempts, and when it counts.
Row(r, u) == IF r.status # None /\ (r.created >= u \/ r.next >= u) THEN r.attempts ELSE 0
Warns(c, u) == IF c.contact = "published" /\ c.warned >= u THEN 1 ELSE 0
\* r may become q: it counts no less from any instant until now.
Grows(r, q) ==
    \/ r.status = None
    \/ /\ q.status # None /\ q.created = r.created /\ q.attempts >= r.attempts
       /\ q.next >= r.next \/ q.next >= now

LEMMA TimeFinite == IsFiniteSet(Time)
BY FS_Interval, ContactsAssumption DEF Time

LEMMA OfFinite == ASSUME NEW who PROVE IsFiniteSet(Of(who)) /\ Of(who) \subseteq Ids
BY FS_Subset, ContactsAssumption DEF Of, Ids

\* What is attempted, row by row.
LEMMA AttemptedIs ==
    ASSUME NEW u
    PROVE  /\ \A l \in Links : Attempted(u)[l] = Row(links[l], u) + 0
           /\ \A k \in Cases : Attempted(u)[k] = Row(jobs[k], u) + Warns(cases[k], u)
           /\ \A l \in Links : Attempted(u)'[l] = Row(links'[l], u) + 0
           /\ \A k \in Cases : Attempted(u)'[k] = Row(jobs'[k], u) + Warns(cases'[k], u)
<1>1. \A k \in Cases : k \notin Links
      BY ContactsAssumption
<1>2. \A l \in Links : l \notin Cases
      BY ContactsAssumption
<1>3. QED
      BY <1>1, <1>2 DEF Attempted, Counts, Warned, Row, Warns

LEMMA RowIs ==
    ASSUME NEW u \in Int
    PROVE  /\ \A r \in Link \cup Job : Row(r, u) \in Nat
           /\ \A c \in Case : Warns(c, u) \in Nat
<1>1. \A r \in Link \cup Job : r.attempts \in 0 .. MaxAttempts
      BY DEF Link, Job
<1>2. QED
      BY <1>1, ContactsAssumption DEF Row, Warns

LEMMA AttemptedType ==
    ASSUME TypeOK, NEW u \in Int
    PROVE  \A x \in Ids : Attempted(u)[x] \in Nat
<1>1. \A l \in Links : links[l] \in Link
      BY DEF TypeOK
<1>2. \A k \in Cases : jobs[k] \in Job /\ cases[k] \in Case
      BY DEF TypeOK
<1>3. QED
      BY <1>1, <1>2, RowIs, AttemptedIs DEF Ids

LEMMA AttemptedPrime ==
    ASSUME TypeOK', NEW u \in Int
    PROVE  \A x \in Ids : Attempted(u)'[x] \in Nat
<1>1. \A l \in Links : links'[l] \in Link
      BY DEF TypeOK
<1>2. \A k \in Cases : jobs'[k] \in Job /\ cases'[k] \in Case
      BY DEF TypeOK
<1>3. QED
      BY <1>1, <1>2, RowIs, AttemptedIs DEF Ids

\* What was sent to one contact is a sum over time.
LEMMA SendsType ==
    ASSUME NEW table \in [People -> [Time -> Nat]], NEW from \in Int, NEW to \in Int,
           NEW d \in People
    PROVE  /\ \A u \in Time : Window(table, d, from, to)[u] \in Nat
           /\ Sends(table, from, to)[d] \in Nat
           /\ Sends(table, from, to)[d] = SumOn(Window(table, d, from, to), Time)
<1>1. \A u \in Time : Window(table, d, from, to)[u] \in Nat
      BY DEF Window
<1>2. Sends(table, from, to)[d] = SumFunctionOnSet(Window(table, d, from, to), Time)
      BY DEF Sends
<1>3. SumFunctionOnSet(Window(table, d, from, to), Time) = SumOn(Window(table, d, from, to), Time)
      BY FunctionSum, TimeFinite
<1>4. SumOn(Window(table, d, from, to), Time) \in Nat
      BY <1>1, SumType, TimeFinite
<1>5. QED
      BY <1>1, <1>2, <1>3, <1>4

\* A table and a window with no more in it.
LEMMA SendsLess ==
    ASSUME NEW t1 \in [People -> [Time -> Nat]], NEW t2 \in [People -> [Time -> Nat]],
           NEW f1 \in Int, NEW e1 \in Int, NEW f2 \in Int, NEW e2 \in Int, NEW d \in People,
           \A u \in Time : Window(t1, d, f1, e1)[u] <= Window(t2, d, f2, e2)[u]
    PROVE  Sends(t1, f1, e1)[d] <= Sends(t2, f2, e2)[d]
<1>1. SumOn(Window(t1, d, f1, e1), Time) <= SumOn(Window(t2, d, f2, e2), Time)
      <2>1. \A u \in Time : Window(t1, d, f1, e1)[u] \in Nat /\ Window(t2, d, f2, e2)[u] \in Nat
            BY SendsType
      <2>2. QED
            BY <2>1, SumMore, TimeFinite
<1>2. Sends(t1, f1, e1)[d] = SumOn(Window(t1, d, f1, e1), Time)
      BY SendsType
<1>3. Sends(t2, f2, e2)[d] = SumOn(Window(t2, d, f2, e2), Time)
      BY SendsType
<1>4. QED
      BY <1>1, <1>2, <1>3

\* An attempt adds one to the windows of its contact, and nothing to the others.
LEMMA SentAddsOne ==
    ASSUME TypeOK, NEW c \in People, Sent(c), NEW from \in Int, NEW to \in Int
    PROVE  /\ sends' \in [People -> [Time -> Nat]]
           /\ Sends(sends', from, to)[c] <= Sends(sends, from, to)[c] + 1
           /\ \A d \in People : d # c \/ now > to => Sends(sends', from, to)[d] <= Sends(sends, from, to)[d]
<1>1. now \in Time /\ sends \in [People -> [Time -> Nat]]
      BY DEF TypeOK
<1>2. /\ sends' \in [People -> [Time -> Nat]]
      /\ sends'[c][now] = sends[c][now] + 1
      /\ \A d \in People, u \in Time : d # c \/ u # now => sends'[d][u] = sends[d][u]
      BY <1>1 DEF Sent
<1> DEFINE f == Window(sends, c, from, to)
           h == Window(sends', c, from, to)
<1>3. \A u \in Time : f[u] \in Nat /\ h[u] \in Nat
      BY <1>1, <1>2, SendsType
<1>4. \A u \in Time \ {now} : h[u] <= f[u]
      BY <1>1, <1>2, <1>3 DEF Window
<1>5. h[now] <= f[now] + 1
      BY <1>1, <1>2, <1>3 DEF Window
<1>6. Sends(sends', from, to)[c] = SumOn(h, Time) /\ Sends(sends, from, to)[c] = SumOn(f, Time)
      BY <1>1, <1>2, SendsType
<1> HIDE DEF f, h
<1>7. SumOn(h, Time) <= SumOn(f, Time) + 1
      BY <1>1, <1>3, <1>4, <1>5, TimeFinite, SumOneMore
<1>8. ASSUME NEW d \in People, d # c \/ now > to
      PROVE  Sends(sends', from, to)[d] <= Sends(sends, from, to)[d]
      <2>1. \A u \in Time : Window(sends', d, from, to)[u] \in Nat
            BY <1>2, SendsType
      <2>2. \A u \in Time : u <= to => sends'[d][u] = sends[d][u]
            BY <1>1, <1>2, <1>8 DEF Time
      <2>3. \A u \in Time : Window(sends', d, from, to)[u] <= Window(sends, d, from, to)[u]
            BY <2>1, <2>2 DEF Window
      <2>4. QED
            BY <1>1, <1>2, <2>3, SendsLess
<1>9. QED
      BY <1>2, <1>6, <1>7, <1>8

\* A row that grows counts no less.
LEMMA GrowsRow ==
    ASSUME NEW r \in Link \cup Job, NEW q \in Link \cup Job, Grows(r, q), TypeOK,
           NEW u \in Int, u <= now
    PROVE  Row(r, u) <= Row(q, u)
<1>1. /\ r.attempts \in Nat /\ q.attempts \in Nat
      /\ r.created \in Nat /\ q.created \in Nat /\ r.next \in Nat /\ q.next \in Nat
      BY ContactsAssumption DEF Link, Job, Time, Deadline
<1>2. now \in Nat
      BY Numbers
<1> HIDE ContactsAssumption
<1>3. QED
      BY <1>1, <1>2 DEF Grows, Row

\* Rows are only ever attempted once more, and due later.
LEMMA LinksGrow ==
    ASSUME Inv, HandCounts, [Next]_vars, NEW l \in Links
    PROVE  Grows(links[l], links'[l])
<1> USE DEF Inv, TypeOK
<1>1. links[l] \in Link /\ links[l].attempts \in Nat /\ links[l].next \in Nat
      BY ContactsAssumption DEF Link, Deadline
<1>2. now \in Nat /\ (\A n \in Nat : now + Backoff * n \in Nat /\ now + Backoff * n >= now)
      <2>1. now \in Nat /\ Backoff \in Nat
            BY ContactsAssumption, Numbers
      <2>2. \A n \in Nat : Backoff * n \in Nat
            BY <2>1
      <2>3. QED
            BY <2>1, <2>2
<1>3. CASE links'[l] = links[l]
      BY <1>1, <1>3 DEF Grows
<1>4. ASSUME NEW s, links'[l] = [links[l] EXCEPT !.status = s], s # None
      PROVE  Grows(links[l], links'[l])
      BY <1>1, <1>4 DEF Grows, Link
<1>5. CASE links'[l] = [links[l] EXCEPT !.delivery = "failed"]
      BY <1>1, <1>5 DEF Grows, Link
<1>6. ASSUME NEW m \in Links, LinkStep(m)
      PROVE  Grows(links[l], links'[l])
      <2>1. CASE m # l /\ ~Confirm(m)
            BY <1>3, <1>6, <2>1 DEF LinkStep, Invite, Accept, Revoke, ClaimInvitation, GiveUp
      <2>2. CASE m = l /\ Invite(m)
            BY <2>2 DEF Invite, Grows
      <2>3. CASE m = l /\ Accept(m)
            <3>1. links'[l] = [links[l] EXCEPT !.status = "confirmed"]
                  BY <2>3 DEF Accept
            <3>2. QED
                  BY <1>4, <3>1 DEF None
      <2>4. CASE Confirm(m)
            <3>1. \/ links'[l] = [links[l] EXCEPT !.status = "active"]
                  \/ links'[l] = [links[l] EXCEPT !.status = "revoked"]
                  \/ links'[l] = links[l]
                  BY <2>4 DEF Confirm
            <3>2. QED
                  BY <1>3, <1>4, <3>1 DEF None
      <2>5. CASE m = l /\ Revoke(m)
            <3>1. links'[l] = [links[l] EXCEPT !.status = "revoked"]
                  BY <2>5 DEF Revoke
            <3>2. QED
                  BY <1>4, <3>1 DEF None
      <2>6. CASE m = l /\ GiveUp(m)
            BY <1>5, <2>6 DEF GiveUp
      <2>7. CASE m = l /\ ClaimInvitation(m)
            <3>1. PICK n \in Nat : n = links[l].attempts + 1
                  BY <1>1
            <3>2. links'[l] = [links[l] EXCEPT !.delivery = "sending", !.attempts = n,
                                               !.next = now + Backoff * n]
                  BY <2>7, <3>1 DEF ClaimInvitation
            <3>3. links'[l].status = links[l].status /\ links'[l].created = links[l].created
                  /\ links'[l].attempts = n /\ links'[l].next = now + Backoff * n
                  BY <1>1, <3>2 DEF Link
            <3>4. links[l].status # None
                  BY <2>7 DEF ClaimInvitation, Undelivered, None
            <3>5. n >= links[l].attempts
                  BY <1>1, <3>1
            <3>6. QED
                  BY <1>2, <3>3, <3>4, <3>5 DEF Grows
      <2>8. QED
            BY <1>6, <2>1, <2>2, <2>3, <2>4, <2>5, <2>6, <2>7 DEF LinkStep
<1>7. CASE \E k \in Cases : CaseStep(k)
      BY <1>3, <1>7 DEF CaseStep, Assess, Simulate, Approve, Reject, Forbid, Script, Claim, Press,
         Deliver, Lapse, Settle, Start, Reply
<1>8. CASE \E c \in People : Remove(c)
      <2>1. links'[l] = [links[l] EXCEPT !.status = "revoked"] \/ links'[l] = links[l]
            BY <1>8 DEF Remove
      <2>2. QED
            BY <1>3, <1>4, <2>1 DEF None
<1>9. CASE Record
      <2>1. CASE hand.on = l
            <3>1. l \notin Cases
                  BY ContactsAssumption
            <3>2. PICK s : s = IF hand.result = "sent" THEN "sent"
                               ELSE IF Attempts >= MaxAttempts THEN "failed" ELSE "pending"
                  OBVIOUS
            <3>3. links'[l].status = links[l].status /\ links'[l].created = links[l].created
                  /\ links'[l].attempts = Attempts /\ links'[l].next = links[l].next
                  <4>1. links' = [links EXCEPT ![l].delivery = s, ![l].attempts = Attempts]
                        BY <1>9, <2>1, <3>1, <3>2 DEF Record
                  <4>2. QED
                        BY <1>1, <4>1 DEF Link
            <3>4. Attempts >= links[l].attempts /\ links[l].status # None
                  <4>1. links[l].attempts <= hand.attempts /\ links[l].status # None
                        BY <2>1 DEF HandCounts
                  <4>2. hand.attempts \in 0 .. MaxAttempts /\ MaxAttempts \in Nat
                        BY Rows, Numbers
                  <4>3. QED
                        BY <1>1, <4>1, <4>2 DEF Attempts
            <3>5. QED
                  BY <1>1, <3>3, <3>4 DEF Grows
      <2>2. CASE hand.on # l
            BY <1>3, <1>9, <2>2 DEF Record
      <2>3. QED
            BY <2>1, <2>2
<1>10. CASE Smtp \/ Tick \/ Crash \/ UNCHANGED vars
      BY <1>3, <1>10 DEF Smtp, Tick, Crash, vars
<1>11. QED
      BY <1>6, <1>7, <1>8, <1>9, <1>10 DEF Next, Worker, LinkStep, CaseStep

LEMMA JobsGrow ==
    ASSUME Inv, HandCounts, [Next]_vars, NEW k \in Cases
    PROVE  Grows(jobs[k], jobs'[k])
<1> USE DEF Inv, TypeOK
<1>1. jobs[k] \in Job /\ jobs[k].attempts \in Nat /\ jobs[k].next \in Nat /\ Follows(k)
      BY ContactsAssumption DEF Job, Deadline, JobsFollow
<1>2. now \in Nat /\ (\A n \in Nat : now + Backoff * n \in Nat /\ now + Backoff * n >= now)
      <2>1. now \in Nat /\ Backoff \in Nat
            BY ContactsAssumption, Numbers
      <2>2. \A n \in Nat : Backoff * n \in Nat
            BY <2>1
      <2>3. QED
            BY <2>1, <2>2
<1>3. CASE jobs'[k] = jobs[k]
      BY <1>1, <1>3 DEF Grows
<1>4. CASE jobs'[k] = [jobs[k] EXCEPT !.status = "closed"]
      BY <1>1, <1>4 DEF Grows, Job, None
<1>5. ASSUME NEW ends, NEW answer, Finish(ends, answer)
      PROVE  Grows(jobs[k], jobs'[k])
      BY <1>3, <1>4, <1>5 DEF Finish
<1>6. CASE \E e, v : jobs'[k] = [jobs[k] EXCEPT !.status = "pending", !.expires = e, !.until = v]
      BY <1>1, <1>6 DEF Grows, Job, None
<1>7. CASE \E v : jobs'[k] = [jobs[k] EXCEPT !.until = v]
      BY <1>1, <1>7 DEF Grows, Job
<1>8. ASSUME NEW i \in Cases, CaseStep(i)
      PROVE  Grows(jobs[k], jobs'[k])
      <2>1. CASE i # k
            BY <1>3, <1>8, <2>1 DEF CaseStep, Assess, Simulate, Approve, Reject, Forbid, Script, Claim,
               Press, Deliver, Lapse, Settle, Start, Reply, Queued, Finish
      <2>2. CASE i = k /\ \E l \in Links : Start(k, l)
            BY <2>2 DEF Start, Grows
      <2>3. CASE i = k /\ Approve(k)
            BY <1>6, <2>3 DEF Approve, Queued
      <2>4. CASE i = k /\ Reject(k)
            BY <1>7, <2>4 DEF Reject
      <2>5. CASE i = k /\ (Forbid(k) \/ Lapse(k) \/ Settle(k))
            BY <1>5, <2>5 DEF Forbid, Lapse, Settle
      <2>6. CASE i = k /\ Claim(k)
            <3>1. PICK n \in Nat : n = jobs[k].attempts + 1
                  BY <1>1
            <3>2. jobs'[k].attempts = n /\ jobs'[k].next = now + Backoff * n
                  /\ jobs'[k].created = jobs[k].created /\ jobs'[k].status \in {"sent", "sending"}
                  BY <1>1, <2>6, <3>1 DEF Claim, Job
            <3>3. n >= jobs[k].attempts
                  BY <1>1, <3>1
            <3>4. QED
                  BY <1>2, <3>2, <3>3 DEF Grows, None
      <2>7. CASE i = k /\ UNCHANGED jobs
            BY <1>3, <2>7
      <2>8. QED
            BY <1>8, <2>1, <2>2, <2>3, <2>4, <2>5, <2>6, <2>7
            DEF CaseStep, Assess, Simulate, Script, Press, Deliver, Reply
<1>9. CASE \E l \in Links : LinkStep(l)
      BY <1>3, <1>9 DEF LinkStep, Invite, Accept, Confirm, Revoke, ClaimInvitation, GiveUp
<1>10. CASE \E c \in People : Remove(c)
      BY <1>5, <1>10 DEF Remove
<1>11. CASE Record
      <2>1. CASE hand.on = k /\ jobs[k].status # "closed"
            <3>1. PICK d : d = now + IF hand.result = "refused" THEN 0 ELSE Backoff * hand.attempts
                  OBVIOUS
            <3>2. hand.attempts \in 0 .. MaxAttempts /\ MaxAttempts \in Nat
                  BY Rows, Numbers
            <3>3. d >= now
                  BY <1>2, <3>1, <3>2
            <3>4. jobs'[k].attempts = Attempts /\ jobs'[k].next = d
                  /\ jobs'[k].created = jobs[k].created /\ jobs'[k].status \in {"sent", "pending"}
                  BY <1>1, <1>11, <2>1, <3>1 DEF Record, Job
            <3>5. Attempts >= jobs[k].attempts
                  BY <1>1, <2>1, <3>2 DEF Attempts, HandCounts
            <3>6. QED
                  BY <3>3, <3>4, <3>5 DEF Grows, None
      <2>2. CASE hand.on # k \/ jobs[k].status = "closed"
            BY <1>3, <1>11, <2>2 DEF Record
      <2>3. QED
            BY <2>1, <2>2
<1>12. CASE Smtp \/ Tick \/ Crash \/ UNCHANGED vars
      BY <1>3, <1>12 DEF Smtp, Tick, Crash, vars
<1>13. QED
      BY <1>8, <1>9, <1>10, <1>11, <1>12 DEF Next, Worker, LinkStep, CaseStep

\* A warning that was published stays as it is.
LEMMA WarningsStay ==
    ASSUME Inv, [Next]_vars, NEW k \in Cases
    PROVE  cases[k].contact = "published"
           => cases'[k].contact = "published" /\ cases'[k].warned = cases[k].warned
<1> USE DEF Inv, TypeOK
<1> SUFFICES ASSUME cases[k].contact = "published"
             PROVE  cases'[k].contact = "published" /\ cases'[k].warned = cases[k].warned
    OBVIOUS
<1>1. cases[k] \in Case
      OBVIOUS
<1>2. CASE cases'[k] = cases[k]
      BY <1>2
<1>3. ASSUME NEW i \in Cases, NEW a, NEW b, NEW e,
             cases' = [cases EXCEPT ![i].check = a, ![i].source = b, ![i].expires = e]
      PROVE  cases'[k].contact = "published" /\ cases'[k].warned = cases[k].warned
      BY <1>1, <1>2, <1>3 DEF Case
<1>4. ASSUME NEW ends, NEW answer, Finish(ends, answer)
      PROVE  cases'[k].contact = "published" /\ cases'[k].warned = cases[k].warned
      <2>1. CASE k \in ends /\ Waiting(k)
            <3>1. PICK a : a = answer[k]
                  OBVIOUS
            <3>2. PICK b : b = IF cases[k].source = None THEN "real" ELSE cases[k].source
                  OBVIOUS
            <3>3. cases'[k] = [cases[k] EXCEPT !.check = a, !.source = b]
                  BY <1>1, <1>4, <2>1, <3>1, <3>2 DEF Finish, Case
            <3>4. QED
                  BY <1>1, <3>3 DEF Case
      <2>2. CASE ~(k \in ends /\ Waiting(k))
            BY <1>2, <1>4, <2>2 DEF Finish
      <2>3. QED
            BY <2>1, <2>2
<1>5. ASSUME NEW i \in Cases, NEW a, cases' = [cases EXCEPT ![i].check = a]
      PROVE  cases'[k].contact = "published" /\ cases'[k].warned = cases[k].warned
      BY <1>1, <1>2, <1>5 DEF Case
<1>6. ASSUME NEW i \in Cases, CaseStep(i)
      PROVE  cases'[k].contact = "published" /\ cases'[k].warned = cases[k].warned
      <2>1. CASE Assess(i) \/ Script(i)
            <3>1. \E a : cases' = [cases EXCEPT ![i].check = a]
                  BY <2>1 DEF Assess, Script
            <3>2. QED
                  BY <1>5, <3>1
      <2>2. CASE Simulate(i) \/ Approve(i) \/ \E l \in Links : Start(i, l)
            <3>1. CASE Simulate(i)
                  <4>1. cases' = [cases EXCEPT ![i].check = "pending", ![i].source = "twin",
                                               ![i].expires = now + Ttl["app"]]
                        BY <3>1 DEF Simulate
                  <4>2. QED
                        BY <1>3, <4>1
            <3>2. ASSUME NEW j, Queued(i, j)
                  PROVE  cases'[k].contact = "published" /\ cases'[k].warned = cases[k].warned
                  <4>1. cases' = [cases EXCEPT ![i].check = "pending", ![i].source = "real",
                                               ![i].expires = now + Ttl[Kind[j.link]]]
                        BY <3>2 DEF Queued
                  <4>2. QED
                        BY <1>3, <4>1
            <3>3. QED
                  BY <1>2, <2>2, <3>1, <3>2 DEF Approve, Start
      <2>3. CASE Forbid(i) \/ Lapse(i) \/ Settle(i)
            BY <1>4, <2>3 DEF Forbid, Lapse, Settle
      <2>4. CASE Press(i) \/ Deliver(i)
            BY <1>1, <1>2, <2>4 DEF Press, trigger, Deliver, None
      <2>5. CASE UNCHANGED cases
            BY <1>2, <2>5
      <2>6. QED
            BY <1>6, <2>1, <2>2, <2>3, <2>4, <2>5 DEF CaseStep, Claim, Reject, Reply
<1>7. CASE \E l \in Links : LinkStep(l)
      BY <1>2, <1>7 DEF LinkStep, Invite, Accept, Confirm, Revoke, ClaimInvitation, GiveUp
<1>8. CASE \E c \in People : Remove(c)
      BY <1>4, <1>8 DEF Remove
<1>9. CASE Record \/ Smtp \/ Tick \/ Crash \/ UNCHANGED vars
      BY <1>2, <1>9 DEF Record, Smtp, Tick, Crash, vars
<1>10. QED
      BY <1>6, <1>7, <1>8, <1>9 DEF Next, Worker, LinkStep, CaseStep

\* Counts never sink.
LEMMA AttemptedGrows ==
    ASSUME Inv, TypeOK', HandCounts, [Next]_vars, NEW u \in Int, u <= now
    PROVE  \A x \in Ids : Attempted(u)[x] \in Nat /\ Attempted(u)'[x] \in Nat
                          /\ Attempted(u)[x] <= Attempted(u)'[x]
<1>1. \A x \in Ids : Attempted(u)[x] \in Nat /\ Attempted(u)'[x] \in Nat
      BY AttemptedType, AttemptedPrime DEF Inv
<1>2. ASSUME NEW l \in Links PROVE Attempted(u)[l] <= Attempted(u)'[l]
      <2>1. links[l] \in Link /\ links'[l] \in Link
            BY DEF Inv, TypeOK
      <2>2. Row(links[l], u) <= Row(links'[l], u)
            BY <2>1, LinksGrow, GrowsRow DEF Inv
      <2>3. Row(links[l], u) \in Nat /\ Row(links'[l], u) \in Nat
            BY <2>1, RowIs
      <2>4. QED
            BY <2>2, <2>3, AttemptedIs
<1>3. ASSUME NEW k \in Cases PROVE Attempted(u)[k] <= Attempted(u)'[k]
      <2>1. jobs[k] \in Job /\ jobs'[k] \in Job /\ cases[k] \in Case /\ cases'[k] \in Case
            BY DEF Inv, TypeOK
      <2>2. Row(jobs[k], u) <= Row(jobs'[k], u)
            BY <2>1, JobsGrow, GrowsRow DEF Inv
      <2>3. Row(jobs[k], u) \in Nat /\ Row(jobs'[k], u) \in Nat
            BY <2>1, RowIs
      <2>4. Warns(cases[k], u) \in {0, 1} /\ Warns(cases'[k], u) \in {0, 1}
            /\ (Warns(cases[k], u) = 1 => Warns(cases'[k], u) = 1)
            BY WarningsStay DEF Warns
      <2>5. QED
            BY <2>2, <2>3, <2>4, AttemptedIs
<1>4. QED
      BY <1>1, <1>2, <1>3 DEF Ids

\* Every attempt is allowed by the caps, and its row counts it from then on.
Counted(c, x) ==
    /\ Sent(c) /\ UNCHANGED now /\ send_allowed(c) /\ ContactOf[x] = c
    /\ \A u \in Int : u <= now => Attempted(u)[x] + 1 <= Attempted(u)'[x]

LEMMA ClaimCounted ==
    ASSUME Inv, NEW k \in Cases, Claim(k)
    PROVE  Counted(ContactOf[k], k)
<1> USE DEF Inv, TypeOK
<1>1. jobs[k] \in Job /\ jobs[k].attempts \in Nat /\ now \in Nat /\ cases[k] \in Case
      BY ContactsAssumption, Numbers DEF Job
<1>2. PICK n \in Nat : n = jobs[k].attempts + 1
      BY <1>1
<1>3. now + Backoff * n \in Nat /\ now + Backoff * n >= now
      <2>1. Backoff * n \in Nat
            BY <1>2, ContactsAssumption
      <2>2. QED
            BY <1>1, <2>1
<1>4. /\ jobs'[k].attempts = n /\ jobs'[k].next = now + Backoff * n
      /\ jobs'[k].status # None /\ cases' = cases
      BY <1>1, <1>2 DEF Claim, Job, None
<1>5. ASSUME NEW u \in Int, u <= now PROVE Attempted(u)[k] + 1 <= Attempted(u)'[k]
      <2>1. Row(jobs[k], u) \in Nat /\ Row(jobs[k], u) <= jobs[k].attempts
            BY <1>1, RowIs DEF Row
      <2>2. Row(jobs'[k], u) = n
            BY <1>1, <1>3, <1>4, <1>5 DEF Row
      <2>3. Warns(cases'[k], u) = Warns(cases[k], u) /\ Warns(cases[k], u) \in Nat
            BY <1>1, <1>4, RowIs
      <2>4. QED
            BY <1>1, <1>2, <2>1, <2>2, <2>3, AttemptedIs
<1>6. QED
      BY <1>5 DEF Claim, Counted

LEMMA InvitationCounted ==
    ASSUME Inv, NEW l \in Links, ClaimInvitation(l)
    PROVE  Counted(ContactOf[l], l)
<1> USE DEF Inv, TypeOK
<1>1. links[l] \in Link /\ links[l].attempts \in Nat /\ now \in Nat
      BY ContactsAssumption, Numbers DEF Link
<1>2. PICK n \in Nat : n = links[l].attempts + 1
      BY <1>1
<1>3. now + Backoff * n \in Nat /\ now + Backoff * n >= now
      <2>1. Backoff * n \in Nat
            BY <1>2, ContactsAssumption
      <2>2. QED
            BY <1>1, <2>1
<1>4. links'[l].attempts = n /\ links'[l].next = now + Backoff * n /\ links'[l].status # None
      BY <1>1, <1>2 DEF ClaimInvitation, Undelivered, Link, None
<1>5. ASSUME NEW u \in Int, u <= now PROVE Attempted(u)[l] + 1 <= Attempted(u)'[l]
      <2>1. Row(links[l], u) \in Nat /\ Row(links[l], u) <= links[l].attempts
            BY <1>1, RowIs DEF Row
      <2>2. Row(links'[l], u) = n
            BY <1>1, <1>3, <1>4, <1>5 DEF Row
      <2>3. QED
            BY <1>1, <1>2, <2>1, <2>2, AttemptedIs
<1>6. QED
      BY <1>5 DEF ClaimInvitation, Counted

LEMMA WarningCounted ==
    ASSUME Inv, NEW k \in Cases, Deliver(k), ~UNCHANGED sends
    PROVE  Counted(ContactOf[k], k)
<1> USE DEF Inv, TypeOK
<1>1. jobs[k] \in Job /\ now \in Nat /\ cases[k] \in Case
      BY Numbers
<1>2. /\ cases[k].contact = "pending" /\ jobs' = jobs
      /\ cases'[k].contact = "published" /\ cases'[k].warned = now
      BY <1>1 DEF Deliver, Case
<1>3. ASSUME NEW u \in Int, u <= now PROVE Attempted(u)[k] + 1 <= Attempted(u)'[k]
      <2>1. Row(jobs'[k], u) = Row(jobs[k], u) /\ Row(jobs[k], u) \in Nat
            BY <1>1, <1>2, RowIs
      <2>2. Warns(cases[k], u) = 0 /\ Warns(cases'[k], u) = 1
            BY <1>1, <1>2, <1>3 DEF Warns
      <2>3. QED
            BY <2>1, <2>2, AttemptedIs
<1>4. QED
      BY <1>3 DEF Deliver, Counted

LEMMA SendCounted ==
    ASSUME Inv, [Next]_vars
    PROVE  UNCHANGED sends \/ \E c \in People, x \in Ids : Counted(c, x)
<1> USE DEF Inv
<1>1. ASSUME NEW l \in Links, LinkStep(l)
      PROVE  UNCHANGED sends \/ \E c \in People, x \in Ids : Counted(c, x)
      <2>1. CASE ClaimInvitation(l)
            BY <2>1, InvitationCounted, Numbers DEF Ids
      <2>2. CASE ~ClaimInvitation(l)
            BY <1>1, <2>2 DEF LinkStep, Invite, Accept, Confirm, Revoke, GiveUp
      <2>3. QED
            BY <2>1, <2>2
<1>2. ASSUME NEW k \in Cases, CaseStep(k)
      PROVE  UNCHANGED sends \/ \E c \in People, x \in Ids : Counted(c, x)
      <2>1. CASE Claim(k)
            BY <2>1, ClaimCounted, Numbers DEF Ids
      <2>2. CASE Deliver(k)
            BY <2>2, WarningCounted, Numbers DEF Ids
      <2>3. CASE ~Claim(k) /\ ~Deliver(k)
            BY <1>2, <2>3 DEF CaseStep, Assess, Simulate, Approve, Reject, Forbid, Script, Press,
               Lapse, Settle, Start, Reply
      <2>4. QED
            BY <2>1, <2>2, <2>3
<1>3. CASE \/ Smtp \/ Record \/ Tick \/ Crash \/ UNCHANGED vars \/ \E c \in People : Remove(c)
      BY <1>3 DEF Smtp, Record, Tick, Crash, Remove, vars
<1>4. QED
      BY <1>1, <1>2, <1>3 DEF Next, Worker, LinkStep, CaseStep

\* An attempt adds at most one to what several contacts are sent, and nothing if
\* it is to none of them or after the window.
LEMMA SumsAfter ==
    ASSUME TypeOK, NEW c \in People, Sent(c), NEW from \in Int, NEW to \in Int,
           NEW who \in SUBSET People
    PROVE  /\ SumOn(Sends(sends', from, to), who) <= SumOn(Sends(sends, from, to), who) + 1
           /\ c \notin who \/ now > to =>
                SumOn(Sends(sends', from, to), who) <= SumOn(Sends(sends, from, to), who)
<1>1. sends \in [People -> [Time -> Nat]] /\ sends' \in [People -> [Time -> Nat]]
      BY SentAddsOne DEF TypeOK
<1>2. IsFiniteSet(who)
      BY ContactsAssumption, FS_Subset
<1> DEFINE f == Sends(sends, from, to)
           h == Sends(sends', from, to)
<1>3. \A d \in who : f[d] \in Nat /\ h[d] \in Nat
      BY <1>1, SendsType
<1>4. h[c] <= f[c] + 1 /\ \A d \in who : d # c \/ now > to => h[d] <= f[d]
      BY SentAddsOne
<1> HIDE DEF f, h
<1>5. SumOn(f, who) \in Nat
      BY <1>2, <1>3, SumType
<1>6. c \notin who \/ now > to => SumOn(h, who) <= SumOn(f, who)
      BY <1>2, <1>3, <1>4, SumMore
<1>7. c \in who => SumOn(h, who) <= SumOn(f, who) + 1
      BY <1>2, <1>3, <1>4, SumOneMore
<1>8. SumOn(h, who) \in Nat
      BY <1>2, <1>3, SumType
<1>9. SumOn(h, who) <= SumOn(f, who) + 1 /\ (c \notin who \/ now > to => SumOn(h, who) <= SumOn(f, who))
      BY <1>5, <1>6, <1>7, <1>8
<1>10. QED
       BY <1>9 DEF f, h

\* A table and a window with no more in it, for several contacts.
LEMMA SumsLess ==
    ASSUME NEW t1 \in [People -> [Time -> Nat]], NEW t2 \in [People -> [Time -> Nat]],
           NEW f1 \in Int, NEW e1 \in Int, NEW f2 \in Int, NEW e2 \in Int, NEW who \in SUBSET People,
           \A d \in who, u \in Time : Window(t1, d, f1, e1)[u] <= Window(t2, d, f2, e2)[u]
    PROVE  SumOn(Sends(t1, f1, e1), who) <= SumOn(Sends(t2, f2, e2), who)
<1>1. \A d \in who : Sends(t1, f1, e1)[d] \in Nat /\ Sends(t2, f2, e2)[d] \in Nat
      BY SendsType
<1>2. \A d \in who : Sends(t1, f1, e1)[d] <= Sends(t2, f2, e2)[d]
      BY SendsLess
<1>3. IsFiniteSet(who)
      BY ContactsAssumption, FS_Subset
<1>4. QED
      BY <1>1, <1>2, <1>3, SumMore

LEMMA NoneSent ==
    ASSUME NEW table \in [People -> [Time -> Nat]], NEW from \in Int, NEW to \in Int,
           NEW who \in SUBSET People, \A d \in who, u \in Time : Window(table, d, from, to)[u] = 0
    PROVE  SumOn(Sends(table, from, to), who) = 0
<1>1. ASSUME NEW d \in who PROVE Sends(table, from, to)[d] = 0
      <2>1. SumOn(Window(table, d, from, to), Time) = 0
            BY SumZero, TimeFinite
      <2>2. QED
            BY <2>1, SendsType
<1>2. IsFiniteSet(who)
      BY ContactsAssumption, FS_Subset
<1>3. QED
      BY <1>1, <1>2, SumZero

\* The counts of several contacts' rows are numbers, and sink at no step.
LEMMA CountsGrow ==
    ASSUME Inv, TypeOK', HandCounts, [Next]_vars, NEW u \in Int, u <= now, NEW who
    PROVE  /\ SumOn(Attempted(u), Of(who)) \in Nat /\ SumOn(Attempted(u)', Of(who)) \in Nat
           /\ SumOn(Attempted(u), Of(who)) <= SumOn(Attempted(u)', Of(who))
           /\ \A c \in who, x \in Ids : Counted(c, x) =>
                SumOn(Attempted(u), Of(who)) + 1 <= SumOn(Attempted(u)', Of(who))
<1>1. IsFiniteSet(Of(who)) /\ Of(who) \subseteq Ids
      BY OfFinite
<1> DEFINE f == Attempted(u)
           h == Attempted(u)'
<1>2. \A x \in Of(who) : f[x] \in Nat /\ h[x] \in Nat /\ f[x] <= h[x]
      BY <1>1, AttemptedGrows
<1>3. \A c \in who, x \in Ids : Counted(c, x) => x \in Of(who) /\ f[x] + 1 <= h[x]
      BY DEF Counted, Of, Ids
<1> HIDE DEF f, h
<1>4. SumOn(f, Of(who)) \in Nat /\ SumOn(h, Of(who)) \in Nat
      BY <1>1, <1>2, SumType
<1>5. SumOn(f, Of(who)) <= SumOn(h, Of(who))
      BY <1>1, <1>2, SumMore
<1>6. \A c \in who, x \in Ids : Counted(c, x) => SumOn(f, Of(who)) + 1 <= SumOn(h, Of(who))
      BY <1>1, <1>2, <1>3, SumRaised
<1>7. QED
      BY <1>4, <1>5, <1>6 DEF f, h

LEMMA CoveredStep ==
    ASSUME Inv, TypeOK', HandCounts, NothingAhead, Covered, [Next]_vars
    PROVE  Covered'
<1> USE DEF Inv
<1>1. /\ now \in Nat /\ now' \in Nat
      /\ sends \in [People -> [Time -> Nat]] /\ sends' \in [People -> [Time -> Nat]]
      BY DEF TypeOK, Time
<1> SUFFICES ASSUME NEW who \in SUBSET People, NEW u \in Int, u <= now'
             PROVE  SumOn(Sends(sends', u, now'), who) <= SumOn(Attempted(u)', Of(who))
    BY DEF Covered
<1>2. SumOn(Attempted(u)', Of(who)) \in Nat
      <2>1. IsFiniteSet(Of(who)) /\ \A x \in Of(who) : Attempted(u)'[x] \in Nat
            BY OfFinite, AttemptedPrime
      <2>2. QED
            BY <2>1, SumType
<1>3. CASE u > now
      <2>1. UNCHANGED sends
            BY <1>1, <1>3, SendCounted DEF Counted
      <2>2. \A d \in who, v \in Time : Window(sends', d, u, now')[v] = 0
            BY <1>1, <1>3, <2>1 DEF Window, NothingAhead, Time
      <2>3. SumOn(Sends(sends', u, now'), who) = 0
            BY <1>1, <2>2, NoneSent
      <2>4. QED
            BY <1>2, <2>3
<1>4. CASE u <= now
      <2>1. SumOn(Sends(sends, u, now), who) <= SumOn(Attempted(u), Of(who))
            BY <1>4 DEF Covered
      <2>2. SumOn(Sends(sends, u, now), who) \in Nat /\ SumOn(Sends(sends', u, now'), who) \in Nat
            <3>1. IsFiniteSet(who)
                  BY ContactsAssumption, FS_Subset
            <3>2. \A d \in who : Sends(sends, u, now)[d] \in Nat /\ Sends(sends', u, now')[d] \in Nat
                  BY <1>1, SendsType
            <3>3. QED
                  BY <3>1, <3>2, SumType
      <2>3. CASE UNCHANGED sends
            <3>1. ASSUME NEW d \in who, NEW v \in Time
                  PROVE  Window(sends', d, u, now')[v] <= Window(sends, d, u, now)[v]
                  <4>1. sends'[d][v] = sends[d][v] /\ sends[d][v] \in Nat /\ v \in Nat
                        <5>1. d \in People /\ v \in Nat
                              BY DEF Time
                        <5>2. QED
                              BY <1>1, <2>3, <5>1
                  <4>2. v > now => sends[d][v] = 0
                        BY DEF NothingAhead
                  <4>3. QED
                        BY <1>1, <4>1, <4>2 DEF Window
            <3>2. SumOn(Sends(sends', u, now'), who) <= SumOn(Sends(sends, u, now), who)
                  <4>1. now \in Int /\ now' \in Int
                        BY <1>1
                  <4>2. QED
                        BY <1>1, <3>1, <4>1, SumsLess
            <3>3. QED
                  BY <1>2, <1>4, <2>1, <2>2, <3>2, CountsGrow
      <2>4. ASSUME NEW c \in People, NEW x \in Ids, Counted(c, x)
            PROVE  SumOn(Sends(sends', u, now'), who) <= SumOn(Attempted(u)', Of(who))
            <3>1. Sent(c) /\ now' = now
                  BY <2>4 DEF Counted
            <3>2. CASE c \in who
                  <4>1. SumOn(Sends(sends', u, now'), who) <= SumOn(Sends(sends, u, now), who) + 1
                        BY <1>1, <3>1, SumsAfter
                  <4>2. SumOn(Attempted(u), Of(who)) \in Nat
                        /\ SumOn(Attempted(u), Of(who)) + 1 <= SumOn(Attempted(u)', Of(who))
                        BY <1>4, <2>4, <3>2, CountsGrow
                  <4>3. QED
                        BY <1>2, <2>1, <2>2, <4>1, <4>2
            <3>3. CASE c \notin who
                  <4>1. SumOn(Sends(sends', u, now'), who) <= SumOn(Sends(sends, u, now), who)
                        BY <1>1, <3>1, <3>3, SumsAfter
                  <4>2. SumOn(Attempted(u), Of(who)) \in Nat
                        /\ SumOn(Attempted(u), Of(who)) <= SumOn(Attempted(u)', Of(who))
                        BY <1>4, CountsGrow
                  <4>3. QED
                        BY <1>2, <2>1, <2>2, <4>1, <4>2
            <3>4. QED
                  BY <3>2, <3>3
      <2>5. QED
            BY <2>3, <2>4, SendCounted
<1>5. QED
      BY <1>1, <1>3, <1>4

LEMMA NothingAheadStep ==
    ASSUME Inv, TypeOK', NothingAhead, [Next]_vars
    PROVE  NothingAhead'
<1> USE DEF Inv
<1>1. now \in Time /\ now \in Nat /\ now' \in Nat /\ sends \in [People -> [Time -> Nat]]
      BY DEF TypeOK, Time
<1>2. now' >= now
      <2>1. CASE Tick
            BY <1>1, <2>1 DEF Tick
      <2>2. CASE \E l \in Links : LinkStep(l)
            BY <1>1, <2>2 DEF LinkStep, Invite, Accept, Confirm, Revoke, ClaimInvitation, GiveUp
      <2>3. ASSUME NEW k \in Cases, CaseStep(k)
            PROVE  now' = now
            BY <2>3 DEF CaseStep, Assess, Simulate, Approve, Reject, Forbid, Script, Claim,
               Press, Deliver, Lapse, Settle, Start, Reply
      <2>4. Smtp \/ Record \/ Crash \/ UNCHANGED vars \/ (\E c \in People : Remove(c)) => now' = now
            BY DEF Smtp, Record, Crash, Remove, vars
      <2>5. QED
            BY <1>1, <2>1, <2>2, <2>3, <2>4 DEF Next, Worker, LinkStep, CaseStep
<1>3. CASE UNCHANGED sends
      BY <1>1, <1>2, <1>3 DEF NothingAhead, Time
<1>4. CASE \E c \in People, x \in Ids : Counted(c, x)
      <2>1. PICK c \in People : Sent(c) /\ now' = now
            BY <1>4 DEF Counted
      <2>2. \A d \in People, u \in Time : u > now => sends'[d][u] = sends[d][u]
            BY <1>1, <2>1 DEF Sent
      <2>3. QED
            BY <2>1, <2>2 DEF NothingAhead
<1>5. QED
      BY <1>3, <1>4, SendCounted

LEMMA HandCountsStep ==
    ASSUME Inv, TypeOK', HandCounts, [Next]_vars
    PROVE  HandCounts'
<1> USE DEF Inv, TypeOK
<1>0. Links \cap Cases = {} /\ None \notin Links \cup Cases
      BY ContactsAssumption
<1>1. CASE hand' = Idle
      BY <1>0, <1>1 DEF HandCounts, Idle
<1>2. ASSUME NEW l \in Links, ClaimInvitation(l) PROVE HandCounts'
      <2>1. PICK n : n = links[l].attempts + 1
            OBVIOUS
      <2>2. /\ links'[l].attempts = n /\ links'[l].status # None
            /\ hand' = [Idle EXCEPT !.on = l, !.attempts = n] /\ n \in Nat /\ l \notin Cases
            BY <1>0, <1>2, <2>1 DEF ClaimInvitation, Undelivered, Link, None
      <2>3. hand'.on = l /\ hand'.attempts = n
            BY <2>2 DEF Idle
      <2>4. QED
            BY <2>2, <2>3 DEF HandCounts
<1>3. ASSUME NEW k \in Cases, Claim(k) PROVE HandCounts'
      <2>1. PICK n : n = jobs[k].attempts + 1
            OBVIOUS
      <2>2. /\ jobs'[k].attempts = n /\ n \in Nat /\ k \notin Links
            /\ hand' = Idle \/ hand' = [Idle EXCEPT !.on = k, !.attempts = n]
            BY <1>0, <1>3, <2>1 DEF Claim, Job
      <2>3. CASE hand' = [Idle EXCEPT !.on = k, !.attempts = n]
            <3>1. hand'.on = k /\ hand'.attempts = n
                  BY <2>3 DEF Idle
            <3>2. QED
                  BY <2>2, <3>1 DEF HandCounts
      <2>4. QED
            BY <1>1, <2>2, <2>3
<1>4. CASE /\ hand'.on = hand.on /\ hand'.attempts = hand.attempts
           /\ hand.on \in Cases => jobs'[hand.on].attempts <= jobs[hand.on].attempts
           /\ hand.on \in Links => links'[hand.on].attempts <= links[hand.on].attempts
      <2>1. hand.attempts \in Nat
            BY Rows, Numbers
      <2>2. /\ hand.on \in Cases => jobs[hand.on].attempts \in Nat /\ jobs'[hand.on].attempts \in Nat
            /\ hand.on \in Links => links[hand.on].attempts \in Nat /\ links'[hand.on].attempts \in Nat
            BY DEF Job, Link
      <2>3. hand.on \in Links => links'[hand.on].status # None
            BY LinksGrow DEF HandCounts, Grows
      <2>4. QED
            BY <1>4, <2>1, <2>2, <2>3 DEF HandCounts
<1>5. ASSUME NEW l \in Links, LinkStep(l), ~ClaimInvitation(l), hand # Idle PROVE HandCounts'
      <2>1. /\ UNCHANGED <<hand, jobs>>
            /\ \A m \in Links : links'[m].attempts <= links[m].attempts
            <3>1. \A m \in Links : links[m] \in Link /\ links[m].attempts \in Nat
                  BY DEF Link
            <3>2. CASE Invite(l)
                  BY <3>1, <3>2 DEF Invite, NoLink
            <3>3. CASE Accept(l) \/ Revoke(l)
                  <4>1. ASSUME NEW s, links' = [links EXCEPT ![l].status = s], NEW m \in Links
                        PROVE  links'[m].attempts = links[m].attempts
                        BY <3>1, <4>1 DEF Link
                  <4>2. \/ links' = [links EXCEPT ![l].status = "confirmed"]
                        \/ links' = [links EXCEPT ![l].status = "revoked"]
                        BY <3>3 DEF Accept, Revoke
                  <4>3. \A m \in Links : links'[m].attempts = links[m].attempts
                        BY <4>1, <4>2
                  <4>4. QED
                        BY <3>1, <3>3, <4>3 DEF Accept, Revoke
            <3>4. CASE Confirm(l)
                  <4>1. ASSUME NEW m \in Links PROVE links'[m].attempts = links[m].attempts
                        <5>1. \/ links'[m] = [links[m] EXCEPT !.status = "active"]
                              \/ links'[m] = [links[m] EXCEPT !.status = "revoked"]
                              \/ links'[m] = links[m]
                              BY <3>4 DEF Confirm
                        <5>2. QED
                              BY <3>1, <5>1 DEF Link
                  <4>2. QED
                        BY <3>1, <3>4, <4>1 DEF Confirm
            <3>5. QED
                  BY <1>5, <3>2, <3>3, <3>4 DEF LinkStep, GiveUp
      <2>2. \A k \in Cases : jobs[k].attempts \in Nat
            BY DEF Job
      <2>3. QED
            BY <1>4, <2>1, <2>2
<1>6. ASSUME NEW k \in Cases, CaseStep(k), ~Claim(k), hand # Idle PROVE HandCounts'
      <2>1. /\ UNCHANGED <<hand, links>>
            /\ \A m \in Cases : jobs'[m].attempts <= jobs[m].attempts
            <3>1. \A m \in Cases : jobs[m] \in Job /\ jobs[m].attempts \in Nat
                  BY DEF Job
            <3>2. CASE \E l \in Links : Start(k, l)
                  <4>1. PICK l \in Links : Start(k, l)
                        BY <3>2
                  <4>2. PICK j : j = [NoJob EXCEPT !.status = "approval", !.link = l,
                                                   !.created = now, !.next = now]
                        OBVIOUS
                  <4>3. j.attempts = 0
                        BY <4>2 DEF NoJob
                  <4>4. UNCHANGED <<hand, links>> /\ \A m \in Cases \ {k} : jobs'[m] = jobs[m]
                        BY <4>1 DEF Start, Queued
                  <4>5. jobs'[k].attempts = 0
                        <5>1. Queued(k, j) \/ jobs' = [jobs EXCEPT ![k] = [j EXCEPT !.until = now + ApprovalTtl]]
                              BY <4>1, <4>2 DEF Start
                        <5>2. \/ jobs'[k] = [j EXCEPT !.status = "pending", !.expires = now + Ttl[Kind[j.link]],
                                                       !.until = 0]
                              \/ jobs'[k] = [j EXCEPT !.until = now + ApprovalTtl]
                              BY <5>1 DEF Queued
                        <5>3. QED
                              BY <4>2, <4>3, <5>2 DEF NoJob
                  <4>6. QED
                        <5>1. \A m \in Cases : jobs'[m].attempts = jobs[m].attempts \/ jobs'[m].attempts = 0
                              BY <4>4, <4>5
                        <5>2. QED
                              BY <3>1, <4>4, <5>1
            <3>3. CASE Approve(k) \/ Reject(k)
                  <4>1. UNCHANGED <<hand, links>> /\ \A m \in Cases \ {k} : jobs'[m] = jobs[m]
                        BY <3>3 DEF Approve, Reject, Queued
                  <4>2. jobs'[k].attempts = jobs[k].attempts
                        <5>1. CASE Queued(k, jobs[k])
                              <6>1. jobs'[k] = [jobs[k] EXCEPT !.status = "pending", !.expires = now + Ttl[Kind[jobs[k].link]],
                                                     !.until = 0]
                                    BY <5>1 DEF Queued
                              <6>2. QED
                                    BY <3>1, <6>1 DEF Job
                        <5>2. CASE Reject(k)
                              BY <3>1, <5>2 DEF Reject, Job
                        <5>3. QED
                              BY <3>3, <5>1, <5>2 DEF Approve
                  <4>3. \A m \in Cases : jobs'[m].attempts = jobs[m].attempts
                        BY <4>1, <4>2
                  <4>4. QED
                        BY <3>1, <4>1, <4>3
            <3>4. CASE UNCHANGED <<hand, links, jobs>>
                  BY <3>1, <3>4
            <3>5. QED
                  BY <1>6, <3>2, <3>3, <3>4 DEF CaseStep, Assess, Simulate, Forbid, Script, Press,
                     Deliver, Lapse, Settle, Reply
      <2>2. \A l \in Links : links[l].attempts \in Nat
            BY DEF Link
      <2>3. QED
            BY <1>4, <2>1, <2>2
<1>7. ASSUME NEW c \in People, Remove(c) PROVE HandCounts'
      <2>1. UNCHANGED hand
            BY <1>7 DEF Remove
      <2>2. ASSUME NEW l \in Links PROVE links'[l].attempts = links[l].attempts
            <3>1. links'[l] = [links[l] EXCEPT !.status = "revoked"] \/ links'[l] = links[l]
                  BY <1>7 DEF Remove
            <3>2. QED
                  BY <3>1 DEF Link
      <2>3. ASSUME NEW k \in Cases PROVE jobs'[k].attempts = jobs[k].attempts
            <3>1. jobs'[k] = [jobs[k] EXCEPT !.status = "closed"] \/ jobs'[k] = jobs[k]
                  BY <1>7 DEF Remove, Finish
            <3>2. QED
                  BY <3>1 DEF Job
      <2>4. (\A k \in Cases : jobs[k].attempts \in Nat) /\ (\A l \in Links : links[l].attempts \in Nat)
            BY DEF Job, Link
      <2>5. QED
            BY <1>4, <2>1, <2>2, <2>3, <2>4
<1>8. CASE Smtp \/ Tick \/ UNCHANGED vars
      <2>1. hand'.on = hand.on /\ hand'.attempts = hand.attempts /\ UNCHANGED <<links, jobs>>
            BY <1>8 DEF Smtp, Tick, vars, Hand
      <2>2. (\A k \in Cases : jobs[k].attempts \in Nat) /\ (\A l \in Links : links[l].attempts \in Nat)
            BY DEF Job, Link
      <2>3. QED
            BY <1>4, <2>1, <2>2
<1>9. CASE Record \/ Crash
      BY <1>1, <1>9 DEF Record, Crash
<1>10. CASE hand = Idle /\ (\/ \E l \in Links : LinkStep(l) /\ ~ClaimInvitation(l)
                            \/ \E k \in Cases : CaseStep(k) /\ ~Claim(k))
       <2>1. hand' = Idle
             BY <1>10 DEF LinkStep, CaseStep, Invite, Accept, Confirm, Revoke, GiveUp, Assess, Simulate,
                Approve, Reject, Forbid, Script, Press, Deliver, Lapse, Settle, Start, Reply
       <2>2. QED
             BY <1>1, <2>1
<1>11. QED
       BY <1>2, <1>3, <1>5, <1>6, <1>7, <1>8, <1>9, <1>10 DEF Next, Worker, LinkStep, CaseStep

\* The property, over the sums of this module.
Capped(table) ==
    \A cap \in Caps, t \in Time, c \in People :
        SumOn(Sends(table, t - cap.window, t), Scope(cap, c)) <= cap.limit

LEMMA ScopeIs ==
    ASSUME NEW cap \in Caps, NEW c \in People
    PROVE  /\ Scope(cap, c) \in SUBSET People /\ IsFiniteSet(Scope(cap, c))
           /\ \A d \in People : d \in Scope(cap, c) => Scope(cap, d) = Scope(cap, c)
<1>1. Scope(cap, c) \in SUBSET People /\ \A d \in People : d \in Scope(cap, c) => Scope(cap, d) = Scope(cap, c)
      BY DEF Scope
<1>2. QED
      BY <1>1, ContactsAssumption, FS_Subset

LEMMA CappedIs == (SendsCapped <=> Capped(sends)) /\ (SendsCapped' <=> Capped(sends'))
<1>1. \A from, to : SentIn(from, to) = Sends(sends, from, to) /\ SentIn(from, to)' = Sends(sends', from, to)
      BY DEF SentIn, Sends, Window
<1>2. \A f : \A cap \in Caps, c \in People : SumFunctionOnSet(f, Scope(cap, c)) = SumOn(f, Scope(cap, c))
      BY ScopeIs, FunctionSum
<1>3. QED
      BY <1>1, <1>2 DEF SendsCapped, Capped

LEMMA CapsStep ==
    ASSUME Inv, TypeOK', NothingAhead, NothingAhead', Covered, SendsCapped, [Next]_vars
    PROVE  SendsCapped'
<1> USE DEF Inv
<1>1. /\ now \in Nat /\ \A t \in Time : t \in Nat
      /\ sends \in [People -> [Time -> Nat]] /\ sends' \in [People -> [Time -> Nat]]
      BY DEF TypeOK, Time
<1>2. CASE UNCHANGED sends
      BY <1>2, CappedIs
<1>3. ASSUME NEW c \in People, NEW x \in Ids, Counted(c, x) PROVE Capped(sends')
      <2>1. Sent(c) /\ now' = now /\ send_allowed(c)
            BY <1>3 DEF Counted
      <2> SUFFICES ASSUME NEW cap \in Caps, NEW t \in Time, NEW d \in People
                   PROVE  SumOn(Sends(sends', t - cap.window, t), Scope(cap, d)) <= cap.limit
          BY DEF Capped
      <2>2. PICK who \in SUBSET People : who = Scope(cap, d) /\ IsFiniteSet(who)
            BY ScopeIs
      <2>3. cap.window \in Nat /\ cap.limit \in Nat /\ t \in Nat
            BY <1>1, ContactsAssumption
      <2>4. PICK from \in Int : from = t - cap.window
            BY <2>3
      <2>5. PICK u \in Int : u = now - cap.window
            BY <1>1, <2>3
      <2>6. /\ SumOn(Sends(sends', from, t), who) \in Nat /\ SumOn(Sends(sends, from, t), who) \in Nat
            /\ SumOn(Sends(sends', u, now), who) \in Nat /\ SumOn(Sends(sends, u, now), who) \in Nat
            <3>1. \A e \in who : /\ Sends(sends', from, t)[e] \in Nat /\ Sends(sends, from, t)[e] \in Nat
                                 /\ Sends(sends', u, now)[e] \in Nat /\ Sends(sends, u, now)[e] \in Nat
                  BY <1>1, <2>3, SendsType
            <3>2. QED
                  BY <2>2, <3>1, SumType
      <2>7. CASE c \notin who \/ now > t
            <3>1. SumOn(Sends(sends', from, t), who) <= SumOn(Sends(sends, from, t), who)
                  BY <2>1, <2>3, <2>7, SumsAfter
            <3>2. SumOn(Sends(sends, from, t), who) <= cap.limit
                  BY <2>2, <2>4, CappedIs DEF Capped
            <3>3. QED
                  BY <2>2, <2>3, <2>4, <2>6, <3>1, <3>2
      <2>8. CASE c \in who /\ now <= t
            <3>1. \A e \in who, v \in Time : Window(sends', e, from, t)[v] <= Window(sends', e, u, now)[v]
                  BY <1>1, <2>1, <2>3, <2>4, <2>5, <2>8 DEF Window, NothingAhead
            <3>2. SumOn(Sends(sends', from, t), who) <= SumOn(Sends(sends', u, now), who)
                  BY <1>1, <2>3, <3>1, SumsLess
            <3>3. SumOn(Sends(sends', u, now), who) <= SumOn(Sends(sends, u, now), who) + 1
                  BY <1>1, <2>1, SumsAfter
            <3>4. SumOn(Sends(sends, u, now), who) <= SumOn(Attempted(u), Of(who))
                  BY <1>1, <2>3, <2>5 DEF Covered
            <3>5. SumOn(Attempted(u), Of(who)) \in Nat /\ SumOn(Attempted(u), Of(who)) < cap.limit
                  <4>1. Scope(cap, c) = who
                        BY <2>2, <2>8, ScopeIs
                  <4>2. SumFunctionOnSet(Attempted(u), Of(who)) < cap.limit
                        BY <2>1, <2>5, <4>1 DEF send_allowed, Within
                  <4>3. IsFiniteSet(Of(who)) /\ \A y \in Of(who) : Attempted(u)[y] \in Nat
                        BY OfFinite, AttemptedType
                  <4>4. QED
                        BY <4>2, <4>3, FunctionSum, SumType
            <3>6. QED
                  BY <2>2, <2>3, <2>4, <2>6, <3>2, <3>3, <3>4, <3>5
      <2>9. QED
            BY <1>1, <2>3, <2>7, <2>8
<1>4. QED
      BY <1>2, <1>3, CappedIs, SendCounted

-----------------------------------------------------------------------------
(* The theorems.                                                           *)

LEMMA InitInv == Init => Inv
<1> SUFFICES ASSUME Init PROVE Inv
    OBVIOUS
<1>1. TypeOK
      BY ContactsAssumption DEF Init, TypeOK, Time, Link, NoLink, Case, NoCase, Warning, Job, NoJob,
         Hand, Idle, Deadline
<1>2. JobsFollow /\ HandClaimed
      BY ContactsAssumption DEF Init, JobsFollow, Follows, Started, HandClaimed, NoCase, NoJob, Idle, None
<1>3. QED
      BY <1>1, <1>2 DEF Inv

LEMMA StepInv == Inv /\ [Next]_vars => Inv'
<1> SUFFICES ASSUME Inv, [Next]_vars PROVE Inv'
    OBVIOUS
<1>1. TypeOK'
      BY LinkTypes, CaseTypes, RestTypes DEF Next, Worker, LinkStep, CaseStep
<1>2. QED
      BY <1>1, StepFollows, StepHand DEF Inv

LEMMA InitCaps == Init => CapInv
<1> SUFFICES ASSUME Init PROVE CapInv
    OBVIOUS
<1>1. TypeOK /\ now = 0 /\ sends \in [People -> [Time -> Nat]]
      BY InitInv DEF Inv, TypeOK, Init
<1>2. \A d \in People, u \in Time : sends[d][u] = 0
      BY DEF Init
<1>3. \A who \in SUBSET People, from \in Int, to \in Int : SumOn(Sends(sends, from, to), who) = 0
      <2>1. \A d \in People : \A from, to : \A u \in Time : Window(sends, d, from, to)[u] = 0
            BY <1>2 DEF Window
      <2>2. QED
            BY <1>1, <2>1, NoneSent
<1>4. HandCounts
      BY ContactsAssumption DEF Init, HandCounts, Idle
<1>5. NothingAhead
      BY <1>2 DEF NothingAhead
<1>6. Covered
      <2> SUFFICES ASSUME NEW who \in SUBSET People, NEW u \in Int
                   PROVE  SumOn(Sends(sends, u, now), who) <= SumOn(Attempted(u), Of(who))
          BY DEF Covered
      <2>1. IsFiniteSet(Of(who)) /\ \A y \in Of(who) : Attempted(u)[y] \in Nat
            BY <1>1, OfFinite, AttemptedType
      <2>2. SumOn(Attempted(u), Of(who)) \in Nat
            BY <2>1, SumType
      <2>3. QED
            BY <1>1, <1>3, <2>2
<1>7. SendsCapped
      <2>1. \A cap \in Caps, t \in Time : cap.limit \in Nat /\ t - cap.window \in Int /\ t \in Int
            BY ContactsAssumption DEF Time
      <2>2. QED
            BY <1>3, <2>1, ScopeIs, CappedIs DEF Capped
<1>8. QED
      BY <1>4, <1>5, <1>6, <1>7 DEF CapInv

LEMMA StepCaps == Inv /\ CapInv /\ [Next]_vars /\ Inv' => CapInv'
<1> SUFFICES ASSUME Inv, CapInv, [Next]_vars, Inv' PROVE CapInv'
    OBVIOUS
<1>1. TypeOK' /\ HandCounts /\ NothingAhead /\ Covered /\ SendsCapped
      BY DEF Inv, CapInv
<1>2. NothingAhead'
      BY <1>1, NothingAheadStep
<1>3. HandCounts' /\ Covered' /\ SendsCapped'
      BY <1>1, <1>2, HandCountsStep, CoveredStep, CapsStep
<1>4. QED
      BY <1>2, <1>3 DEF CapInv

\* The inductive invariant holds in every reachable state.
THEOREM Invariant == Spec => []Inv
BY InitInv, StepInv, PTL DEF Spec

\* Contacts, links, cases, jobs and the worker keep their types (contacts/
\* checkins.py, worker.py): no row is attempted more often than the limit.
THEOREM TypeCorrect == Spec => []TypeOK
<1>1. Inv => TypeOK
      BY DEF Inv
<1>2. QED
      BY Invariant, <1>1, PTL

\* Whoever ends a check, the worker, the deadline, a lost permission or the
\* removal of the contact, the case gets the reply accepted before that, and
\* is unanswered if there was none (checkins.py:505, companion/contacts.py:122).
THEOREM ReplyDecides == Spec => []ReplyIsOutcome
<1>1. Inv => ReplyIsOutcome
      BY DEF Inv, JobsFollow, Follows, Started, Final, ReplyIsOutcome
<1>2. QED
      BY Invariant, <1>1, PTL
\* However attempts, crashes, retries and warnings mix, no rolling window of a
\* cap ever holds more transports than its limit, per contact or for the whole
\* household (worker.py:203, contacts/config.py).
THEOREM CapsHold == Spec => []SendsCapped
<1>1. Spec => []CapInv
      BY InitCaps, StepCaps, Invariant, PTL DEF Spec
<1>2. CapInv => SendsCapped
      BY DEF CapInv
<1>3. QED
      BY <1>1, <1>2, PTL
=============================================================================
