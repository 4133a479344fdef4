----------------------------- MODULE Conditions -----------------------------
(***************************************************************************)
(* The grammar of a condition (hirz/constitution/conditions.py): a          *)
(* recursive-descent parser over tokens.  A parse is the nodes found, each *)
(* after its children, and the tokens left; Invalid stands for ValueError. *)
(* Rules takes parse as its constant Parser.                               *)
(***************************************************************************)
EXTENDS Rules, FiniteSetsExt

Literals == [t \in {"0", "1", "2"} |-> CASE t = "0" -> 0 [] t = "1" -> 1 [] t = "2" -> 2]
Literal(t) == t \in DOMAIN Literals

Leaf(kind, attr, args) == <<[kind |-> kind, attr |-> attr, args |-> args, left |-> 0, right |-> 0]>>

\* The nodes of a condition put behind k others.
Behind(k, c) == [i \in DOMAIN c |-> [c[i] EXCEPT !.left = @ + k, !.right = @ + k]]

Negation(c) ==
    IF c = Invalid THEN Invalid
    ELSE Append(c, [kind |-> "not", attr |-> "", args |-> <<>>, left |-> Len(c), right |-> 0])

Joined(op, c, d) ==
    IF Invalid \in {c, d} THEN Invalid
    ELSE c \o Behind(Len(c), d)
           \o <<[kind |-> op, attr |-> "", args |-> <<>>,
                 left |-> Len(c), right |-> Len(c) + Len(d)]>>

Failed == [node |-> Invalid, rest |-> <<>>]
At(ts, i, token) == Len(ts) >= i /\ ts[i] = token
After(ts, n) == SubSeq(ts, n + 1, Len(ts))

\* `attribute in [v, ...]`: the position of the closing bracket and the listed values.
Listed(ts) ==
    LET close == {i \in 4..Len(ts) : ts[i] = "]"}
    IN  IF close = {} THEN Failed
        ELSE LET e == Min(close)
                 at == {i \in 4..(e - 1) : i % 2 = 0}
                 commas == {i \in 4..(e - 1) : i % 2 = 1}
             IN  IF /\ ts[3] = "[" /\ e % 2 = 1 /\ at # {}
                    /\ \A i \in at : Literal(ts[i])
                    /\ \A i \in commas : ts[i] = ","
                 THEN [node |-> Leaf("in", ts[1],
                                     [k \in 1..Cardinality(at) |-> Literals[ts[2 * k + 2]]]),
                       rest |-> After(ts, e)]
                 ELSE Failed

\* An attribute and what it is compared with; "is not set" means known to be null.
comparison(ts) ==
    CASE ts[1] \notin Attributes -> Failed
      [] At(ts, 2, "is") /\ At(ts, 3, "set") ->
            [node |-> Leaf("set", ts[1], <<>>), rest |-> After(ts, 3)]
      [] At(ts, 2, "is") /\ At(ts, 3, "not") /\ At(ts, 4, "set") ->
            [node |-> Leaf("unset", ts[1], <<>>), rest |-> After(ts, 4)]
      [] At(ts, 2, "in") -> Listed(ts)
      [] Len(ts) >= 3 /\ ts[2] \in Comparisons \ {"in"} /\ Literal(ts[3]) ->
            [node |-> Leaf(ts[2], ts[1], <<Literals[ts[3]]>>), rest |-> After(ts, 3)]
      [] OTHER -> Failed

RECURSIVE boolean(_, _), grow(_, _), term(_)

child(op, ts) == IF op = "or" THEN boolean("and", ts) ELSE term(ts)

\* "or" binds weaker than "and"; both associate to the left.
grow(op, p) ==
    IF ~At(p.rest, 1, op) THEN p
    ELSE LET q == child(op, Tail(p.rest))
         IN  grow(op, [node |-> Joined(op, p.node, q.node), rest |-> q.rest])

boolean(op, ts) == grow(op, child(op, ts))

\* "not" binds to the one term that follows it.
term(ts) ==
    CASE ts = <<>> -> Failed
      [] At(ts, 1, "not") ->
            LET p == term(Tail(ts)) IN [p EXCEPT !.node = Negation(p.node)]
      [] At(ts, 1, "(") ->
            LET p == boolean("or", Tail(ts))
            IN  IF At(p.rest, 1, ")") THEN [p EXCEPT !.rest = Tail(p.rest)] ELSE Failed
      [] At(ts, 1, "expected") ->
            IF At(ts, 2, "(") /\ Len(ts) >= 4 /\ Literal(ts[3]) /\ At(ts, 4, ")")
            THEN [node |-> Leaf("call", "arrivals", <<Literals[ts[3]]>>), rest |-> After(ts, 4)]
            ELSE Failed
      [] OTHER -> comparison(ts)

\* The nodes of a whole condition; tokens left over make it invalid.
parse(ts) == LET p == boolean("or", ts) IN IF p.rest = <<>> THEN p.node ELSE Invalid
=============================================================================
