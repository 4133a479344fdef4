------------------------------- MODULE Rules -------------------------------
(***************************************************************************)
(* The household's constitution (hirz/constitution): how a policy is       *)
(* validated (schema.py), how its conditions are evaluated (conditions.py),*)
(* what the rules decide for a request (evaluator.py), how the same policy *)
(* is compiled into forbid and permit statements (compiler.py), and how    *)
(* the native helper's answer on them is asked for (boundary.py,           *)
(* Pipeline.boundary_check).  How a condition is parsed is in Conditions.  *)
(*                                                                         *)
(* A request passes only if the evaluator AND the compiled statements      *)
(* permit it, and the two read the facts in different ways: the evaluator  *)
(* raises on a fact it cannot resolve, a compiled statement tests for its  *)
(* presence.  A fact is a small number, Null (known to be absent) or       *)
(* Absent (not known).  Cedar's evaluation of a statement and Dogwood's    *)
(* "formerly within" are external and modelled by their documented         *)
(* meaning: && and || stop early, a statement that reads a missing field   *)
(* is an error and any error makes the helper's verdict a denial, forbid   *)
(* wins over permit.                                                       *)
(***************************************************************************)
EXTENDS Integers, Sequences, FiniteSets

CONSTANTS
    Candidates,      \* policies a household may write, valid or not
    Parser(_),       \* parse(): the nodes of a condition, from its tokens
    FactsOf(_),      \* the facts a request of a class may meet
    Roles,           \* roles of the model, out of ROLES
    Voters,          \* the ones that vote
    Claimed,         \* the ones a requester known under another role may claim
    MaxTime,         \* bound on the clock
    MaxChecks        \* bound on boundary checks

VARIABLES
    policy,       \* the active constitution
    request,      \* the action asked for: class, roles it is judged under, facts
    approval,     \* the recorded approval of it
    clock,        \* time, in units of the default approval lifetime
    helper,       \* the persistent native helper: "up" or "down"
    checks,       \* boundary checks made so far
    answer        \* the last boundary check: its verdict and whether it was answered

pvars == <<policy, request, approval, clock, helper, checks, answer>>

Absent == -2
Null == -1
Attributes == {"surface", "member_id", "hour", "zone", "arrivals", "open_minutes", "visitor"}
Facts == [Attributes -> {Absent, Null} \cup Nat]

ROLES == {"owner", "adult", "caregiver", "teen", "child", "guest", "unknown"}
Channel == {"alexa", "app_push"}
Mode == {"auto", "ask", "never"}

CLASSES == {"environment.lights", "security.door_unlock", "security.arm_disarm",
            "governance.credentials", "governance.resume_automation"}
Domain(c) ==
    CASE c = "environment.lights" -> "environment"
      [] c \in {"security.door_unlock", "security.arm_disarm"} -> "security"
      [] OTHER -> "governance"
Governed(c) == Domain(c) = "governance"

\* The risk catalogue's static bands (risk/classes.yaml), as floor_outcome reads them.
floor_outcome(c) == IF Domain(c) = "security" THEN "ask" ELSE "none"

RANK == [auto |-> 0, ask |-> 1, never |-> 2]
Strictest(m, n) == IF RANK[n] > RANK[m] THEN n ELSE m

-----------------------------------------------------------------------------
(* conditions.py: a condition is the sequence of its nodes, each after its  *)
(* children, the whole condition last.                                      *)

Comparisons == {"==", "!=", "<", "<=", ">", ">=", "in"}
Kinds == {"and", "or", "not", "set", "unset", "call"} \cup Comparisons
Node == [kind : Kinds, attr : Attributes \cup {""}, args : Seq(Nat), left : Nat, right : Nat]
Invalid == <<>>

\* What parse() returns for what it accepts.
Condition(c) ==
    /\ c \in Seq(Node) /\ c # Invalid
    /\ \A i \in DOMAIN c :
        /\ c[i].kind \in {"and", "or", "not"} => c[i].left \in 1..(i - 1)
        /\ c[i].kind \in {"and", "or"} => c[i].right \in 1..(i - 1)
        /\ c[i].kind \in {"set", "unset"} \cup Comparisons => c[i].attr \in Attributes
        /\ c[i].kind \in Comparisons \cup {"call"} => c[i].args # <<>>

Bool(b) == IF b THEN "true" ELSE "false"

\* The members of the household the arrivals predicate may be asked about.
Members == {0, 1}

\* predicate(): who is expected, of a known schedule and a known member only.
predicate(member, facts) ==
    IF {member, facts["arrivals"]} \subseteq Members
    THEN Bool(facts["arrivals"] = member) ELSE "error"

\* The facts of an expression that cannot be resolved: every attribute in it is read
\* before any of it is evaluated, and null is an answer to "is (not) set" alone.
unresolved(c, facts) ==
    {i \in DOMAIN c : \/ c[i].kind \in {"set", "unset"} /\ facts[c[i].attr] = Absent
                      \/ c[i].kind = "call" /\ predicate(c[i].args[1], facts) = "error"
                      \/ c[i].kind \in Comparisons /\ facts[c[i].attr] \in {Absent, Null}}

compare(a, kind, args) ==
    CASE kind = "==" -> a = args[1]
      [] kind = "!=" -> a # args[1]
      [] kind = "<"  -> a < args[1]
      [] kind = "<=" -> a <= args[1]
      [] kind = ">"  -> a > args[1]
      [] kind = ">=" -> a >= args[1]
      [] kind = "in" -> \E i \in DOMAIN args : args[i] = a

\* A node, from the values v of the nodes before it.
node_value(n, v, facts) ==
    CASE n.kind = "and" -> Bool(v[n.left] = "true" /\ v[n.right] = "true")
      [] n.kind = "or" -> Bool(v[n.left] = "true" \/ v[n.right] = "true")
      [] n.kind = "not" -> Bool(v[n.left] # "true")
      [] n.kind = "set" -> Bool(facts[n.attr] # Null)
      [] n.kind = "unset" -> Bool(facts[n.attr] = Null)
      [] n.kind = "call" -> predicate(n.args[1], facts)
      [] OTHER -> Bool(compare(facts[n.attr], n.kind, n.args))

run(c, facts) == LET v[i \in DOMAIN c] == node_value(c[i], v, facts) IN v

\* "error" stands for FactError.
evaluate(c, facts) == IF unresolved(c, facts) # {} THEN "error" ELSE run(c, facts)[Len(c)]

-----------------------------------------------------------------------------
(* schema.py: who may do what under a policy.                               *)

\* lineage: a role and the one it inherits from; validate_policy allows no more.
Ancestors(p, role) == {role, p.roles[role].inherits} \ {"none"}
Adult(p, role) == "adult" \in Ancestors(p, role)

domain_allowed(p, role, c) ==
    \A r \in Ancestors(p, role) :
        p.roles[r].limited_to = {} \/ Domain(c) \in p.roles[r].limited_to

\* A rule that says no more than its mode.
Bare(m) == [mode |-> m, conditions |-> <<>>, overrides |-> <<>>, max_open_minutes |-> Null,
            never_for |-> FALSE, allowed |-> Roles, quorum |-> "any_adult", ttl |-> Null,
            ask_channels |-> {}]

OnPhone == Parser(<<"surface", "==", "1">>)

\* The rule of a class: reserved for governance, written, or the default of the role.
rule(p, c, role) ==
    CASE Governed(c) -> [Bare("auto") EXCEPT !.conditions = <<OnPhone>>]
      [] ~Governed(c) /\ c \in DOMAIN p.autonomy -> p.autonomy[c]
      [] OTHER -> Bare(IF Adult(p, role) THEN "ask" ELSE "never")

\* The tightening an ancestor's entry makes: the one for the class, or the one for all.
Tightening(p, r, c) ==
    CASE c \in DOMAIN p.per_role[r] -> p.per_role[r][c]
      [] "*" \in DOMAIN p.per_role[r] /\ c \notin DOMAIN p.per_role[r] -> p.per_role[r]["*"]
      [] OTHER -> "auto"
Tightened(p, c, m, rs) ==
    LET all == {m} \cup {Tightening(p, r, c) : r \in rs}
    IN  CHOOSE n \in all : \A o \in all : RANK[n] >= RANK[o]

role_mode(p, c, role) ==
    LET r == rule(p, c, role)
    IN  CASE c = "governance.resume_automation" -> IF Adult(p, role) THEN "auto" ELSE "never"
          [] Governed(c) /\ c # "governance.resume_automation" ->
                IF role = "unknown" THEN "never" ELSE "auto"
          [] ~Governed(c) /\ (~domain_allowed(p, role, c) \/ role \notin r.allowed) -> "never"
          [] OTHER -> Tightened(p, c, r.mode, Ancestors(p, role))

approvers(p, c, quorum) ==
    {r \in Roles : /\ domain_allowed(p, r, c)
                   /\ IF quorum = "owner" THEN r = "owner" ELSE Adult(p, r)}

Channels(p, r) == IF r.ask_channels = {} THEN p.defaults.ask_channels ELSE r.ask_channels
Ttl(p, r) == IF r.ttl = Null THEN p.defaults.ttl ELSE r.ttl

\* What a rule may say: conditions that parse, overrides that only tighten.
restrictions(r) ==
    /\ \A i \in DOMAIN r.conditions : Parser(r.conditions[i]) # Invalid
    /\ \A i \in DOMAIN r.overrides : /\ Parser(r.overrides[i].when) # Invalid
                                     /\ RANK[r.overrides[i].mode] >= RANK[r.mode]

\* A per-role entry may not loosen what the class, an ancestor or a domain limit says.
TightensOnly(p) ==
    \A role \in Roles : \A c \in CLASSES :
        (c \in DOMAIN p.per_role[role] \/ "*" \in DOMAIN p.per_role[role]) =>
            LET base == Tightened(p, c, rule(p, c, role).mode, Ancestors(p, role) \ {role})
            IN  RANK[Tightening(p, role, c)] >=
                    IF domain_allowed(p, role, c) THEN RANK[base] ELSE RANK["never"]

\* The roles' fixed relations.
FixedRelations(p) ==
    /\ \A r \in Roles : p.roles[r].inherits =
            IF r \in {"owner", "caregiver"} THEN "adult" ELSE "none"
    /\ "caregiver" \in Roles => /\ p.roles["caregiver"].limited_to # {}
                                /\ p.roles["caregiver"].limited_to \subseteq
                                        {"environment", "health", "communication"}

\* The ceilings of risky classes, no voice for security, entries that only tighten.
validate_policy(p) ==
    /\ FixedRelations(p)
    /\ \A c \in DOMAIN p.autonomy :
        /\ c \in CLASSES /\ ~Governed(c) /\ restrictions(p.autonomy[c])
        /\ floor_outcome(c) # "none" => p.autonomy[c].mode # "auto"
    /\ \A c \in CLASSES :
        Domain(c) = "security" => "alexa" \notin Channels(p, rule(p, c, "owner"))
    /\ TightensOnly(p)

\* load: a policy with its conditions parsed.  (The code parses them at every use.)
load(p) ==
    [p EXCEPT !.autonomy = [c \in DOMAIN p.autonomy |->
        [p.autonomy[c] EXCEPT
            !.conditions = [i \in DOMAIN p.autonomy[c].conditions |->
                                Parser(p.autonomy[c].conditions[i])],
            !.overrides = [i \in DOMAIN p.autonomy[c].overrides |->
                                [when |-> Parser(p.autonomy[c].overrides[i].when),
                                 mode |-> p.autonomy[c].overrides[i].mode]]]]]

\* A rule as it is written, its conditions in tokens, and the schema of a policy.
Rule == [mode : Mode, conditions : Seq(Seq(STRING)),
         overrides : Seq([when : Seq(STRING), mode : Mode]),
         max_open_minutes : Nat \cup {Null}, never_for : BOOLEAN, allowed : SUBSET Roles,
         quorum : {"any_adult", "owner"}, ttl : Nat \cup {Null}, ask_channels : SUBSET Channel]

Constitution(p) ==
    /\ p = [roles |-> p.roles, autonomy |-> p.autonomy, per_role |-> p.per_role,
            defaults |-> p.defaults]
    /\ p.roles \in [Roles -> [inherits : ROLES \cup {"none"}, limited_to : SUBSET STRING]]
    /\ p.autonomy \in [DOMAIN p.autonomy -> Rule]
    /\ \A r \in Roles : p.per_role[r] \in [DOMAIN p.per_role[r] -> Mode]
    /\ p.defaults \in [ttl : Nat, ask_channels : SUBSET Channel]

Parses(ts) == Parser(ts) = Invalid \/ Condition(Parser(ts))

ASSUME RulesAssumption ==
    /\ {"owner", "adult"} \subseteq Roles /\ Roles \subseteq ROLES
    /\ Voters \cup Claimed \subseteq Roles /\ MaxTime \in Nat /\ MaxChecks \in Nat
    /\ \A c \in CLASSES : FactsOf(c) \subseteq Facts
    /\ Condition(OnPhone)
    /\ \A p \in Candidates :
        /\ Constitution(p)
        /\ \A c \in DOMAIN p.autonomy :
            /\ \A i \in DOMAIN p.autonomy[c].conditions : Parses(p.autonomy[c].conditions[i])
            /\ \A i \in DOMAIN p.autonomy[c].overrides : Parses(p.autonomy[c].overrides[i].when)

-----------------------------------------------------------------------------
(* evaluator.py: what the rules decide.                                     *)

\* Where a sequence first says something else, beyond its end if it never does.
FirstOther(s, value) ==
    CHOOSE i \in 1..(Len(s) + 1) :
        /\ i <= Len(s) => s[i] # value
        /\ \A j \in 1..(i - 1) : s[j] = value

\* The hard limits of a rule: attribute and largest value.
guards(r) == IF r.max_open_minutes = Null THEN {} ELSE {<<"open_minutes", r.max_open_minutes>>}

\* governance.credentials: one's own passkeys, or any as owner.
OwnCredentials(role, facts) ==
    facts["member_id"] \notin {Absent, Null} /\ (role = "owner" \/ facts["member_id"] = 1)

\* Bounds and visitors are terminal: an unknown value is as bad as a wrong one.
Terminal(r, facts) ==
    \/ \E g \in guards(r) : facts[g[1]] \in {Absent, Null} \/ facts[g[1]] > g[2]
    \/ r.never_for /\ facts["visitor"] # 0

\* The first override that holds decides; one that cannot be resolved ends the search.
overridden(r, facts, m) ==
    LET vs == [i \in DOMAIN r.overrides |-> evaluate(r.overrides[i].when, facts)]
        i == FirstOther(vs, "false")
    IN  [mode |-> IF i \in DOMAIN vs /\ vs[i] = "true"
                  THEN Strictest(m, r.overrides[i].mode) ELSE m,
         error |-> i \in DOMAIN vs /\ vs[i] = "error"]

resolve(p, c, role, facts) ==
    LET r == rule(p, c, role)
        vs == {evaluate(r.conditions[i], facts) : i \in DOMAIN r.conditions}
        base == IF \/ c = "governance.credentials" /\ ~OwnCredentials(role, facts)
                   \/ Terminal(r, facts)
                THEN "never" ELSE role_mode(p, c, role)
        o == overridden(r, facts, base)
        errors == base # "never" /\ ("error" \in vs \/ o.error)
        approval_ == [ttl |-> Ttl(p, r), channels |-> Channels(p, r),
                      roles |-> approvers(p, c, r.quorum)]
    IN  [mode |-> CASE base = "never" -> "never"
                    [] base # "never" /\ o.mode = "auto" /\ (vs \ {"true"} # {} \/ errors) ->
                            IF Governed(c) THEN "never" ELSE "ask"
                    [] OTHER -> o.mode,
         errors |-> errors, approval |-> approval_]

-----------------------------------------------------------------------------
(* compiler.py: the same policy as Cedar statements over boundary inputs.   *)
(* An expression is "true", "false" or "error" (it reads a missing field).  *)

\* Cedar's && and ||: the first operand that settles them, or that is an error.
Settled(s, value) == LET i == FirstOther(s, value) IN IF i > Len(s) THEN value ELSE s[i]
conjunction(s) == Settled(s, "true")
disjunction(s) == Settled(s, "false")
Not(v) == CASE v = "true" -> "false" [] v = "false" -> "true" [] OTHER -> "error"

\* A value for each fact that has one, the paths known to be null, and the answers of
\* the predicates: a fact that is missing or invalid leaves no trace.
boundary_input(facts) ==
    [f |-> [a \in {x \in Attributes : facts[x] \notin {Absent, Null}} |-> facts[a]],
     nulls |-> {a \in Attributes : facts[a] = Null},
     calls |-> [m \in {x \in Members : predicate(x, facts) # "error"} |-> predicate(m, facts)]]

has(input, a) == a \in DOMAIN input.f

\* (mutant) "is set" needs no answer.
answered_unset(n, input) ==
    CASE n.kind \in {"and", "or", "not", "set", "unset"} -> TRUE
      [] n.kind = "call" -> n.args[1] \in DOMAIN input.calls
      [] OTHER -> has(input, n.attr)

\* What the inputs must hold for one node.
answered(n, input) ==
    CASE n.kind \in {"and", "or", "not"} -> TRUE
      [] n.kind \in {"set", "unset"} -> has(input, n.attr) \/ n.attr \in input.nulls
      [] n.kind = "call" -> n.args[1] \in DOMAIN input.calls
      [] OTHER -> has(input, n.attr)

\* Whether the inputs answer a condition, whole.
known(c, input) == \A i \in DOMAIN c : answered(c[i], input)

\* A node as Cedar evaluates it, from the values v of the nodes before it.
node_expression(n, v, input) ==
    CASE n.kind = "and" -> conjunction(<<v[n.left], v[n.right]>>)
      [] n.kind = "or" -> disjunction(<<v[n.left], v[n.right]>>)
      [] n.kind = "not" -> Not(v[n.left])
      [] n.kind = "set" -> Bool(n.attr \notin input.nulls)
      [] n.kind = "unset" -> Bool(n.attr \in input.nulls)
      [] n.kind = "call" ->
            IF n.args[1] \in DOMAIN input.calls THEN input.calls[n.args[1]] ELSE "error"
      [] OTHER -> IF has(input, n.attr) THEN Bool(compare(input.f[n.attr], n.kind, n.args))
                  ELSE "error"

expressions(c, input) == LET v[i \in DOMAIN c] == node_expression(c[i], v, input) IN v
expression(c, input) == expressions(c, input)[Len(c)]

\* The overrides as nested conditionals: the branch that is taken must be known, and must
\* leave the mode asked for.
override_path(r, autonomous, input) ==
    LET vs == [i \in DOMAIN r.overrides |->
                    IF known(r.overrides[i].when, input)
                    THEN expression(r.overrides[i].when, input) ELSE "unknown"]
        i == FirstOther(vs, "false")
    IN  CASE i \notin DOMAIN vs -> "true"
          [] i \in DOMAIN vs /\ vs[i] = "unknown" -> "false"
          [] i \in DOMAIN vs /\ vs[i] = "true" ->
                Bool(r.overrides[i].mode \in IF autonomous THEN {"auto"} ELSE {"auto", "ask"})
          [] OTHER -> "error"

\* The facts every statement on a class demands, and the hard limits on them.
requirements(r, input) ==
    conjunction(
        [i \in DOMAIN r.conditions |-> Bool(known(r.conditions[i], input))]
        \o <<Bool(\A g \in guards(r) : has(input, g[1]) /\ input.f[g[1]] <= g[2]),
             Bool(r.never_for => has(input, "visitor") /\ input.f["visitor"] = 0)>>)

Met(r, input) ==
    conjunction([i \in DOMAIN r.conditions |-> expression(r.conditions[i], input)])

\* The roles a statement on a class lists.
AllowedRoles(p, c) == {r \in Roles : role_mode(p, c, r) # "never"}
AutoRoles(p, c) == {r \in Roles : role_mode(p, c, r) = "auto"}

\* What must hold for any use of a class; the forbid statement is its negation.
safe(p, c, role, input) ==
    LET common == rule(p, c, "owner")
    IN  conjunction(<<
            Bool(role \in AllowedRoles(p, c)),
            requirements(common, input),
            Bool(c = "governance.credentials" =>
                    has(input, "member_id") /\ (role = "owner" \/ input.f["member_id"] = 1)),
            IF Governed(c) THEN Met(common, input) ELSE "true",
            override_path(common, FALSE, input)>>)

\* The permit of an action nobody need approve.
autonomous(p, c, role, input) ==
    LET common == rule(p, c, "owner")
    IN  IF AutoRoles(p, c) = {} THEN "false"
        ELSE conjunction(<<safe(p, c, role, input), Bool(role \in AutoRoles(p, c)),
                           Met(common, input), override_path(common, TRUE, input)>>)

\* The permit of an approval, by whom and over what channel it was given.
approve(p, c, role, input, a) ==
    LET common == rule(p, c, "owner")
    IN  IF AllowedRoles(p, c) = {} \/ Governed(c) THEN "false"
        ELSE conjunction(<<safe(p, c, role, input),
                           Bool(a.role \in approvers(p, c, common.quorum)),
                           Bool(a.channel \in Channels(p, common))>>)

\* (mutant) an approval of exactly the allowed age is too old.
temporalStrict(p, c, role, input, a) ==
    LET common == rule(p, c, "owner")
    IN  IF \/ AllowedRoles(p, c) = {} \/ Governed(c)
           \/ /\ AllowedRoles(p, c) = AutoRoles(p, c)
              /\ common.conditions = <<>> /\ common.overrides = <<>>
        THEN "false"
        ELSE Bool(/\ a # <<>> /\ a[1].answered
                  /\ clock - a[1].at < Ttl(p, common))

\* The permit of an action with a permitted approval in its history, not older than the
\* rule allows; classes that never need one have no such statement.
temporal(p, c, role, input, a) ==
    LET common == rule(p, c, "owner")
    IN  IF \/ AllowedRoles(p, c) = {} \/ Governed(c)
           \/ /\ AllowedRoles(p, c) = AutoRoles(p, c)
              /\ common.conditions = <<>> /\ common.overrides = <<>>
        THEN "false"
        ELSE Bool(/\ a # <<>> /\ a[1].answered
                  /\ clock - a[1].at <= Ttl(p, common))

-----------------------------------------------------------------------------
(* boundary.py and Pipeline.boundary_check: asking the native helper.       *)

\* Cedar: a permit, no forbid.  A statement in error is an error of the whole answer.
Verdict(forbid, permits) ==
    IF "error" \in {forbid} \cup permits THEN "error"
    ELSE IF forbid = "false" /\ "true" \in permits THEN "allow" ELSE "deny"

\* Event: the approval is replayed first, and leaves a response if it was permitted.
Replayed(p, c, role, input, a) ==
    IF a = <<>> THEN <<>>
    ELSE LET v == Verdict("false", {approve(p, c, role, input, a[1])})
         IN  <<[at |-> a[1].at, answered |-> v = "allow", failed |-> v = "error"]>>

\* The verdict on an action after its approval; an error anywhere denies.
authorize(p, c, role, facts, a) ==
    LET input == boundary_input(facts)
        events == Replayed(p, c, role, input, a)
    IN  /\ events # <<>> => ~events[1].failed
        /\ Verdict(Not(safe(p, c, role, input)),
                   {autonomous(p, c, role, input), temporal(p, c, role, input, events)}) = "allow"

\* Every role the request is judged under must be allowed, the claimed one too.
boundary_check == \A role \in request.roles :
    authorize(policy, request.class, role, request.facts, approval)

NoRequest == [class |-> "none", roles |-> {}, facts |-> <<>>]
Unchecked == [verdict |-> "none", answered |-> FALSE]

PInit ==
    /\ policy \in {load(p) : p \in {q \in Candidates : validate_policy(q)}}
    /\ request = NoRequest /\ approval = <<>> /\ clock = 0
    /\ helper = "up" /\ checks = 0 /\ answer = Unchecked

\* An action is proposed by someone known under one role and claiming perhaps another.
ProposeAction(c, resolved, claimed, facts) ==
    /\ request = NoRequest
    /\ request' = [class |-> c, roles |-> {resolved, claimed}, facts |-> facts]
    /\ UNCHANGED <<policy, approval, clock, helper, checks, answer>>

\* A voter approves it.  Its rules may ask, or a pause, the risk, quiet hours or
\* a budget at its limit; what a rule prohibits is never asked about.
Approve(role, channel) ==
    /\ request # NoRequest /\ approval = <<>>
    /\ \A r \in request.roles :
            resolve(policy, request.class, r, request.facts).mode # "never"
    /\ checks < MaxChecks
    /\ approval' = <<[at |-> clock, role |-> role, channel |-> channel]>>
    /\ UNCHANGED <<policy, request, clock, helper, checks, answer>>

Elapse ==
    /\ approval # <<>> /\ checks < MaxChecks /\ clock < MaxTime /\ clock' = clock + 1
    /\ UNCHANGED <<policy, request, approval, helper, checks, answer>>

\* Dogwood.replay: the helper answers, fails within the exchange (and is stopped), or is
\* gone; only an answer can allow.
CheckBoundary ==
    /\ request # NoRequest /\ checks < MaxChecks /\ checks' = checks + 1
    /\ helper = "up"
    /\ answer' = [verdict |-> IF boundary_check THEN "allow" ELSE "deny", answered |-> TRUE]
    /\ UNCHANGED <<policy, request, approval, clock, helper>>

CheckFails ==
    /\ request # NoRequest /\ checks < MaxChecks /\ checks' = checks + 1
    /\ helper' = "down"
    /\ answer' = [verdict |-> "deny", answered |-> FALSE]
    /\ UNCHANGED <<policy, request, approval, clock>>

PNext ==
    \/ \E c \in CLASSES, resolved \in Roles :
            \E claimed \in Claimed \cup {resolved}, facts \in FactsOf(c) :
                ProposeAction(c, resolved, claimed, facts)
    \/ \E role \in Voters, channel \in Channel : Approve(role, channel)
    \/ Elapse \/ CheckBoundary \/ CheckFails

PSpec == PInit /\ [][PNext]_pvars

-----------------------------------------------------------------------------
(* Properties                                                               *)

\* What the evaluator's outcomes sanction on the given facts: no unresolved fact, and
\* autonomy or an approval by the right role, channel and time, under every role.
Sanctioned(facts) == \A role \in request.roles :
    LET o == resolve(policy, request.class, role, facts)
    IN  /\ ~o.errors
        /\ \/ o.mode = "auto"
           \/ /\ o.mode = "ask" /\ approval # <<>>
              /\ approval[1].role \in o.approval.roles
              /\ approval[1].channel \in o.approval.channels
              /\ clock - approval[1].at <= o.approval.ttl

\* "Both evaluators must permit" (Pipeline.boundary_check): the compiled statements allow
\* exactly what the evaluator sanctions, whichever facts are missing or null, so that
\* neither refuses what the other keeps asking about, nor lets through what the other
\* would not; and a helper that failed allows nothing.
BoundaryAgrees ==
    [][checks' # checks =>
        (answer'.verdict = "allow" <=> answer'.answered /\ Sanctioned(request.facts))]_pvars

\* An allowed action is allowed whatever the facts that were not known turn out to be:
\* no reading of a missing fact as a value, as null or as false lets an action pass.
UnknownNeverPermits ==
    [][checks' # checks /\ answer'.verdict = "allow" =>
        \A f \in FactsOf(request.class) :
            (\A a \in Attributes : request.facts[a] # Absent => f[a] = request.facts[a])
                => Sanctioned(f)]_pvars

\* Whatever policy a household writes, if it validates, no security action passes
\* without an approval on the phone by an adult no domain limit keeps out: neither
\* autonomy, nor the voice channel, nor the defaults of an unlisted class.
SecurityNeedsPhone ==
    [][checks' # checks /\ answer'.verdict = "allow" /\ Domain(request.class) = "security" =>
        /\ approval # <<>> /\ approval[1].channel = "app_push"
        /\ approval[1].role \in {"owner", "adult"}]_pvars

\* Nothing passes by ignorance, and nothing of security without an adult's phone.
PermitIsEarned == UnknownNeverPermits /\ SecurityNeedsPhone
=============================================================================
