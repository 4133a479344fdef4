------------------------------ MODULE Approvals ------------------------------
(***************************************************************************)
(* The decision pipeline of hirz/pipeline/service.py: proposals, the human *)
(* approvals they wait for, the votes on those approvals, the single grant *)
(* of an action and the claim that turns a grant into one dispatch.        *)
(*                                                                         *)
(* Every operation of Pipeline runs in GraphRepository.write: one database *)
(* transaction under the household's advisory lock, rolled back on any     *)
(* error.  One operation is therefore one step here; what interleaves is   *)
(* the order in which members, callers, the clock, the policy and the      *)
(* facts of the house move between operations.                             *)
(*                                                                         *)
(* Abstractions: one budgeted action class; a caller presents its own      *)
(* role (no claimed_role); an id stands for one stored proposal, so a call *)
(* that reuses the id with another payload is a Refuse.                    *)
(***************************************************************************)
EXTENDS Integers, FiniteSetsExt

CONSTANTS
    Actions,        \* proposals, by action_id
    Members,        \* household members, each with one linked account
    Roles,          \* roles a member can hold, "unknown" among them
    Roaming,        \* members whose role, account or passkey may change
    Proofs,         \* ways a vote arrives: "passkey" (app, signed over the
                    \* action's hash), "app" (unsigned) and "alexa"
    Ids,            \* approval ids (uuid4): bounds how many are ever created
    Requester,      \* [Actions -> Members], the account that proposed
    Cost,           \* [Actions -> Nat], estimated cost in budget units
    Security,       \* actions of a security.* class
    Confirmed,      \* actions whose class requires requester confirmation
    Bounded,        \* actions with a revert (they carry an ending)
    Visitor,        \* door_unlock: approvals are bound to a doorbell press
    Factors,        \* risk factors worth one band each
    CriticalFactors,\* risk factors that force CRITICAL
    Base,           \* [Actions -> 0..3], risk band of the class
    Facts,          \* the fact records the house moves through
    MaxPolicy,      \* bound: last constitution version
    Rule,           \* [1..MaxPolicy -> [Actions -> rule]]
    MaxPress,       \* bound: doorbell presses
    MaxTime,        \* bound: last instant of the clock
    DayLength,      \* instants in one local_date
    Window          \* instants a grant stays claimable (10 seconds)

None == -1          \* SQL NULL: no approval, no attempt
NoPress == 0        \* the bell has not rung; a binding without a visitor
Policies == 1..MaxPolicy
Bands == 0..3       \* LOW, MEDIUM, HIGH, CRITICAL
HIGH == 2
CRITICAL == 3
GateNames == {"constitution", "pause", "risk", "quiet", "budget"}
Live == {"pending", "approved"}
Statuses == {"free", "pending", "approved", "rejected", "expired", "redeemed"}

RuleSpace == [mode : {"auto", "ask", "never"}, quorum : {"any", "all_adults"},
              requesters : SUBSET Roles, approvers : SUBSET Roles,
              channels : SUBSET {"app", "alexa"}, cap : Nat, ttl : Nat \ {0}]

ASSUME ConstantsAssumption ==
    /\ IsFiniteSet(Factors) /\ CriticalFactors \subseteq Factors
    /\ IsFiniteSet(Actions) /\ Actions # {}
    /\ None \notin Ids /\ None \notin Actions /\ "unknown" \in Roles
    /\ Roaming \subseteq Members /\ Proofs \subseteq {"passkey", "app", "alexa"}
    /\ Requester \in [Actions -> Members]
    /\ Cost \in [Actions -> Nat]
    /\ Base \in [Actions -> Bands]
    /\ Security \subseteq Actions /\ Confirmed \subseteq Actions
    /\ Bounded \subseteq Actions /\ Visitor \subseteq Actions
    /\ MaxPolicy \in Nat \ {0} /\ MaxPress \in Nat /\ MaxTime \in Nat
    /\ DayLength \in Nat \ {0} /\ Window \in Nat
    /\ Rule \in [Policies -> [Actions -> RuleSpace]]
    /\ Facts \subseteq [paused : BOOLEAN, quiet : BOOLEAN, met : BOOLEAN,
                        factors : SUBSET Factors]

VARIABLES
    now,        \* the clock every operation reads once
    policy,     \* active constitution version (households.constitution_version)
    role,       \* members.role
    linked,     \* members whose account still resolves (member_accounts)
    revoked,    \* members whose passkey has revoked_at set
    facts,      \* paused, quiet hours, rule conditions, risk factors
    press,      \* number of the latest doorbell press
    ringing,    \* that press is at most 60 s old
    proposed,   \* actions rows
    grant,      \* actions.grant_seq, with the decision it points to
    queued,     \* actions.lifecycle: None, or the queued approval_id
    attempt,    \* actions.execution_attempt_seq, as the instant of the claim
    approvals,  \* approvals rows
    votes       \* approval_votes rows

house == <<role, linked, revoked, facts, press, ringing, policy>>
rows == <<proposed, grant, queued, attempt>>
vars == <<now, house, rows, approvals, votes>>

PlainGates == [names : SUBSET GateNames, band : Bands,
               factors : SUBSET Factors, unmet : BOOLEAN]
NoGates == [names |-> {}, band |-> 0, factors |-> {}, unmet |-> FALSE]
Gates == [opening : PlainGates, ending : PlainGates]

Binding == [policy : Policies, requester : Roles, gates : Gates,
            press : 0..MaxPress]
Approval == [status : Statuses, action : Actions \cup {None}, binding : Binding,
             expires : Nat]
FreeRow == [status |-> "free", action |-> None, expires |-> 0,
            binding |-> [policy |-> 1, requester |-> "unknown", press |-> NoPress,
                         gates |-> [opening |-> NoGates, ending |-> NoGates]]]
Ballot == [cast : {"approve", "reject"}, proof : Proofs]
NoVote == [cast |-> "no vote", proof |-> "none"]
Vote == Ballot \cup {NoVote}
Grant == [granted : BOOLEAN, at : Nat, done : Nat, via : Ids \cup {None},
          policy : Policies, requester : Roles, gates : Gates, reserved : Nat]
NoGrant == [granted |-> FALSE, at |-> 0, done |-> 0, via |-> None,
            policy |-> 1, requester |-> "unknown",
            gates |-> [opening |-> NoGates, ending |-> NoGates], reserved |-> 0]

\* Type invariant of the pipeline's tables and of the facts it reads.
TypeOK ==
    /\ now \in Nat
    /\ policy \in Policies
    /\ role \in [Members -> Roles]
    /\ linked \in SUBSET Members /\ revoked \in SUBSET Members
    /\ facts \in Facts
    /\ press \in 0..MaxPress /\ ringing \in BOOLEAN
    /\ proposed \in SUBSET Actions
    /\ grant \in [Actions -> Grant]
    /\ queued \in [Actions -> [yes : BOOLEAN, via : Ids \cup {None}]]
    /\ attempt \in [Actions -> Nat \cup {None}]
    /\ approvals \in [Ids -> Approval]
    /\ votes \in [Ids -> [Members -> Vote]]

-----------------------------------------------------------------------------
(* Assessment: what the rules ask for, from the facts of this instant.     *)

RuleOf(a) == Rule[policy][a]

\* +1 band per factor, saturating; a critical factor jumps to CRITICAL.
Score(a) ==
    IF facts.factors \cap CriticalFactors # {} THEN CRITICAL
    ELSE LET raised == Base[a] + Cardinality(facts.factors)
         IN  IF raised > CRITICAL THEN CRITICAL ELSE raised

\* An unmet condition turns auto into ask; never and ask are kept.
EffectiveMode(a) ==
    IF RuleOf(a).mode = "auto" /\ ~facts.met THEN "ask" ELSE RuleOf(a).mode

DayOf(t) == t \div DayLength

\* Spend reserved by the grants of the current local_date.
Usage == MapThenSumSet(LAMBDA a : grant[a].reserved,
                       {a \in Actions : grant[a].granted /\ DayOf(grant[a].at) = DayOf(now)})

\* (mutant) the proposed cost is forgotten.
OverBudgetAlready(a, cost) == Usage > RuleOf(a).cap
OverBudget(a, cost) == Usage + cost > RuleOf(a).cap

\* The soft gates raised by one assessment; the facts behind them bind too.
GatesOf(a, cost) ==
    LET names == {g \in GateNames :
                    \/ g = "constitution" /\ EffectiveMode(a) = "ask"
                    \/ g = "pause" /\ facts.paused
                    \/ g = "risk" /\ Score(a) = HIGH
                    \/ g = "quiet" /\ facts.quiet
                    \/ g = "budget" /\ Usage + cost = RuleOf(a).cap}
    IN IF names = {} THEN NoGates
       ELSE [names |-> names, band |-> Score(a), factors |-> facts.factors,
             unmet |-> ~facts.met]

\* assess_operation: the ending of a bounded action is assessed with it, free.
OperationGates(a) ==
    [opening |-> GatesOf(a, Cost[a]),
     ending  |-> IF a \in Bounded THEN GatesOf(a, 0) ELSE NoGates]

\* An account that is no longer linked resolves to the unknown role.
ResolvedRequester(a) ==
    IF Requester[a] \in linked THEN role[Requester[a]] ELSE "unknown"

\* A terminal answer: never, CRITICAL risk, or the budget would be passed.
Denied(a) ==
    \/ ResolvedRequester(a) \notin RuleOf(a).requesters
    \/ EffectiveMode(a) = "never"
    \/ Score(a) = CRITICAL
    \/ OverBudget(a, Cost[a])

NeedsApproval(a) ==
    LET gates == OperationGates(a) IN gates.opening.names # {} \/ gates.ending.names # {}

BindingOf(a) ==
    [policy |-> policy, requester |-> ResolvedRequester(a),
     gates |-> OperationGates(a), press |-> NoPress]

\* ask() also binds the visitor: the press that is ringing now.
AskBinding(a) ==
    [BindingOf(a) EXCEPT !.press = IF a \in Visitor /\ ringing THEN press ELSE NoPress]

\* Asking again for a visitor's approval keeps the press it was bound to.
AskAgainBinding(a, i) ==
    LET bound == approvals[i].binding.press
    IN IF bound = NoPress THEN AskBinding(a) ELSE [BindingOf(a) EXCEPT !.press = bound]

\* (mutant) only the names of the gates are compared, not the risk behind.
CompatibleByName(old, new) ==
    /\ old.policy = new.policy /\ old.requester = new.requester
    /\ new.press # NoPress => old.press = new.press
    /\ new.gates.opening.names \subseteq old.gates.opening.names

\* A consent covers the present when nothing became worse than what was shown.
Compatible(old, new) ==
    /\ old.policy = new.policy
    /\ old.requester = new.requester
    /\ new.press # NoPress => old.press = new.press
    /\ new.gates.opening.names \subseteq old.gates.opening.names
    /\ new.gates.opening.names # {} =>
          /\ new.gates.opening.band <= old.gates.opening.band
          /\ new.gates.opening.factors \subseteq old.gates.opening.factors
          /\ new.gates.opening.unmet => old.gates.opening.unmet
    /\ new.gates.ending = old.gates.ending

-----------------------------------------------------------------------------
(* Votes.                                                                  *)

\* channel_allowed: security actions only by passkey over this action's hash.
ChannelAllowed(rule, a, v) ==
    /\ v.proof = "alexa" => "alexa" \in rule.channels
    /\ v.proof # "alexa" => "app" \in rule.channels
    /\ a \in Security => v.proof = "passkey"

\* Alexa votes carry no credential; app votes need an unrevoked passkey.
CredentialCurrent(m, v) == v.proof # "alexa" => m \in linked /\ m \notin revoked

Eligible(rule) == {m \in Members : role[m] \in rule.approvers}

\* (mutant) votes count as they were cast, whatever happened to the voter.
CountedAsCast(rule, a, vs) == {m \in Members : vs[m].cast # "no vote"}

\* The stored votes that still count now, re-resolving member and credential.
Counted(rule, a, vs) ==
    {m \in Eligible(rule) : /\ vs[m].cast # "no vote"
                            /\ m \in linked
                            /\ ChannelAllowed(rule, a, vs[m])
                            /\ CredentialCurrent(m, vs[m])}

Satisfied(rule, a, vs) ==
    /\ \A m \in Counted(rule, a, vs) : vs[m].cast = "approve"
    /\ Eligible(rule) # {}
    /\ IF rule.quorum = "all_adults" THEN Eligible(rule) \subseteq Counted(rule, a, vs)
       ELSE Counted(rule, a, vs) # {}

\* A signed approving vote of the requester stands for their confirmation.
ConfirmedRequester(a) ==
    \E i \in Ids : LET v == votes[i][Requester[a]] IN
        /\ a \in Security
        /\ approvals[i].action = a /\ approvals[i].status \in Live
        /\ approvals[i].expires > now /\ approvals[i].binding.policy = policy
        /\ v.cast = "approve" /\ v.proof = "passkey"
        /\ Requester[a] \in linked /\ Requester[a] \notin revoked

MustConfirm(a, said) == a \in Confirmed /\ ~said /\ ~ConfirmedRequester(a)

\* (mutant) a newer press is only noticed while the bell is ringing.
NewerPressRinging(i) ==
    ringing /\ approvals[i].binding.press # NoPress /\ press > approvals[i].binding.press

NewerPress(i) ==
    approvals[i].binding.press # NoPress /\ press > approvals[i].binding.press

Lapsed(i) == now >= approvals[i].expires \/ approvals[i].status = "expired"

-----------------------------------------------------------------------------
Init ==
    /\ now = 0 /\ policy = 1
    /\ role \in [Members -> Roles \ {"unknown"}]
    /\ linked = Members /\ revoked = {}
    /\ facts \in Facts
    /\ press = NoPress /\ ringing = FALSE
    /\ proposed = {}
    /\ grant = [a \in Actions |-> NoGrant]
    /\ queued = [a \in Actions |-> [yes |-> FALSE, via |-> None]]
    /\ attempt = [a \in Actions |-> None]
    /\ approvals = [i \in Ids |-> FreeRow]
    /\ votes = [i \in Ids |-> [m \in Members |-> NoVote]]

\* status(): the one writer of approvals.status.
SetStatus(table, i, s) == [table EXCEPT ![i].status = s]

\* (mutant) a stale approval is left open beside the new one.
AskForBeside(a, new, table) ==
    \E i \in Ids :
        /\ table[i].status = "free"
        /\ approvals' = [table EXCEPT ![i] =
               [status |-> "pending", action |-> a, binding |-> new,
                expires |-> now + RuleOf(a).ttl]]

\* ask(): keep a live compatible approval, else expire it and open a new one.
AskFor(a, new, table) ==
    LET open == {i \in Ids : table[i].action = a /\ table[i].status \in Live}
        stale == {i \in open : \/ now >= table[i].expires
                               \/ ~Compatible(table[i].binding, new)}
        swept == [i \in Ids |-> IF i \in stale
                                THEN [table[i] EXCEPT !.status = "expired"]
                                ELSE table[i]]
    IN IF open \ stale # {} THEN approvals' = table
       ELSE \E i \in Ids :
              /\ table[i].status = "free"
              /\ approvals' = [swept EXCEPT ![i] =
                    [status |-> "pending", action |-> a, binding |-> new,
                     expires |-> now + RuleOf(a).ttl]]

\* proposal(): the row is inserted once, by whichever operation comes first.
Store(a) == proposed' = proposed \cup {a}

\* Any operation that ends in a denial (a failed preparation or context, a
\* stale bundle, a mismatched payload, an unsatisfied quorum, the boundary's
\* refusal, a second redemption) stores the proposal and changes nothing else.
Refuse(a) ==
    /\ Store(a)
    /\ UNCHANGED <<now, house, grant, queued, attempt, approvals, votes>>

\* propose, and redeem or enqueue without an approval while one is needed:
\* assess and, where a person must decide, open the approval.  (Only propose
\* also opens one to collect the requester's signed confirmation.)
Propose(a, said) ==
    /\ ~grant[a].granted /\ ~Denied(a)
    /\ \/ MustConfirm(a, said) /\ a \in Security
       \/ ~MustConfirm(a, said) /\ NeedsApproval(a)
    /\ Store(a) /\ AskFor(a, AskBinding(a), approvals)
    /\ UNCHANGED <<now, house, grant, queued, attempt, votes>>

\* redeem with an approval past its deadline: the row becomes expired.
RedeemExpired(a, i) ==
    /\ ~grant[a].granted /\ approvals[i].action = a
    /\ approvals[i].status # "redeemed" /\ Lapsed(i)
    /\ approvals[i].binding.press # NoPress \/ (~Denied(a) /\ ~NewerPress(i))
    /\ approvals' = SetStatus(approvals, i, "expired")
    /\ Store(a)
    /\ UNCHANGED <<now, house, grant, queued, attempt, votes>>

\* Presented: the approval is open, in time, for this visitor, and the rules
\* of this instant do not deny the action.
Presented(a, i, said) ==
    /\ ~grant[a].granted /\ approvals[i].action = a /\ approvals[i].status \in Live
    /\ ~Lapsed(i) /\ ~NewerPress(i)
    /\ ~Denied(a) /\ ~MustConfirm(a, said)

\* redeem with an approval that no longer covers the facts: expire, ask again.
RedeemIncompatible(a, i, said) ==
    /\ Presented(a, i, said)
    /\ ~Compatible(approvals[i].binding, BindingOf(a))
    /\ Store(a) /\ AskFor(a, AskAgainBinding(a, i), SetStatus(approvals, i, "expired"))
    /\ UNCHANGED <<now, house, grant, queued, attempt, votes>>

\* (mutant) an action without gates is not checked for an earlier grant.
AuthorizedAgain(a, i, said) ==
    IF i # None
    THEN /\ Presented(a, i, said)
         /\ Compatible(approvals[i].binding, BindingOf(a))
         /\ Satisfied(RuleOf(a), a, votes[i])
    ELSE ~Denied(a) /\ ~MustConfirm(a, said) /\ ~NeedsApproval(a)

\* The authority to proceed: a covering, satisfied approval, or no gate at all.
Authorized(a, i, said) ==
    IF i # None
    THEN /\ Presented(a, i, said)
         /\ Compatible(approvals[i].binding, BindingOf(a))
         /\ Satisfied(RuleOf(a), a, votes[i])
    ELSE /\ ~grant[a].granted /\ ~Denied(a) /\ ~MustConfirm(a, said)
         /\ ~NeedsApproval(a)

\* enqueue: schedule without redeeming; the approval id is kept for later.
Enqueue(a, i, said) ==
    /\ ~queued[a].yes /\ Authorized(a, i, said)
    /\ queued' = [queued EXCEPT ![a] = [yes |-> TRUE, via |-> i]]
    /\ Store(a)
    /\ UNCHANGED <<now, house, grant, attempt, approvals, votes>>

\* The boundary call takes time: the deadline is read again when it returns.
InTime(i, at) == i # None => at < approvals[i].expires

\* redeem, authorized and permitted by the boundary after `lag` instants.
RedeemGrant(a, i, said, lag) ==
    /\ InTime(i, now + lag) /\ Authorized(a, i, said)
    /\ grant' = [grant EXCEPT ![a] =
          [granted |-> TRUE, at |-> now, done |-> now + lag, via |-> i,
           policy |-> policy, requester |-> ResolvedRequester(a),
           gates |-> OperationGates(a), reserved |-> Cost[a]]]
    /\ approvals' = IF i = None THEN approvals ELSE SetStatus(approvals, i, "redeemed")
    /\ now' = now + lag
    /\ Store(a)
    /\ UNCHANGED <<house, queued, attempt, votes>>

\* The approval ran out while the boundary was deciding.
RedeemLate(a, i, said, lag) ==
    /\ ~InTime(i, now + lag) /\ Authorized(a, i, said)
    /\ approvals' = SetStatus(approvals, i, "expired")
    /\ now' = now + lag
    /\ Store(a)
    /\ UNCHANGED <<house, grant, queued, attempt, votes>>

OpenToVotes(i) == approvals[i].status \in Live /\ ~Lapsed(i)

\* vote_locked: the first vote of a member on an approval is final.  `bundle`
\* is the policy the process has loaded: unless the approval is bound to a
\* doorbell press, votes do not check that it is still the active one.
VoteOn(i, m, v, bundle) ==
    LET a == approvals[i].action
        rule == Rule[bundle][a]
        now_cast == [votes[i] EXCEPT ![m] = v]
    IN /\ OpenToVotes(i)
       /\ approvals[i].binding.press # NoPress =>
             bundle = policy /\ ~NewerPress(i) /\ ~Denied(a)
       /\ m \in linked /\ role[m] \in rule.approvers
       /\ ChannelAllowed(rule, a, v) /\ CredentialCurrent(m, v)
       /\ votes[i][m].cast = "no vote"
       /\ votes' = [votes EXCEPT ![i] = now_cast]
       /\ approvals' = SetStatus(approvals, i,
             CASE v.cast = "reject" -> "rejected"
               [] v.cast = "approve" /\ Satisfied(rule, a, now_cast) -> "approved"
               [] OTHER -> "pending")
       /\ UNCHANGED <<now, house, rows>>

\* A vote that arrives past the deadline only marks the approval expired.
VoteLate(i) ==
    /\ approvals[i].status \notin {"free", "redeemed"} /\ Lapsed(i)
    /\ approvals' = SetStatus(approvals, i, "expired")
    /\ UNCHANGED <<now, house, rows, votes>>

\* claim_execution: one attempt per action, under a grant at most Window old;
\* a queued action also needs its requester linked and its approval in time.
Claimable(a) ==
    /\ grant[a].granted /\ attempt[a] = None
    /\ now - grant[a].at <= Window
    /\ queued[a].yes =>
          /\ Requester[a] \in linked
          /\ \A i \in Ids :
                approvals[i].action = a /\ approvals[i].status = "redeemed"
                    => now < approvals[i].expires

ClaimExecution(a) ==
    /\ Claimable(a)
    /\ attempt' = [attempt EXCEPT ![a] = now]
    /\ UNCHANGED <<now, house, proposed, grant, queued, approvals, votes>>

-----------------------------------------------------------------------------
(* The rest of the household moves on its own.                             *)

Tick ==
    /\ now < MaxTime
    /\ now' = now + 1 /\ ringing' = FALSE
    /\ UNCHANGED <<role, linked, revoked, facts, press, policy, rows, approvals, votes>>

ChangeFacts ==
    /\ facts' \in Facts \ {facts}
    /\ UNCHANGED <<now, role, linked, revoked, press, ringing, policy, rows, approvals, votes>>

ActivatePolicy ==
    /\ policy < MaxPolicy /\ policy' = policy + 1
    /\ UNCHANGED <<now, role, linked, revoked, facts, press, ringing, rows, approvals, votes>>

ChangeRole(m, r) ==
    /\ role[m] # r
    /\ role' = [role EXCEPT ![m] = r]
    /\ UNCHANGED <<now, linked, revoked, facts, press, ringing, policy, rows, approvals, votes>>

ChangeLink(m) ==
    /\ linked' = IF m \in linked THEN linked \ {m} ELSE linked \cup {m}
    /\ UNCHANGED <<now, role, revoked, facts, press, ringing, policy, rows, approvals, votes>>

RevokePasskey(m) ==
    /\ m \notin revoked /\ revoked' = revoked \cup {m}
    /\ UNCHANGED <<now, role, linked, facts, press, ringing, policy, rows, approvals, votes>>

RingDoorbell ==
    /\ press < MaxPress /\ press' = press + 1
    /\ ringing' = TRUE
    /\ UNCHANGED <<now, role, linked, revoked, facts, policy, rows, approvals, votes>>

Household ==
    \/ Tick \/ ChangeFacts \/ ActivatePolicy \/ RingDoorbell
    \/ \E m \in Roaming, r \in Roles \ {"unknown"} : ChangeRole(m, r)
    \/ \E m \in Roaming : ChangeLink(m) \/ RevokePasskey(m)

Lag == {d \in 0..1 : now + d <= MaxTime}

Pipeline ==
    \/ \E a \in Actions : Refuse(a) \/ ClaimExecution(a)
    \/ \E a \in Actions, said \in BOOLEAN : Propose(a, said)
    \/ \E a \in Actions, i \in Ids : RedeemExpired(a, i)
    \/ \E a \in Actions, i \in Ids, said \in BOOLEAN : RedeemIncompatible(a, i, said)
    \/ \E a \in Actions, i \in Ids \cup {None}, said \in BOOLEAN : Enqueue(a, i, said)
    \/ \E a \in Actions, i \in Ids \cup {None}, said \in BOOLEAN, lag \in Lag :
          RedeemGrant(a, i, said, lag) \/ RedeemLate(a, i, said, lag)
    \/ \E i \in Ids, m \in Members, v \in Ballot, bundle \in 1..policy :
          VoteOn(i, m, v, bundle)
    \/ \E i \in Ids : VoteLate(i)

Next == Pipeline \/ Household

Spec == Init /\ [][Next]_vars

-----------------------------------------------------------------------------
(* Correctness.                                                            *)

\* pending() may find at most one live approval of an action, whatever order
\* proposals, redemptions and votes come in (approvals_one_pending in db.py).
OneLiveApproval ==
    \A i, j \in Ids : /\ approvals[i].status \in Live /\ approvals[j].status \in Live
                      /\ approvals[i].action = approvals[j].action
                      => i = j

\* authorize: a grant that used an approval is covered by it: same action, and
\* the policy in force and the requester's role at the grant are the ones shown
\* to the approver, with no gate, band, risk factor or unmet condition beyond
\* them and the same gates for the ending.  It was decided before the approval
\* ran out and spent it for good.  A grant that used none was raised by no
\* gate, for its ending either.
GrantIsCovered ==
    \A a \in Actions : grant[a].granted =>
        IF grant[a].via = None
        THEN grant[a].gates.opening.names = {} /\ grant[a].gates.ending.names = {}
        ELSE LET r == approvals[grant[a].via]
                 shown == r.binding.gates.opening
                 granted == grant[a].gates.opening
             IN /\ r.status = "redeemed" /\ r.action = a
                /\ grant[a].done < r.expires
                /\ grant[a].policy = r.binding.policy
                /\ grant[a].requester = r.binding.requester
                /\ granted.names \subseteq shown.names
                /\ granted.band <= shown.band
                /\ granted.factors \subseteq shown.factors
                /\ granted.unmet => shown.unmet
                /\ grant[a].gates.ending = r.binding.gates.ending

\* vote_locked: one accepted rejection closes an approval to every later vote
\* and redemption, even when the member who cast it loses the role later.
VetoHolds ==
    \A i \in Ids : (\E m \in Members : votes[i][m].cast = "reject")
                   => approvals[i].status \in {"rejected", "expired"}

\* usage: the grants of one local_date never pass the largest daily cap any
\* constitution version allowed, however many proposals were assessed before
\* the first of them was redeemed.
DailyBudget ==
    \A d \in 0..DayOf(MaxTime) :
        MapThenSumSet(LAMBDA a : grant[a].reserved,
                      {a \in Actions : grant[a].granted /\ DayOf(grant[a].at) = d})
        <= Max({Rule[p][a].cap : p \in Policies, a \in Actions})

\* claim_execution: a dispatch happens at most Window after its grant, and for
\* a queued action strictly before the approval that authorized it runs out.
ClaimIsFresh ==
    \A a \in Actions : attempt[a] # None =>
        /\ grant[a].granted
        /\ attempt[a] - grant[a].at <= Window
        /\ queued[a].yes /\ grant[a].via # None
              => attempt[a] < approvals[grant[a].via].expires

\* A grant is never revised, a vote never changes, and an approval only moves
\* forward: redeemed and expired are final, rejected can only expire.
ConsentIsFinal ==
    [][/\ \A a \in Actions : grant[a].granted => grant'[a] = grant[a]
       /\ \A i \in Ids, m \in Members :
            votes[i][m].cast # "no vote" => votes'[i][m] = votes[i][m]
       /\ \A i \in Ids :
            /\ approvals[i].status \in {"redeemed", "expired"}
                  => approvals'[i] = approvals[i]
            /\ approvals[i].status = "rejected"
                  => approvals'[i].status \in {"rejected", "expired"}]_vars

\* eligible_votes is recounted at redemption: when an approval is redeemed,
\* members who are approvers NOW, with accounts and passkeys valid NOW, have
\* approved it (all of them, where the rule says all_adults).
QuorumAtRedemption ==
    [][\A a \in Actions : ~grant[a].granted /\ grant'[a].granted /\ grant'[a].via # None =>
         LET rule == Rule[policy][a]
             cast == votes[grant'[a].via]
             valid == {m \in linked : /\ role[m] \in rule.approvers
                                      /\ cast[m].cast = "approve"
                                      /\ cast[m].proof # "alexa" => m \notin revoked
                                      /\ a \in Security => cast[m].proof = "passkey"}
         IN /\ valid # {}
            /\ rule.quorum = "all_adults" =>
                  \A m \in Members : role[m] \in rule.approvers => m \in valid]_vars

\* A visitor's approval never opens the door for whoever pressed after it.
VisitorIsTheApprovedOne ==
    [][\A a \in Actions : ~grant[a].granted /\ grant'[a].granted /\ grant'[a].via # None =>
         approvals[grant'[a].via].binding.press \in {NoPress, press}]_vars
=============================================================================
