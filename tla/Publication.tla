---------------------------- MODULE Publication ----------------------------
(***************************************************************************)
(* How a household's constitution is replaced: rule proposals and drafts   *)
(* (hirz/companion/policy.py, drafting.py), the owner's activation, and,   *)
(* for a household routed to the AWS policy engine, the write-ahead        *)
(* publication of the compiled statements (hirz/aws/publication.py) with   *)
(* the boundary checks that run against that engine (aws/boundary.py).     *)
(*                                                                         *)
(* The worker's transactions are one action each; a crash may fall between *)
(* any two.  A remote call is accepted at once and finishes later.  One    *)
(* policy engine serves every routed household.  The rules of a candidate  *)
(* are a member of Contents; Rules says what it makes of each action class.*)
(* Not here: the check target's schema, the statement quota, the policy  *)
(* ids of re-created statements, the signed binding of a queued job, whose *)
(* columns no code ever updates, and gateway sessions and votes, which a   *)
(* publication starts afresh.                                              *)
(***************************************************************************)
EXTENDS Naturals, FiniteSets, Functions

CONSTANTS
    Households,    \* the households of the deployment
    Routed,        \* those whose policies live in the AWS engine
    Published,     \* routed households with a policy in force at the start
    LockedOut,     \* households whose owner has no current passkey at the start
    Classes,       \* action classes
    Contents,      \* candidate constitutions, version left out
    Rules,         \* what a constitution says of each class
    Seed,          \* the constitution every household starts from
    Long,          \* candidates whose review takes more than three lines
    MaxDrafts,     \* bound on the drafts filed
    Proposals,     \* rule-proposal ids
    Proposers,     \* the households whose members propose rules
    Sessions,      \* the owners' browser sessions
    MaxTroubles,   \* bound on crashes, failed calls and refused statements
    MaxInputs,     \* bound on approvals asked for, rules proposed and passkeys revoked
    None           \* no value

Drafts == 1 .. MaxDrafts
Version == [version : Nat, content : Contents, status : {"unvalidated", "active"}]
Names == Routed \X Classes \X {"permit", "forbid"}
Inventory == UNION {[N -> {"ask", "never"}] : N \in SUBSET Names}
Empty == [n \in {} |-> "ask"]
Running == {"publishing", "applying", "recovering"}

(* Rows of the tables, statements in the engine, and what workers hold. *)
Proposal == [home : Households, draft : Drafts \cup {None},
             status : {"queued", "ready", "failed", "dismissed", "activated"}]
Writing == [proposal : Proposals, base : Version]
DraftRow == [home : Households, base : Version, candidate : Contents,
             reviewed : Sessions \cup {None}, status : {"ready", "dismissed", "activated"}]
Job == [status : Running \cup {"queued", "failed", "blocked", "committed"},
        session : Sessions, desired : Inventory, accepted : SUBSET Names]
Engine == [ready : BOOLEAN, publication : Drafts \cup {None}, inventory : Inventory]
Statement == [text : {"ask", "never"}, strict : BOOLEAN,
              status : {"creating", "active", "refused", "deleting"}]
Worker == [pc : {"idle", "loaded", "remote", "more", "done", "hard", "error"},
           job : Drafts \cup {None}, status : {"publishing", "recovering", None},
           inventory : Inventory]
Approval == [home : Households, class : Classes, bound : Version]
Checking == [home : Routed, inventory : Inventory]

Idle == [pc |-> "idle", job |-> None, status |-> None, inventory |-> Empty]

ASSUME ConstantsAssumption ==
    /\ IsFiniteSet(Households) /\ IsFiniteSet(Proposals)
    /\ Routed \subseteq Households /\ Proposers \subseteq Households
    /\ Published \subseteq Routed /\ LockedOut \subseteq Households
    /\ Rules \in [Contents -> [Classes -> {"ask", "never"}]]
    /\ Seed \in Contents /\ Long \subseteq Contents
    /\ MaxDrafts \in Nat
    /\ MaxTroubles \in Nat /\ MaxInputs \in Nat
    /\ None \notin Contents \cup Proposals \cup Sessions \cup Households \cup Nat
    /\ None \notin Proposal /\ None \notin Writing /\ None \notin DraftRow
    /\ None \notin Job /\ None \notin Engine /\ None \notin Checking
    /\ None \notin {"publishing", "recovering"}

VARIABLES
    active,      \* constitution_versions: the version in force per household
    owner,       \* TRUE while the owner's credential is current
    proposals,   \* rule_proposals
    writer,      \* per household: what the drafting worker holds outside its transactions
    drafts,      \* companion_drafts
    jobs,        \* policy_publications, by draft id
    engine,      \* the policy_engines row
    remote,      \* the AWS engine's statements
    worker,      \* the publication worker's local state
    approvals,   \* open approvals
    check,       \* a boundary check in progress, holding its household and the engine row
    troubles, inputs

homes == <<active, owner, approvals>>
writing == <<proposals, writer, drafts>>
publishing == <<jobs, engine, worker>>
budgets == <<troubles, inputs>>
vars == <<active, owner, proposals, writer, drafts, jobs, engine, remote, worker,
          approvals, check, troubles, inputs>>

TypeOK ==
    /\ active \in [Households -> Version]
    /\ owner \in [Households -> BOOLEAN]
    /\ proposals \in [Proposals -> Proposal \cup {None}]
    /\ writer \in [Households -> Writing \cup {None}]
    /\ drafts \in [Drafts -> DraftRow \cup {None}]
    /\ jobs \in [Drafts -> Job \cup {None}]
    /\ engine \in Engine \cup {None}
    /\ DOMAIN remote \subseteq Names /\ remote \in [DOMAIN remote -> Statement]
    /\ worker \in Worker
    /\ approvals \subseteq Approval
    /\ check \in Checking \cup {None}
    /\ troubles \in 0 .. MaxTroubles /\ inputs \in 0 .. MaxInputs

(* compile_policy: every class has a permit, a class never allowed a forbid. *)
compiled(h, k) ==
    [n \in {m \in Names : m[1] = h /\ (m[3] = "forbid" => Rules[k][m[2]] = "never")}
        |-> Rules[k][n[2]]]

Installed ==
    [n \in UNION {DOMAIN compiled(h, Seed) : h \in Published} |-> compiled(n[1], Seed)[n]]

Init ==
    /\ active = [h \in Households |-> [version |-> 1, content |-> Seed,
                    status |-> IF h \in Published THEN "active" ELSE "unvalidated"]]
    /\ owner = [h \in Households |-> h \notin LockedOut]
    /\ proposals = [p \in Proposals |-> None]
    /\ writer = [h \in Households |-> None]
    /\ drafts = [d \in Drafts |-> None]
    /\ jobs = [d \in Drafts |-> None]
    /\ engine = IF Published = {} THEN None
                ELSE [ready |-> TRUE, publication |-> None, inventory |-> Installed]
    /\ remote = [n \in DOMAIN Installed |->
                    [text |-> Installed[n], status |-> "active", strict |-> n[3] = "permit"]]
    /\ worker = Idle
    /\ approvals = {}
    /\ check = None
    /\ troubles = 0 /\ inputs = 0

(* The household lock: a boundary check keeps it until its transaction ends. *)
Free(h) == h # (IF check = None THEN None ELSE check.home)

(***************************************************************************)
(* Proposals and drafts                                                    *)
(***************************************************************************)

(* record_rule_proposal: a member's sentence waits for the drafting worker. *)
Propose(h, p) ==
    /\ Free(h) /\ proposals[p] = None /\ inputs < MaxInputs
    /\ proposals' = [proposals EXCEPT ![p] = [home |-> h, status |-> "queued", draft |-> None]]
    /\ inputs' = inputs + 1
    /\ UNCHANGED <<writer, drafts, homes, publishing, remote, check, troubles>>

(* uuid4: ids are never used twice; here they are handed out in order. *)
Fresh(d) == drafts[d] = None /\ \A e \in 1 .. d - 1 : drafts[e] # None

(* draft: the candidate is filed against the version in force now. *)
NewDraft(h, d, k) ==
    /\ Fresh(d)
    /\ drafts' = [drafts EXCEPT ![d] =
          [home |-> h, base |-> active[h], candidate |-> k,
           reviewed |-> None, status |-> "ready"]]

Draft(h, d, k) ==
    /\ Free(h) /\ owner[h]
    /\ NewDraft(h, d, k)
    /\ UNCHANGED <<proposals, writer, homes, publishing, remote, check, budgets>>

(* A ready draft that its proposal no longer needs is dismissed. *)
Undrafted(ds, d) ==
    IF d # None /\ ds[d].status = "ready" THEN [ds EXCEPT ![d].status = "dismissed"] ELSE ds

(* proposal_draft: the owner's own wording of a proposal. *)
ProposalDraft(p, d, k) ==
    LET h == proposals[p].home IN
    /\ proposals[p] # None /\ Free(h) /\ owner[h]
    /\ proposals[p].status \in {"queued", "failed", "ready"}
    /\ Fresh(d)
    /\ drafts' = [Undrafted(drafts, proposals[p].draft) EXCEPT ![d] =
          [home |-> h, base |-> active[h], candidate |-> k,
           reviewed |-> None, status |-> "ready"]]
    /\ proposals' = [proposals EXCEPT ![p] = [@ EXCEPT !.status = "ready", !.draft = d]]
    /\ UNCHANGED <<writer, homes, publishing, remote, check, budgets>>

Dismiss(p) ==
    /\ proposals[p] # None /\ Free(proposals[p].home) /\ owner[proposals[p].home]
    /\ proposals[p].status \in {"queued", "ready", "failed"}
    /\ drafts' = Undrafted(drafts, proposals[p].draft)
    /\ proposals' = [proposals EXCEPT ![p].status = "dismissed"]
    /\ UNCHANGED <<writer, homes, publishing, remote, check, budgets>>

(* drafting._advance: the proposal and the policy are read in a transaction, *)
(* the model is asked outside of it.                                         *)
Take(p) ==
    LET h == proposals[p].home IN
    /\ proposals[p] # None /\ Free(h) /\ writer[h] = None
    /\ proposals[p].status = "queued"
    /\ writer' = [writer EXCEPT ![h] = [proposal |-> p, base |-> active[h]]]
    /\ UNCHANGED <<proposals, drafts, homes, publishing, remote, check, budgets>>

Unmoved(h) == active[h].content = writer[h].base.content

(* The answer is used only if the proposal still waits and the rules in     *)
(* force read as those it was drawn from; a failed or outdated answer      *)
(* fails the proposal.                                                     *)
Written(h, d, k) ==
    LET p == writer[h].proposal IN
    /\ writer[h] # None /\ Free(h)
    /\ writer' = [writer EXCEPT ![h] = None]
    /\ \/ /\ proposals[p].status = "queued" /\ Unmoved(h)
          /\ NewDraft(h, d, k)
          /\ proposals' = [proposals EXCEPT ![p] = [@ EXCEPT !.status = "ready", !.draft = d]]
       \/ /\ proposals[p].status = "queued"
          /\ proposals' = [proposals EXCEPT ![p].status = "failed"]
          /\ UNCHANGED drafts
       \/ /\ proposals[p].status # "queued"
          /\ UNCHANGED <<proposals, drafts>>
    /\ UNCHANGED <<homes, publishing, remote, check, budgets>>

WriterCrash(h) ==
    /\ writer[h] # None /\ troubles < MaxTroubles
    /\ writer' = [writer EXCEPT ![h] = None]
    /\ troubles' = troubles + 1
    /\ UNCHANGED <<proposals, drafts, homes, publishing, remote, check, inputs>>

(* review_complete: the whole review was opened in this session. *)
Review(d, s) ==
    /\ drafts[d] # None /\ Free(drafts[d].home) /\ owner[drafts[d].home]
    /\ drafts[d].status = "ready"
    /\ drafts' = [drafts EXCEPT ![d].reviewed = s]
    /\ UNCHANGED <<proposals, writer, homes, publishing, remote, check, budgets>>

(***************************************************************************)
(* Activation                                                              *)
(***************************************************************************)
changed_classes(k, l) == {c \in Classes : Rules[k][c] # Rules[l][c]}

\* (mutant) only the number of the version is compared, not its content.
CurrentVersion(d) == drafts[d].base.version = active[drafts[d].home].version
\* Version number and hash; the status is not compared.
SameRules(v, w) == v.version = w.version /\ v.content = w.content
Current(d) == SameRules(drafts[d].base, active[drafts[d].home])

(* activation_inputs: what must hold when a draft is activated, and again  *)
(* at every later step of its publication.                                 *)
activation_inputs(d, s) ==
    LET dr == drafts[d] IN
    /\ owner[dr.home]
    /\ dr.status = "ready"
    /\ Current(d)
    /\ dr.candidate \in Long => dr.reviewed = s
    /\ \A a \in approvals : a.home = dr.home
          => a.class \notin changed_classes(active[dr.home].content, dr.candidate)

(* commit: the first activation keeps the seed's version, a later one takes *)
(* the next; approvals of untouched classes are issued again, bound to the  *)
(* new policy.                                                              *)
commit(d) ==
    LET h == drafts[d].home
        v == active[h]
        new == [version |-> IF v.status = "unvalidated" THEN v.version ELSE v.version + 1,
                content |-> drafts[d].candidate, status |-> "active"]
    IN  /\ active' = [active EXCEPT ![h] = new]
        /\ approvals' = {IF a.home = h THEN [a EXCEPT !.bound = new] ELSE a : a \in approvals}
        /\ drafts' = [drafts EXCEPT ![d].status = "activated"]
        /\ proposals' = [p \in Proposals |->
              IF proposals[p] # None /\ proposals[p].draft = d
              THEN [proposals[p] EXCEPT !.status = "activated"] ELSE proposals[p]]

(* activate without a route: checked and committed in one transaction. *)
Activate(d, s) ==
    /\ drafts[d] # None /\ drafts[d].home \notin Routed
    /\ Free(drafts[d].home) /\ activation_inputs(d, s)
    /\ commit(d)
    /\ UNCHANGED <<owner, writer, publishing, remote, check, budgets>>

(* activate with a route, and publication.queue: the same checks, then a   *)
(* job the worker finds; a draft is published at most once.                *)
Queue(d, s) ==
    /\ drafts[d] # None /\ drafts[d].home \in Routed
    /\ Free(drafts[d].home) /\ activation_inputs(d, s) /\ jobs[d] = None
    /\ engine' = IF engine # None THEN engine
                 ELSE [ready |-> FALSE, publication |-> None, inventory |-> Empty]
    /\ jobs' = [jobs EXCEPT ![d] =
          [status |-> "queued", session |-> s, desired |-> Empty, accepted |-> {}]]
    /\ UNCHANGED <<worker, homes, writing, remote, check, budgets>>

(***************************************************************************)
(* The publication worker                                                  *)
(***************************************************************************)

Merge(f, g) == [n \in DOMAIN f \cup DOMAIN g |-> IF n \in DOMAIN g THEN g[n] ELSE f[n]]

desired_inventory(d, committed) ==
    LET h == drafts[d].home
    IN  Merge(Restrict(committed, {n \in DOMAIN committed : n[1] # h}),
              compiled(h, drafts[d].candidate))

checked(d) == activation_inputs(d, jobs[d].session)

To(d, status) == jobs' = [jobs EXCEPT ![d].status = status]

\* (mutant) a job that stopped while applying is not taken up again.
TakesListed(h, d) ==
    /\ worker.pc = "idle" /\ engine # None /\ check = None
    /\ jobs[d] # None /\ drafts[d].home = h
    /\ jobs[d].status \in {"queued", "publishing", "recovering"}
    /\ engine.publication \in {None, d}

(* Which job a tick of household h takes up: the one the engine is held by, *)
(* or, when it is free, a waiting one.                                      *)
Takes(h, d) ==
    /\ worker.pc = "idle" /\ engine # None /\ check = None
    /\ jobs[d] # None /\ drafts[d].home = h
    /\ jobs[d].status \in Running \cup {"queued"}
    /\ engine.publication \in {None, d}

(* The block is committed before the first remote write. *)
Begin(h, d) ==
    /\ Takes(h, d) /\ jobs[d].status = "queued"
    /\ IF checked(d)
       THEN /\ jobs' = [jobs EXCEPT ![d] = [@ EXCEPT !.status = "publishing",
                  !.desired = desired_inventory(d, engine.inventory)]]
            /\ engine' = [engine EXCEPT !.ready = FALSE, !.publication = d]
       ELSE To(d, "failed") /\ UNCHANGED engine
    /\ UNCHANGED <<worker, homes, writing, remote, check, budgets>>

(* A job found applying was interrupted: what it did is not known. *)
Interrupted(h, d) ==
    /\ Takes(h, d) /\ jobs[d].status = "applying"
    /\ To(d, "recovering")
    /\ UNCHANGED <<engine, worker, homes, writing, remote, check, budgets>>

Load(h, d) ==
    /\ Takes(h, d) /\ jobs[d].status \in {"publishing", "recovering"}
    /\ worker' = [pc |-> IF jobs[d].status = "publishing" THEN "loaded" ELSE "remote",
                  job |-> d, status |-> jobs[d].status, inventory |-> engine.inventory]
    /\ UNCHANGED <<jobs, engine, homes, writing, remote, check, budgets>>

Holds(d) == checked(d) /\ jobs[d].desired = desired_inventory(d, worker.inventory)

(* The job is marked applying before each remote step. *)
Apply ==
    LET d == worker.job IN
    /\ worker.pc = "loaded" /\ Free(drafts[d].home)
    /\ IF Holds(d)
       THEN To(d, "applying") /\ worker' = [worker EXCEPT !.pc = "remote"]
       ELSE To(d, "recovering") /\ worker' = Idle
    /\ UNCHANGED <<engine, homes, writing, remote, check, budgets>>

Target == IF worker.status = "publishing" THEN jobs[worker.job].desired ELSE worker.inventory

(* hard_deny_finding: strict validation refuses a forbid of a class never  *)
(* allowed; once that is accepted and on record the statement is created   *)
(* without it.                                                             *)
HardDeny(n) == remote[n].status = "refused" /\ n[3] = "forbid" /\ n \in DOMAIN Target
               /\ remote[n].text = Target[n]

Put(n, row) == remote' = Merge(remote, [m \in {n} |-> row])

(* The three ways a listed statement stands in the way of an exact,        *)
(* active inventory, and the statements that are missing or different.     *)
Unsettled == {n \in DOMAIN remote : remote[n].status \in {"creating", "deleting"}}
Refused == {n \in DOMAIN remote : remote[n].status = "refused"}
Obsolete == {n \in DOMAIN remote : n \notin DOMAIN Target
                                   \/ (n[3] = "forbid" /\ remote[n].text # Target[n])}
Missing == {n \in DOMAIN Target : n \notin DOMAIN remote \/ remote[n].text # Target[n]}

Deletes(n) == Put(n, [remote[n] EXCEPT !.status = "deleting"])
Says(result) == worker' = [worker EXCEPT !.pc = result]

(* Publisher.step: at most one remote change, permits before forbids; done *)
(* only when the engine holds exactly the wanted statements, all active.   *)
Step ==
    /\ worker.pc = "remote"
    /\ \/ Unsettled # {} /\ Says("more") /\ UNCHANGED remote
       \/ /\ Unsettled = {}
          /\ \E n \in Refused :
                \/ HardDeny(n) /\ n \notin jobs[worker.job].accepted
                   /\ Says("hard") /\ UNCHANGED remote
                \/ (HardDeny(n) \/ worker.status = "recovering")
                   /\ (HardDeny(n) => n \in jobs[worker.job].accepted)
                   /\ Says("more") /\ Deletes(n)
                \/ ~HardDeny(n) /\ worker.status # "recovering"
                   /\ Says("error") /\ UNCHANGED remote
       \/ /\ Unsettled = {} /\ Refused = {}
          /\ \E n \in Obsolete : Says("more") /\ Deletes(n)
       \/ /\ Unsettled = {} /\ Refused = {} /\ Obsolete = {}
          /\ \E n \in Missing :
                /\ n[3] = "forbid" => \A m \in Missing : m[3] = "forbid"
                /\ Says("more")
                /\ Put(n, [text |-> Target[n], status |-> "creating",
                           strict |-> n \notin jobs[worker.job].accepted])
       \/ /\ Unsettled = {} /\ Refused = {} /\ Obsolete = {} /\ Missing = {}
          /\ Says("done") /\ UNCHANGED remote
    /\ UNCHANGED <<jobs, engine, homes, writing, check, budgets>>

(* A remote call fails, or is refused outright, without effect. *)
StepFails ==
    /\ worker.pc = "remote" /\ troubles < MaxTroubles
    /\ Says("error") /\ troubles' = troubles + 1
    /\ UNCHANGED <<jobs, engine, remote, homes, writing, check, inputs>>

(* _advance after the step, each in a transaction of the job's household. *)
Report ==
    LET d == worker.job IN
    /\ worker.pc \in {"more", "hard", "error"} /\ Free(drafts[d].home)
    /\ \/ worker.pc = "more" /\ To(d, worker.status)
       \/ /\ worker.pc = "hard"
          /\ jobs' = [jobs EXCEPT ![d] = [jobs[d] EXCEPT !.status = worker.status,
                !.accepted = @ \cup {n \in Refused : HardDeny(n)}]]
       \/ /\ worker.pc = "error"
          /\ To(d, IF worker.status = "publishing" THEN "recovering" ELSE "blocked")
    /\ worker' = Idle
    /\ UNCHANGED <<engine, homes, writing, remote, check, budgets>>

Ready(inventory) ==
    engine' = [engine EXCEPT !.ready = TRUE, !.publication = None, !.inventory = inventory]

(* The job, the version and the engine row change together. *)
Commit ==
    LET d == worker.job IN
    /\ worker.pc = "done" /\ worker.status = "publishing" /\ Free(drafts[d].home)
    /\ worker' = Idle
    /\ IF Holds(d)
       THEN To(d, "committed") /\ commit(d) /\ Ready(jobs[d].desired)
       ELSE To(d, "recovering") /\ UNCHANGED <<engine, active, approvals, drafts, proposals>>
    /\ UNCHANGED <<owner, writer, remote, check, budgets>>

\* (mutant) the new statements are recorded after the old ones were put back.
RestoreDesired ==
    /\ worker.pc = "done" /\ worker.status = "recovering"
    /\ To(worker.job, "failed") /\ Ready(jobs[worker.job].desired) /\ worker' = Idle
    /\ UNCHANGED <<homes, writing, remote, check, budgets>>

(* A job whose rules were taken back ends failed, the old ones in force. *)
Restore ==
    LET d == worker.job IN
    /\ worker.pc = "done" /\ worker.status = "recovering" /\ Free(drafts[d].home)
    /\ To(d, "failed") /\ Ready(worker.inventory) /\ worker' = Idle
    /\ UNCHANGED <<homes, writing, remote, check, budgets>>

(* The session lock of a dead worker is released by its connection. *)
Crash ==
    /\ worker.pc # "idle" /\ troubles < MaxTroubles
    /\ worker' = Idle /\ troubles' = troubles + 1
    /\ UNCHANGED <<jobs, engine, homes, writing, remote, check, inputs>>

(* The AWS engine finishes an accepted call.  Strict validation refuses a   *)
(* forbid of a class never allowed, and may refuse any other statement.     *)
Settle(n) ==
    /\ n \in Unsettled
    /\ \/ remote[n].status = "deleting"
          /\ remote' = Restrict(remote, DOMAIN remote \ {n}) /\ UNCHANGED troubles
       \/ remote[n].status = "creating" /\ (remote[n].strict => n[3] = "permit")
          /\ Put(n, [remote[n] EXCEPT !.status = "active"]) /\ UNCHANGED troubles
       \/ remote[n].status = "creating" /\ remote[n].strict /\ n[3] = "forbid"
          /\ Put(n, [remote[n] EXCEPT !.status = "refused"]) /\ UNCHANGED troubles
       \/ remote[n].status = "creating" /\ remote[n].strict /\ n[3] = "permit"
          /\ troubles < MaxTroubles /\ troubles' = troubles + 1
          /\ Put(n, [remote[n] EXCEPT !.status = "refused"])
    /\ UNCHANGED <<homes, writing, publishing, check, inputs>>

(***************************************************************************)
(* Approvals and boundary checks                                           *)
(***************************************************************************)

(* A proposed action the policy asks about. *)
Ask(h, c) ==
    /\ Free(h) /\ inputs < MaxInputs
    /\ active[h].status = "active" /\ Rules[active[h].content][c] = "ask"
    /\ approvals' = approvals \cup {[home |-> h, class |-> c, bound |-> active[h]]}
    /\ inputs' = inputs + 1
    /\ UNCHANGED <<active, owner, writing, publishing, remote, check, troubles>>

(* An approval is refused, redeemed or runs out. *)
Close(a) ==
    /\ a \in approvals /\ Free(a.home)
    /\ approvals' = approvals \ {a}
    /\ UNCHANGED <<active, owner, writing, publishing, remote, check, budgets>>

(* The passkey that signed the activation is revoked. *)
Revoke(h) ==
    /\ Free(h) /\ owner[h] /\ inputs < MaxInputs
    /\ owner' = [owner EXCEPT ![h] = FALSE]
    /\ inputs' = inputs + 1
    /\ UNCHANGED <<active, approvals, writing, publishing, remote, check, troubles>>

(* check, up to its first call: the engine row is share-locked, so that no *)
(* publication begins before the check's transaction ends.                 *)
Check(h) ==
    /\ h \in Routed /\ check = None
    /\ engine # None /\ engine.ready
    /\ check' = [home |-> h, inventory |-> engine.inventory]
    /\ UNCHANGED <<homes, writing, publishing, remote, budgets>>

Answered ==
    /\ check # None
    /\ check' = None
    /\ UNCHANGED <<homes, writing, publishing, remote, budgets>>

-----------------------------------------------------------------------------
Tick == \/ \E h \in Routed, d \in Drafts : Begin(h, d) \/ Interrupted(h, d) \/ Load(h, d)
        \/ Apply \/ Step \/ Report \/ Commit \/ Restore

Next ==
    \/ \E h \in Proposers, p \in Proposals : Propose(h, p)
    \/ \E h \in Households, d \in Drafts, k \in Contents :
          Draft(h, d, k)
    \/ \E p \in Proposals, d \in Drafts, k \in Contents :
          ProposalDraft(p, d, k)
    \/ \E p \in Proposals : Dismiss(p)
    \/ \E p \in Proposals : Take(p)
    \/ \E h \in Households, d \in Drafts, k \in Contents :
          Written(h, d, k)
    \/ \E h \in Households : WriterCrash(h)
    \/ \E d \in Drafts, s \in Sessions : Review(d, s)
    \/ \E d \in Drafts, s \in Sessions : Activate(d, s)
    \/ \E d \in Drafts, s \in Sessions : Queue(d, s)
    \/ \E h \in Routed, d \in Drafts : Begin(h, d)
    \/ \E h \in Routed, d \in Drafts : Interrupted(h, d)
    \/ \E h \in Routed, d \in Drafts : Load(h, d)
    \/ Apply \/ Step \/ StepFails \/ Report \/ Commit \/ Restore \/ Crash
    \/ \E n \in Names : Settle(n)
    \/ \E h \in Households, c \in Classes : Ask(h, c)
    \/ \E a \in approvals : Close(a)
    \/ \E h \in Households : Revoke(h)
    \/ \E h \in Households : Check(h)
    \/ Answered

(* The tick runs on a schedule, the check answers or times out, and AWS  *)
(* finishes what it accepted.                                              *)
Spec == Init /\ [][Next]_vars
        /\ WF_vars(Tick) /\ WF_vars(Answered) /\ WF_vars(\E n \in Names : Settle(n))

-----------------------------------------------------------------------------
(* Whenever the engine is open for boundary checks (aws/boundary.py:91), or *)
(* one is in progress, AWS holds exactly the statements of the policies in  *)
(* force: for every routed household that published one, the compiled       *)
(* version that Postgres calls active, and the inventory the check records  *)
(* as evidence.  Crashes between the remote writes and the commit, refused  *)
(* statements and changed minds may not open it on anything else.           *)
EnforcedIsActive ==
    engine # None /\ (engine.ready \/ check # None) =>
        /\ \A n \in DOMAIN remote : remote[n].status = "active"
        /\ [n \in DOMAIN remote |-> remote[n].text] = engine.inventory
        /\ \A h \in Routed :
              Restrict(engine.inventory, {n \in DOMAIN engine.inventory : n[1] = h})
                 = IF active[h].status = "active" THEN compiled(h, active[h].content) ELSE Empty
        /\ check # None => check.inventory = engine.inventory

(* Every open approval is bound to the policy its household has now         *)
(* (policy.commit issues them again with the new binding), however long a  *)
(* publication took and whatever was asked meanwhile.                       *)
ApprovalsFollowPolicy == \A a \in approvals : a.bound = active[a.home]

(* A household's policy is replaced only by a candidate that was reviewed   *)
(* against exactly the version it replaces, while the owner's passkey is    *)
(* current, and never under an open approval for a class it changes: what   *)
(* activate checked holds when the publication commits, and the approvals   *)
(* that stay open are issued again under the new policy.                    *)
ActivatedAsReviewed ==
    /\ []ApprovalsFollowPolicy
    /\ [][\A h \in Households : active'[h] # active[h] =>
             /\ owner[h]
             /\ \E d \in Drafts : drafts[d] # None /\ drafts[d].home = h
                   /\ drafts[d].status = "ready" /\ drafts'[d].status = "activated"
                   /\ SameRules(drafts[d].base, active[h])
                   /\ drafts[d].candidate = active'[h].content
             /\ \A a \in approvals : a.home = h =>
                   Rules[active[h].content][a.class] = Rules[active'[h].content][a.class]]_vars

(* A publication that holds the engine ends: committed, taken back, or      *)
(* blocked for an operator.                                                 *)
PublicationEnds ==
    \A d \in Drafts : (engine # None /\ engine.publication = d)
        ~> (jobs[d] # None /\ jobs[d].status \in {"committed", "failed", "blocked"})

=============================================================================
