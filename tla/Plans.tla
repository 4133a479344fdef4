------------------------------- MODULE Plans --------------------------------
(***************************************************************************)
(* One plan and its replacements: consent and its budget reservation        *)
(* (hirz/executor/plans.py, budget.py), the durable refresh job             *)
(* (refresh.py) and the worker that recomputes the plan outside any          *)
(* transaction and publishes the result if nothing moved (refresh_worker.py, *)
(* replanning.py, observations.py).                                          *)
(*                                                                         *)
(* One database transaction is one step; p.repo.write serializes them.      *)
(* Batches exclude each other through a session-level advisory lock, which   *)
(* a worker whose session drops loses while it goes on.                      *)
(*                                                                         *)
(* Abstractions.  The facts a plan depends on (graph, policy, samples,       *)
(* runtime inputs) are a version number; effects of Hirz's own operations     *)
(* are compensated by the code and do not change it.  A plan has one bounded  *)
(* opening, an estimate interval lasts one instant.  Asking for an opening    *)
(* and how a sweep runs it are module Executor; here an opening is claimed,   *)
(* verified or failed, and ended.  The solver's answer and whether the rules  *)
(* and the daily budget accept it (module Approvals) are choices.             *)
(***************************************************************************)
EXTENDS Integers, Sequences, FiniteSets, FiniteSetsExt

CONSTANTS
    Workers,        \* worker processes sharing the database
    Nobody,         \* the advisory lock is free
    Horizon,        \* the end of the planning horizon
    Offers,         \* what the solver may propose: [cost, at, stop]
    MaxVersions,    \* versions of the plan
    MaxEvents       \* changes of facts, explicit requests, failed reads, crashes
                    \* and lost sessions

\* cost is the estimate of each interval; the opening starts at "at" and ends
\* at "stop".
ASSUME PlansAssumption ==
    /\ Nobody \notin Workers
    /\ Horizon \in Nat \ {0}
    /\ Offers # {}
    /\ Offers \subseteq [cost : Nat, at : 0..(Horizon - 1), stop : 1..Horizon]
    /\ \A o \in Offers : o.at < o.stop
    /\ {MaxVersions, MaxEvents} \subseteq Nat

VARIABLES
    now,
    facts,      \* version of the facts fingerprint() digests
    wishes,     \* explicit requests so far
    plans,      \* rows of the lineage, by version
    ops,        \* the actions row of each version's opening
    job,        \* the lineage's row of plan_refresh_jobs
    usage,      \* grants minus RESERVATION_ADJUSTED deltas in the audit log
    lock,       \* holder of pg_try_advisory_lock(~household)
    work,       \* what each worker holds in memory
    events

vars == <<now, facts, wishes, plans, ops, job, usage, lock, work, events>>

Instants == 0..(Horizon - 1)
TERMINAL == {"superseded", "completed", "abandoned"}
\* A share of the budget held for an interval under the grant of a version.
Share == [t : Instants, grant : Nat, amount : Nat]
\* approved stands for active too; approver: consent is recorded; basis, asked: the facts and the explicit
\* requests the plan was computed from; agreed: the requests its last consent
\* by a member covered.
PlanRow ==
    [status : {"proposed", "approved", "refreshing"} \cup TERMINAL,
     approver : BOOLEAN, allocations : SUBSET Share, estimates : [Instants -> Nat],
     basis : Nat, asked : Nat, agreed : Nat]
\* failing: the failure is recorded and hold() not called yet.
OpRow ==
    [status : {"proposed", "scheduled", "held", "cancelled", "skipped",
               "executing", "verified", "failing", "failed"},
     at : Instants, stop : 1..Horizon, ended : BOOLEAN]
Reasons == {"changed", "feeds", "member", "reads", "recovered", "operation", "late"}
Job ==
    [state : {"idle", "queued", "running", "blocked", "cancelled"},
     plan : Nat, generation : Nat, reasons : SUBSET Reasons, explicit : BOOLEAN,
     retry : 0..Horizon, why : {"none", "reads", "planning"}, facts : Nat]
Steps == {"idle", "poll", "list", "start", "compute", "repoll", "publish",
          "block", "unread"}
Work == [pc : Steps, plan : Nat, generation : Nat, before : Nat, asked : Nat,
         rows : Seq(OpRow), at : 0..Horizon, offer : Offers, transient : BOOLEAN]

\* Type invariant of the plans, the job and the workers.
TypeOK ==
    /\ now \in 0..Horizon /\ facts \in Nat /\ wishes \in Nat /\ events \in Nat
    /\ plans \in Seq(PlanRow) /\ ops \in Seq(OpRow) /\ Len(ops) = Len(plans)
    /\ job \in Job
    /\ usage \in Nat
    /\ lock \in Workers \cup {Nobody}
    /\ work \in [Workers -> Work]

Latest == Len(plans)
Attempted(o) == o.status \in {"executing", "verified", "failing", "failed"}
expired(o) == now > o.at
Total(shares) == MapThenSumSet(LAMBDA s : s.amount, shares)
Sum(f) == MapThenSumSet(LAMBDA t : f[t], DOMAIN f)

\* (mutant) a plan is fresh whenever no refresh is under way.
freshIdle(v) == job.state = "idle"

\* fresh(): no refresh is under way and the facts are those of the job.
fresh(v) == job.state = "idle" /\ job.facts = facts

-----------------------------------------------------------------------------
(* The budget.                                                             *)

\* intervals(): the estimates under a grant, zero amounts left out.
intervals(p, v) ==
    {[t |-> t, grant |-> v, amount |-> p.estimates[t]] :
        t \in {i \in Instants : p.estimates[i] > 0}}

\* (mutant) the shares taken over are forgotten.
allocateAnew(p, v) == intervals(p, v)

\* reservation(): what the budget grant of a version asks for.
reservation(p) == Sum(p.estimates)

\* allocate(): the estimates become shares of this version's grant, next to
\* the shares it took over.
allocate(p, v) == p.allocations \cup intervals(p, v)

\* transfer(): whole-house intervals are kept up to the last ending that is
\* not verified, and all of them while the outcome of an opening is unknown.
retained(p, rows) ==
    LET tried == {v \in DOMAIN rows : Attempted(rows[v])}
        until == Max({now} \cup {rows[v].stop : v \in {u \in tried : ~rows[u].ended}})
    IN  IF \E v \in tried : rows[v].status # "verified"
        THEN p.allocations
        ELSE {s \in p.allocations : s.t < until}

\* transfer(): what a new estimate needs beyond the shares that are kept.
needed(shares, offer, from) ==
    [t \in Instants |->
        LET credit == Total({s \in shares : s.t = t})
            cost == IF t < from THEN 0 ELSE offer.cost
        IN  Max({0, cost - credit})]

-----------------------------------------------------------------------------
(* Holding a plan and asking for its refresh.                              *)

\* stop_unstarted(): only what was never attempted.
stop_unstarted(rows, v, status) ==
    [rows EXCEPT ![v].status = IF Attempted(rows[v]) \/ @ = "skipped" THEN @ ELSE status]

\* queue(): the same reason is not queued twice while the first is pending.
Known(reason, explicit, fingerprint) ==
    /\ job.state \in {"queued", "running"} /\ reason \in job.reasons
    /\ explicit => job.explicit
    /\ fingerprint \in {-1, job.facts}

\* queue(p, plan v, reason) over the actions rows: every request that is not
\* known already starts a new generation and holds what has not started.
\* fingerprint -1: none is given.
queue(v, rows, reason, explicit, fingerprint) ==
    IF plans[v].status \in TERMINAL \/ Known(reason, explicit, fingerprint)
    THEN ops' = rows /\ UNCHANGED <<plans, job>>
    ELSE /\ job' = [job EXCEPT !.state = "queued", !.generation = job.generation + 1,
                               !.reasons = @ \cup {reason}, !.explicit = @ \/ explicit,
                               !.retry = 0, !.why = "none",
                               !.facts = IF fingerprint = -1 THEN @ ELSE fingerprint]
         /\ ops' = stop_unstarted(rows, v, "held")
         /\ plans' = [plans EXCEPT ![v].status = "refreshing"]

\* detect(): the facts moved away from those of the job.
detect(v, current) ==
    IF job.facts # current
    THEN queue(v, ops, "changed", FALSE, current)
    ELSE UNCHANGED <<plans, ops, job>>

-----------------------------------------------------------------------------
Event == events < MaxEvents /\ events' = events + 1

NoJob == [state |-> "idle", plan |-> 0, generation |-> 0, reasons |-> {}, explicit |-> FALSE,
          retry |-> 0, why |-> "none", facts |-> 0]
Idle == [pc |-> "idle", plan |-> 0, generation |-> 0, before |-> 0, asked |-> 0,
         rows |-> <<>>, at |-> 0, offer |-> CHOOSE o \in Offers : TRUE, transient |-> FALSE]

Init ==
    /\ now = 0 /\ facts = 0 /\ wishes = 0 /\ usage = 0 /\ events = 0
    /\ plans = <<>> /\ ops = <<>> /\ job = NoJob
    /\ lock = Nobody /\ work = [w \in Workers |-> Idle]

\* A version of the plan as record_plan or revise_plan stores it.
NewPlan(shares, estimates, basis, asked, approver, agreed) ==
    [status |-> "proposed", approver |-> approver, allocations |-> shares,
     estimates |-> estimates, basis |-> basis, asked |-> asked, agreed |-> agreed]
NewOp(offer) == [status |-> "proposed", at |-> offer.at, stop |-> offer.stop, ended |-> FALSE]

\* save() with the publication: the job is idle again and explicit is cleared.
Published(v) ==
    [job EXCEPT !.state = "idle", !.plan = v, !.reasons = {}, !.explicit = FALSE,
                !.retry = 0, !.why = "none", !.facts = facts]

\* commit_mutation(record_plan) of the first version, computed from the
\* facts it is recorded with (prepare_plans).
Record ==
    /\ plans = <<>> /\ now < Horizon
    /\ \E o \in {p \in Offers : p.at >= now} :
        /\ plans' = <<NewPlan({}, needed({}, o, now), facts, wishes, FALSE, 0)>>
        /\ ops' = <<NewOp(o)>>
    /\ job' = Published(1)
    /\ UNCHANGED <<now, facts, wishes, usage, lock, work, events>>

\* approve_locked(): the budget grant and the consent that relies on it.
Approve ==
    /\ plans # <<>>
    /\ LET v == Latest
           p == plans[v] IN
        /\ p.status = "proposed" /\ fresh(v)
        /\ plans' = [plans EXCEPT ![v] = [p EXCEPT !.status = "approved", !.approver = TRUE,
                                                   !.agreed = p.asked,
                                                   !.allocations = allocate(p, v)]]
        /\ usage' = usage + reservation(p)
    /\ UNCHANGED <<now, facts, wishes, ops, job, lock, work, events>>

\* commit_mutation(cancel_plan) on the plan a member is shown; HouseholdTools
\* refuses it for a version that is over.
Cancel ==
    /\ plans # <<>> /\ plans[Latest].status \notin TERMINAL
    /\ job' = [job EXCEPT !.state = "cancelled", !.retry = 0]
    /\ ops' = stop_unstarted(ops, Latest, "cancelled")
    /\ plans' = [plans EXCEPT ![Latest].status = "abandoned"]
    /\ UNCHANGED <<now, facts, wishes, usage, lock, work, events>>

\* A member's explicit wish about the plan in force.
Wish ==
    /\ plans # <<>> /\ plans[Latest].status \notin TERMINAL
    /\ Event
    /\ queue(Latest, ops, "member", TRUE, -1)
    /\ UNCHANGED <<now, usage, lock, work>>

\* commit(request): says nothing new while it is queued already.
Request ==
    /\ Wish /\ UNCHANGED facts
    /\ wishes' = IF Known("member", TRUE, -1) THEN wishes ELSE wishes + 1

\* commit(inputs), or commit_constraint with invalidate_all: the facts change
\* with the wish.
Update == Wish /\ facts' = facts + 1 /\ wishes' = wishes + 1

\* A write to the graph or the policy by any other service.
Change ==
    /\ Event /\ facts' = facts + 1
    /\ UNCHANGED <<now, wishes, plans, ops, job, usage, lock, work>>

\* RefreshService.read and HouseholdTools.plan detect before they answer.
Read ==
    /\ plans # <<>> /\ plans[Latest].status \notin TERMINAL
    /\ detect(Latest, facts)
    /\ UNCHANGED <<now, facts, wishes, usage, lock, work, events>>

Tick ==
    /\ now < Horizon /\ now' = now + 1
    /\ UNCHANGED <<facts, wishes, plans, ops, job, usage, lock, work, events>>

-----------------------------------------------------------------------------
(* The openings, as far as plans depend on them.                           *)

\* execution_authority() in the transaction that claims the opening.
Open(v) ==
    /\ ops[v].status = "scheduled" /\ ops[v].at <= now /\ ~expired(ops[v])
    /\ plans[v].status = "approved" /\ plans[v].approver /\ fresh(v)
    /\ ops' = [ops EXCEPT ![v].status = "executing"]
    /\ UNCHANGED <<now, facts, wishes, plans, job, usage, lock, work, events>>

Outcome(v) ==
    /\ ops[v].status = "executing"
    /\ \E s \in {"verified", "failing"} : ops' = [ops EXCEPT ![v].status = s]
    /\ UNCHANGED <<now, facts, wishes, plans, job, usage, lock, work, events>>

\* hold() after a failure, and in the transaction that skips a late opening.
Hold(v) ==
    /\ \/ ops[v].status = "failing"
       \/ ops[v].status = "scheduled" /\ expired(ops[v])
    /\ queue(v, [ops EXCEPT ![v].status = IF @ = "failing" THEN "failed" ELSE "skipped"],
             "operation", FALSE, -1)
    /\ UNCHANGED <<now, facts, wishes, usage, lock, work, events>>

\* The ending of an opening is verified.
End(v) ==
    /\ Attempted(ops[v]) /\ ops[v].stop <= now /\ ~ops[v].ended
    /\ ops' = [ops EXCEPT ![v].ended = TRUE]
    /\ UNCHANGED <<now, facts, wishes, plans, job, usage, lock, work, events>>

\* complete_plan()
Complete(v) ==
    /\ plans[v].status = "approved" /\ now = Horizon
    /\ ops[v].status = "verified" /\ ops[v].ended
    /\ plans' = [plans EXCEPT ![v].status = "completed"]
    /\ UNCHANGED <<now, facts, wishes, ops, job, usage, lock, work, events>>

-----------------------------------------------------------------------------
(* The refresh worker: batch, poll, run, block.                            *)

Goto(w, step) == work' = [work EXCEPT ![w].pc = step]
\* The worker returns, or an exception ends the batch: the lock is released.
Leave(w) == work' = [work EXCEPT ![w] = Idle] /\ lock' = IF lock = w THEN Nobody ELSE lock
\* A ValueError inside run() blocks the job, any other error is transient.
Fails(w, transient) ==
    work' = [work EXCEPT ![w] = [Idle EXCEPT !.pc = "block", !.plan = work[w].plan,
                                             !.generation = work[w].generation,
                                             !.transient = transient]]

\* schedule(): the openings of a plan become due at their times.
schedule(v) == [ops EXCEPT ![v].status = "scheduled"]

\* batch() takes the lock, then schedule_approved(): consent is followed by the
\* schedule, once; a plan whose opening is too late by then is refreshed under
\* the same consent.  If schedule() finds other work in the way it raises, and
\* the batch ends with nothing changed.
Batch(w) ==
    /\ work[w].pc = "idle" /\ lock = Nobody /\ plans # <<>>
    /\ lock' = w /\ Goto(w, "poll")
    /\ IF plans[Latest].status = "approved" /\ ops[Latest].status = "proposed"
       THEN IF expired(ops[Latest])
            THEN queue(Latest, [ops EXCEPT ![Latest].status = "skipped"], "late", FALSE, -1)
            ELSE /\ ops' = schedule(Latest)
                 /\ UNCHANGED <<plans, job>>
       ELSE UNCHANGED <<plans, ops, job>>
    /\ UNCHANGED <<now, facts, wishes, usage, events>>

Polling(w) == work[w].pc \in {"poll", "repoll"}
AfterPoll(w) == IF work[w].pc = "poll" THEN "list" ELSE "publish"

\* poll(): what the devices report is ingested with a detect in one
\* transaction; changed prices, weather or calendar replace the inputs.
Ingest(w) ==
    /\ Polling(w) /\ plans[Latest].status \notin TERMINAL
    /\ Event /\ facts' = facts + 1
    /\ \/ detect(Latest, facts')
       \/ queue(Latest, ops, "feeds", FALSE, facts')
    /\ UNCHANGED <<now, wishes, usage, lock, work>>

\* poll() with every read answered: a plan held for failed reads is asked for
\* again, then detect.  A plan that ended meanwhile raises, which ends the
\* batch, or run() in its own poll.
Poll(w) ==
    /\ Polling(w)
    /\ IF plans[Latest].status \in TERMINAL
       THEN /\ UNCHANGED <<plans, ops, job>>
            /\ \/ Goto(w, AfterPoll(w)) /\ UNCHANGED lock     \* it was not listed
               \/ work[w].pc = "poll" /\ Leave(w)
               \/ work[w].pc = "repoll" /\ Fails(w, FALSE) /\ UNCHANGED lock
       ELSE IF job.why = "reads"
       THEN queue(Latest, ops, "recovered", FALSE, -1) /\ UNCHANGED <<lock, work>>
       ELSE detect(Latest, facts) /\ Goto(w, AfterPoll(w)) /\ UNCHANGED lock
    /\ UNCHANGED <<now, facts, wishes, usage, events>>

\* poll_failure(): a failed read holds the plan, unless it does already.
ReadsFail(w) ==
    /\ Polling(w) /\ plans[Latest].status \notin TERMINAL
    /\ Event
    /\ IF job.why = "reads" /\ (job.state = "blocked" \/ job.retry > now)
       THEN UNCHANGED <<plans, ops, job>> /\ Goto(w, AfterPoll(w))
       ELSE /\ queue(Latest, ops, "reads", FALSE, -1)
            /\ Goto(w, "unread")
    /\ UNCHANGED <<now, facts, wishes, usage, lock>>

\* block() for reason why: nothing if the generation moved on; retried later
\* while the horizon lasts, if the fault was transient.  The command may be
\* refused, as it always is for a plan that is over: that blocks the lineage's
\* job as well, even if a replacement has taken it over.
blocked(v, generation, transient, why) ==
    LET refused == [job EXCEPT !.state = "blocked", !.retry = 0, !.why = "planning"]
    IN
    IF job.generation # generation \/ job.state = "cancelled"
    THEN UNCHANGED job
    ELSE \/ job' = refused
         \/ plans[v].status \notin TERMINAL /\ job' = [refused EXCEPT !.why = why]
         \/ /\ plans[v].status \notin TERMINAL /\ transient
            /\ \E r \in (now + 1)..(Horizon - 1) :
                job' = [job EXCEPT !.state = "queued", !.retry = r, !.why = why]

\* poll_failure() goes on to block(), unless the generation moves on between
\* the two; the batch then lists the jobs, or run() goes on to publish.
Unread(w) ==
    /\ work[w].pc = "unread" /\ Goto(w, IF work[w].plan = 0 THEN "list" ELSE "publish")
    /\ \/ \E transient \in BOOLEAN : blocked(Latest, job.generation, transient, "reads")
       \/ UNCHANGED job
    /\ UNCHANGED <<now, facts, wishes, plans, ops, usage, lock, events>>

\* (mutant) a job that was being computed when its worker stopped is not listed.
ReadyQueued == job.state = "queued" /\ job.retry <= now

\* batch(): a restart takes over what was running.
Ready == job.state \in {"queued", "running"} /\ job.retry <= now

List(w) ==
    /\ work[w].pc = "list"
    /\ IF Ready
       THEN /\ work' = [work EXCEPT ![w] = [@ EXCEPT !.pc = "start", !.plan = job.plan,
                                                     !.generation = job.generation]]
            /\ UNCHANGED lock
       ELSE Leave(w)
    /\ UNCHANGED <<now, facts, wishes, plans, ops, job, usage, events>>

\* run(), first transaction: the generation is claimed and the facts and the
\* actions rows are read.  A refused claim rolls back and blocks.
Start(w) ==
    LET k == work[w] IN
    /\ k.pc = "start"
    /\ \/ /\ job.state \in {"queued", "running"} /\ job.generation = k.generation
          /\ plans[k.plan].status \notin TERMINAL
          /\ job' = [job EXCEPT !.state = "running"]
          /\ work' = [work EXCEPT ![w] = [k EXCEPT !.pc = "compute", !.before = facts,
                                                   !.asked = wishes, !.rows = ops, !.at = now]]
          /\ UNCHANGED lock
       \/ /\ job.state \in {"queued", "running"} /\ job.generation = k.generation
          /\ Fails(w, FALSE) /\ UNCHANGED <<job, lock>>
       \/ /\ ~(job.state \in {"queued", "running"} /\ job.generation = k.generation)
          /\ Leave(w) /\ UNCHANGED job
    /\ UNCHANGED <<now, facts, wishes, plans, ops, usage, events>>

\* outstanding(): an ending that is overdue, an outcome that is unknown.
Unsettled(rows, at) ==
    \E v \in DOMAIN rows :
        /\ Attempted(rows[v]) /\ ~rows[v].ended
        /\ rows[v].stop <= at \/ rows[v].status # "verified"

\* bind_result(): what the solver may propose from an instant on, bound to the
\* household's devices.
bind_result(at) == {o \in Offers : o.at >= at}

\* outstanding(), coordinate(), bind_result() outside any transaction.
Compute(w) ==
    LET k == work[w] IN
    /\ k.pc = "compute"
    /\ \/ /\ ~Unsettled(k.rows, k.at) /\ k.at < Horizon
          /\ \E o \in bind_result(k.at) :
                work' = [work EXCEPT ![w] = [k EXCEPT !.pc = "repoll", !.offer = o]]
       \/ \E transient \in BOOLEAN : Fails(w, transient)
    /\ UNCHANGED <<now, facts, wishes, plans, ops, job, usage, lock, events>>

\* run(), second transaction: nothing moved while the plan was computed.
Unmoved(k) ==
    /\ job.state = "running" /\ job.generation = k.generation /\ job.plan = k.plan
    /\ plans[k.plan].status = "refreshing"
    /\ facts = k.before

\* (mutant) consent is inherited whatever was asked for.
InheritsAlways(p) == p.approver

\* Consent to a plan covers a replacement nobody asked for explicitly.
Inherits(p) == p.approver /\ ~job.explicit

\* revise_plan with the transferred reservation, and the consent it inherits:
\* one transaction.
Replace(k) ==
    LET old == plans[k.plan]
        v == Latest + 1
        kept == retained(old, k.rows)
        new == NewPlan(kept, needed(kept, k.offer, k.at), k.before, k.asked,
                       Inherits(old), IF Inherits(old) THEN old.agreed ELSE 0)
        released == Total(old.allocations) - Total(kept)
    IN  /\ plans' = Append([plans EXCEPT ![k.plan].status = "superseded"],
                           IF Inherits(old)
                           THEN [new EXCEPT !.status = "approved", !.allocations = allocate(new, v)]
                           ELSE new)
        /\ usage' = usage - released + IF Inherits(old) THEN reservation(new) ELSE 0
        /\ ops' = Append(stop_unstarted(ops, k.plan, "cancelled"), NewOp(k.offer))
        /\ job' = Published(v)

\* run(), second transaction.  An opening that expired meanwhile starts a new
\* generation; a refused revision, budget or consent rolls everything back.
Publish(w) ==
    LET k == work[w] IN
    /\ k.pc = "publish"
    /\ IF ~Unmoved(k)
       THEN Leave(w) /\ UNCHANGED <<plans, ops, job, usage>>
       ELSE IF now < Horizon /\ expired(k.offer)
       THEN /\ job' = [job EXCEPT !.state = "queued", !.generation = job.generation + 1,
                                  !.reasons = @ \cup {"late"}, !.retry = 0, !.why = "none"]
            /\ Leave(w) /\ UNCHANGED <<plans, ops, usage>>
       ELSE \/ now < Horizon /\ Latest < MaxVersions /\ Replace(k) /\ Leave(w)
            \/ Fails(w, FALSE) /\ UNCHANGED <<plans, ops, job, usage, lock>>
    /\ UNCHANGED <<now, facts, wishes, events>>

Block(w) ==
    LET k == work[w] IN
    /\ k.pc = "block" /\ Leave(w)
    /\ blocked(k.plan, k.generation, k.transient, "planning")
    /\ UNCHANGED <<now, facts, wishes, plans, ops, usage, events>>

\* The process stops; or the session with the lock drops and the worker goes on.
Crash(w) ==
    /\ work[w].pc # "idle" /\ Event
    /\ \/ Leave(w)
       \/ lock = w /\ lock' = Nobody /\ UNCHANGED work
    /\ UNCHANGED <<now, facts, wishes, plans, ops, job, usage>>

Step(w) ==
    \/ Batch(w) \/ Poll(w) \/ Unread(w) \/ List(w)
    \/ Start(w) \/ Compute(w) \/ Publish(w) \/ Block(w)

Next ==
    \/ Record \/ Approve \/ Cancel \/ Request \/ Update \/ Change \/ Read \/ Tick
    \/ \E v \in DOMAIN plans : Open(v) \/ Outcome(v) \/ Hold(v) \/ End(v) \/ Complete(v)
    \/ \E w \in Workers : Step(w) \/ Ingest(w) \/ ReadsFail(w) \/ Crash(w)

\* The worker loop runs a batch again and again, and time passes.
Fairness == WF_vars(Tick) /\ \A w \in Workers : WF_vars(Step(w))

Spec == Init /\ [][Next]_vars /\ Fairness

-----------------------------------------------------------------------------
(* Properties.                                                             *)

\* The grants of a lineage minus what was released are what its current
\* version holds: no replacement loses or doubles a reservation (budget.py).
ReservationsAccount == plans # <<>> => usage = Total(plans[Latest].allocations)

\* Until an opening is known to have ended, the current version keeps the
\* shares of its intervals, although the rows transfer() is given were read
\* before the replacement was computed (budget.py:55, refresh_worker.py:395).
CommittedIsReserved ==
    \A v \in DOMAIN plans :
        Attempted(ops[v]) /\ ~ops[v].ended =>
            {s \in plans[v].allocations : s.t < ops[v].stop} \subseteq plans[Latest].allocations

\* What is reserved is what the household is committed to, no less and no more.
BudgetKept == ReservationsAccount /\ CommittedIsReserved

\* An opening is claimed only under the version computed from the facts of
\* that moment, whatever was recomputed, queued or read meanwhile (plans.py:91).
OpenedOnCurrentFacts ==
    [][\A v \in DOMAIN ops :
        ~Attempted(ops[v]) /\ Attempted(ops'[v]) => v = Latest /\ plans[v].basis = facts]_vars

\* A version in force answers only requests a member's consent covers: what
\* was asked for explicitly is approved by a member before it runs
\* (plans.py:687, refresh_worker.py:545).
ExplicitNeedsConsent ==
    \A v \in DOMAIN plans :
        plans[v].status = "approved" => plans[v].agreed = plans[v].asked

\* A refresh that was asked for is published, blocked or cancelled, although
\* workers stop and inputs move while it is computed (refresh_worker.py:255).
RefreshResolves ==
    (job.state \in {"queued", "running"}) ~> (job.state \in {"idle", "blocked", "cancelled"})
=============================================================================
