------------------------------ MODULE Executor -------------------------------
(***************************************************************************)
(* The execution worker (hirz/executor/service.py, storage.py, twin.py and *)
(* the claim and outcome of hirz/pipeline/service.py): sweeps that run due *)
(* operations one by one, the claim that comes before every effect, the    *)
(* ending committed with the claim of a bounded opening, the failure path  *)
(* with its single retry, and the holds that stop the rest of a plan.      *)
(*                                                                         *)
(* One database transaction, one device request, one crash is one step.    *)
(* Sweeps are exclusive through a session-level advisory lock; a worker    *)
(* whose session drops loses the lock and may go on without it.            *)
(*                                                                         *)
(* Abstractions: how a decision is reached (Approvals) is a choice; one    *)
(* plan, whose replacement by a refresh is not modelled.                   *)
(* An instant is longer than a claim and the request that follows it.      *)
(***************************************************************************)
EXTENDS Integers, FiniteSets

CONSTANTS
    Actions,        \* action ids
    Targets,        \* device entities
    Workers,        \* worker processes sharing the database
    Situations,     \* what a household has to run, and the faults it meets
    Nobody,         \* the advisory lock is free; a worker runs nothing
    Rest            \* a device no opening holds

\* An operation is an opening, its retry, or the ending of either.
AnyOp == [of : Actions, retry : BOOLEAN, ending : BOOLEAN]

ASSUME ExecutorAssumption ==
    /\ Nobody \notin Workers /\ Nobody \notin AnyOp /\ Rest \notin Actions
    /\ \A s \in Situations :
        /\ s.openings \subseteq Actions
        /\ s.target \in [s.openings -> Targets]
        /\ {s.start, s.deadline, s.stop} \subseteq [s.openings -> Nat]
        /\ {s.bounded, s.twin, s.planned, s.once, s.refusable} \subseteq SUBSET s.openings
        /\ s.doors \subseteq s.bounded \cap s.twin
        \* A lock takes no other bounded command: it has no state that inverse()
        \* could return one to (contracts.py:176).
        /\ \A a, b \in s.bounded : s.target[a] = s.target[b] => (a \in s.doors <=> b \in s.doors)
        /\ \A a \in s.openings : s.start[a] < s.deadline[a]
        /\ \A a \in s.bounded : s.start[a] < s.stop[a]
        /\ \A a \in s.bounded \ s.doors : s.deadline[a] <= s.stop[a]
        /\ {s.time, s.horizon, s.crash, s.drop, s.change} \subseteq Nat

VARIABLES
    given,      \* the situation, fixed from the start
    overlapped, \* (history) resume() scheduled an opening in the way of another
    clock,
    lock,       \* holder of pg_try_advisory_lock
    row,        \* actions rows, by operation
    tries,      \* retries created, per opening (rows with retry_of)
    device,     \* per target: Rest, or the opening in force
    asked,      \* how often a device was asked to perform an operation
    plan,       \* the plan's status and the freshness of its inputs
    asking,     \* the operation whose approval the plan awaits
    pc,         \* where each worker is
    op,         \* the operation it runs
    seen,       \* the row as it last read it
    asof,       \* the instant its sweep listed what is due
    crashes, drops, changes

past == <<given, overlapped>>
local == <<pc, op, seen, asof>>
bounds == <<crashes, drops, changes>>
vars == <<past, clock, lock, row, tries, device, asked, plan, asking, local, bounds>>

\* The openings: queued actions with a window [Start, Deadline), bounded ones with
\* a Stop.  A target is a digital twin or of Home Assistant (HA).
Openings == given.openings
TargetOf == given.target
Start == given.start            \* scheduled_for
Deadline == given.deadline      \* first instant expired() holds
Stop == given.stop              \* scheduled_for + revert.after_s
Bounded == given.bounded        \* openings with a revert
Twin == given.twin              \* openings of a twin
Doors == given.doors            \* door unlocks: bounded, always asked for
Planned == given.planned        \* openings of the household's plan
Once == given.once              \* never retried (appliance_start)
\* Openings whose claim may be refused for what lies outside this model: the
\* account, the binding, the approval, a grant more than 10 s old.
Refusable == given.refusable

Op == [of : Openings, retry : BOOLEAN, ending : BOOLEAN]
First(a) == [of |-> a, retry |-> FALSE, ending |-> FALSE]
RetryOf(o) == [o EXCEPT !.retry = TRUE]
EndingOf(o) == [o EXCEPT !.ending = TRUE]

\* (mutant) only work that was never attempted is listed.
RunnableUnattempted == {"scheduled"}

\* The rows a sweep lists.
Runnable == {"scheduled", "executing", "dispatched"}
Stopped == {"cancelled", "skipped", "held"}
Statuses == {"none", "verified", "failed"} \cup Runnable \cup Stopped
Row == [status : Statuses, attempt : BOOLEAN, granted : BOOLEAN, due : Nat]
NoRow == [status |-> "none", attempt |-> FALSE, granted |-> FALSE, due |-> 0]
\* status: consented to (or active), paused for an approval, held for a refresh,
\* completed, cancelled or superseded; idle: no refresh job is under way; match: the facts
\* and the approver's standing are those the plan was consented to with.
Plan == [status : {"approved", "awaiting", "refreshing", "completed", "abandoned"},
         idle : BOOLEAN, match : BOOLEAN]
Terminal == {"completed", "abandoned"}
Steps == {"idle", "sweep", "run", "redeem", "denied", "ask", "claim", "dispatch", "post",
          "late", "posted", "outcome", "recheck", "fail", "read", "retry",
          "hold", "complete"}

\* Type invariant of the actions table, the devices and the workers.
TypeOK ==
    /\ given \in Situations /\ overlapped \in BOOLEAN
    /\ clock \in Nat
    /\ lock \in Workers \cup {Nobody}
    /\ row \in [Op -> Row]
    /\ tries \in [Openings -> Nat]
    /\ device \in [Targets -> Openings \cup {Rest}]
    /\ asked \in [Op -> Nat]
    /\ plan \in Plan
    /\ asking \in Op \cup {Nobody}
    /\ pc \in [Workers -> Steps]
    /\ op \in [Workers -> Op \cup {Nobody}]
    /\ seen \in [Workers -> Row]
    /\ asof \in [Workers -> Nat]
    /\ crashes \in Nat /\ drops \in Nat /\ changes \in Nat

Init ==
    /\ given \in Situations /\ overlapped = FALSE
    /\ clock = 0 /\ lock = Nobody
    /\ row = [o \in Op |-> NoRow]
    /\ tries = [a \in Openings |-> 0]
    /\ device = [t \in Targets |-> Rest]
    /\ asked = [o \in Op |-> 0]
    /\ plan = [status |-> "approved", idle |-> TRUE, match |-> TRUE]
    /\ asking = Nobody
    /\ pc = [w \in Workers |-> "idle"]
    /\ op = [w \in Workers |-> Nobody]
    /\ seen = [w \in Workers |-> NoRow]
    /\ asof = [w \in Workers |-> 0]
    /\ crashes = 0 /\ drops = 0 /\ changes = 0

-----------------------------------------------------------------------------
Target(o) == TargetOf[o.of]
Expired(o) == clock >= Deadline[o.of]
Due(o) == row[o].status \in Runnable /\ row[o].due <= clock

\* transition(): the status is written whatever it was before.
SetStatus(o, s) == row' = [row EXCEPT ![o].status = s]

\* fresh() of refresh.py, and execution_authority: the plan authorizes a dispatch.
Fresh == plan.idle /\ plan.match
Authorized(o) == o.of \in Planned => plan.status = "approved" /\ Fresh

\* Bounded work on one target, from s to Stop[a] and from t to Stop[b].
Overlap(a, s, b, t) ==
    /\ a # b /\ {a, b} \subseteq Bounded /\ TargetOf[a] = TargetOf[b]
    /\ t < Stop[a] /\ s < Stop[b]

\* (mutant) a failed opening whose ending is still to come is not in the way.
NoOverlapButFailed(a, s) ==
    \A p \in Op : ~ /\ ~p.ending /\ Overlap(a, s, p.of, row[p].due)
                    /\ row[p].status \in Runnable

\* check_overlaps: what was stopped before it began, or has verifiably ended, is
\* not in the way; neither is an opening in the way of its own retry.
NoOverlap(a, s) ==
    \A p \in Op : ~ /\ ~p.ending /\ Overlap(a, s, p.of, row[p].due)
                    /\ row[p].status \notin Stopped \cup {"none"}
                    /\ row[EndingOf(p)].status # "verified"

Queued(due) == [NoRow EXCEPT !.status = "scheduled", !.due = due]

\* enqueue() of a single request, by any process.
Enqueue(a) ==
    /\ a \notin Planned /\ row[First(a)].status = "none" /\ clock < Deadline[a]
    /\ NoOverlap(a, Start[a])
    /\ row' = [row EXCEPT ![First(a)] = Queued(Start[a])]
    /\ UNCHANGED <<past, clock, lock, tries, device, asked, plan, asking, local, bounds>>

\* stop_unstarted: openings and retries of the plan that were never claimed.
\* Endings are not rows of the plan.
Unstarted(table, o) ==
    /\ o.of \in Planned /\ ~o.ending /\ ~table[o].attempt
    /\ table[o].status # "skipped"
    /\ o.retry => table[o].status # "none"

StopUnstarted(table, s) ==
    [o \in Op |-> IF Unstarted(table, o) THEN [table[o] EXCEPT !.status = s] ELSE table[o]]

\* queue(): the refresh of a plan holds what never started.
Refreshing == [plan EXCEPT !.status = "refreshing", !.idle = FALSE]

\* hold(): for planned work, stop the rest of the plan and ask for a refresh,
\* unless the plan is over already.
Hold(o, table) ==
    /\ UNCHANGED asking
    /\ IF o.of \in Planned /\ plan.status \notin Terminal
       THEN row' = StopUnstarted(table, "held") /\ plan' = Refreshing
       ELSE row' = table /\ UNCHANGED plan

-----------------------------------------------------------------------------
(* One sweep of one worker.                                                *)

\* What run() and sweep() hold in local variables is gone when they return.
Goto(w, step) ==
    /\ pc' = [pc EXCEPT ![w] = step]
    /\ op' = IF step \in {"sweep", "idle"} THEN [op EXCEPT ![w] = Nobody] ELSE op
    /\ seen' = IF step \in {"sweep", "idle"} THEN [seen EXCEPT ![w] = NoRow] ELSE seen
    /\ asof' = IF step = "idle" THEN [asof EXCEPT ![w] = 0] ELSE asof

\* run() ends with complete_plan.
Finish(w) == Goto(w, IF op[w].of \in Planned THEN "complete" ELSE "sweep")

Release(w) == lock' = IF lock = w THEN Nobody ELSE lock

\* The sweep ends: the lock is released on whatever session there is.
Leave(w) == Goto(w, "idle") /\ Release(w)

StartSweep(w) ==
    /\ pc[w] = "idle" /\ lock = Nobody
    /\ lock' = w /\ pc' = [pc EXCEPT ![w] = "sweep"]
    /\ asof' = [asof EXCEPT ![w] = clock]
    /\ UNCHANGED <<past, clock, row, tries, device, asked, plan, asking, op, seen, bounds>>

Pick(w, o, as) ==
    /\ op' = [op EXCEPT ![w] = o] /\ seen' = [seen EXCEPT ![w] = as]
    /\ pc' = [pc EXCEPT ![w] = "run"]
    /\ UNCHANGED <<past, clock, lock, row, tries, device, asked, plan, asking, asof, bounds>>

\* Due endings come first; their rows are used as the list returned them, which
\* is out of date only when the lock was lost.
PickEnding(w, o) ==
    /\ pc[w] = "sweep" /\ o.ending
    /\ \/ Due(o) /\ Pick(w, o, row[o])
       \/ /\ lock # w /\ row[o].status # "none" /\ row[o].due <= asof[w]
          /\ \/ Pick(w, o, [row[o] EXCEPT !.status = "scheduled", !.attempt = FALSE])
             \/ row[o].attempt /\ Pick(w, o, [row[o] EXCEPT !.status = "executing"])

\* schedule_approved: the openings of a consented plan are queued together; if
\* one came too late it is skipped, and a refresh of the plan holds the others.
SchedulePlan(w) ==
    LET todo == {a \in Planned : row[First(a)].status = "none"}
        late == {a \in todo : Expired(First(a))}
        table == [o \in Op |-> IF o \notin {First(a) : a \in todo} THEN row[o]
                               ELSE IF o.of \in late
                                    THEN [row[o] EXCEPT !.status = "skipped"]
                                    ELSE Queued(Start[o.of])]
    IN
    /\ pc[w] = "sweep" /\ plan.status = "approved" /\ todo # {}
    /\ \A a \in todo \ late : /\ NoOverlap(a, Start[a])
                              /\ \A b \in todo \ late : ~Overlap(a, Start[a], b, Start[b])
    /\ IF late = {} THEN row' = table /\ UNCHANGED plan
       ELSE row' = StopUnstarted(table, "held") /\ plan' = Refreshing
    /\ UNCHANGED <<past, clock, lock, tries, device, asked, asking, local, bounds>>

\* A sweep begins with the due endings, and before each opening it looks again
\* for the ones still scheduled.
EndingsFirst(w) ==
    \A e \in Op : e.ending /\ row[e].due <= asof[w]
        => row[e].status \notin IF lock = w THEN Runnable ELSE {"scheduled"}

\* An opening is read again when its turn comes.
PickOpening(w, o) ==
    /\ pc[w] = "sweep" /\ ~o.ending
    /\ Due(o) /\ row[o].due <= asof[w] /\ EndingsFirst(w)
    /\ Pick(w, o, row[o])

\* A sweep is over when every due ending was run; one that is not endings_only
\* goes on to the openings.
EndSweep(w) ==
    /\ pc[w] = "sweep" /\ Leave(w)
    /\ lock = w => \A e \in Op : e.ending /\ row[e].due <= asof[w]
                                    => row[e].status \notin Runnable
    /\ UNCHANGED <<past, clock, row, tries, device, asked, plan, asking, bounds>>

\* inverse(): the state to return to is known, and a door is seen locked.
ReadyToAct(o) == o.of \in Doors => device[Target(o)] = Rest

\* run(): work already attempted is never dispatched again, a window that has
\* passed is skipped, an ending goes straight to its claim.  An opening is
\* decided afresh after its device was read, which may fail.
Run(w) ==
    LET o == op[w] IN
    /\ pc[w] = "run"
    /\ \/ seen[w].attempt /\ Goto(w, "fail") /\ UNCHANGED <<row, plan, asking>>
       \/ /\ ~seen[w].attempt /\ ~o.ending /\ Expired(o)
          /\ Hold(o, [row EXCEPT ![o].status = "skipped"])
          /\ Finish(w)
       \/ ~seen[w].attempt /\ o.ending /\ Goto(w, "claim") /\ UNCHANGED <<row, plan, asking>>
       \/ /\ ~seen[w].attempt /\ ~o.ending /\ ~Expired(o)
          /\ (ReadyToAct(o) /\ Goto(w, "redeem")) \/ Goto(w, "recheck")
          /\ UNCHANGED <<row, plan, asking>>
    /\ UNCHANGED <<past, clock, lock, tries, device, asked, bounds>>

\* redeem: a grant is made once per action; asked again, it is refused as used.
\* The rules may also deny, or ask for an approval.
Redeem(w) ==
    LET o == op[w] IN
    /\ pc[w] = "redeem"
    /\ \/ /\ ~row[o].granted /\ Authorized(o)
          /\ \/ row' = [row EXCEPT ![o].granted = TRUE] /\ Goto(w, "claim")
             \/ o.of \in Planned /\ UNCHANGED row /\ Goto(w, "ask")
       \/ UNCHANGED row /\ Goto(w, "denied")
    /\ UNCHANGED <<past, clock, lock, tries, device, asked, plan, asking, bounds>>

Denied(w) ==
    /\ pc[w] = "denied"
    /\ Hold(op[w], [row EXCEPT ![op[w]].status = "held"])
    /\ Goto(w, "sweep")
    /\ UNCHANGED <<past, clock, lock, tries, device, asked, bounds>>

\* await_approval: the plan is paused for the approval that redeem asked for, in
\* a transaction of its own.
AwaitApproval(w) ==
    /\ pc[w] = "ask"
    /\ row' = StopUnstarted([row EXCEPT ![op[w]].status = "held"], "held")
    /\ plan' = [plan EXCEPT !.status = "awaiting"] /\ asking' = op[w]
    /\ Goto(w, "sweep")
    /\ UNCHANGED <<past, clock, lock, tries, device, asked, bounds>>

\* (mutant) the claim trusts the row as the sweep read it.
ClaimableAsSeen(w, o) ==
    /\ ~seen[w].attempt /\ seen[w].status = "scheduled"
    /\ ~o.ending => ~Expired(o) /\ Authorized(o)

\* claim_execution reads the row again: unclaimed, still scheduled, in time,
\* the plan still authorized; an ending needs its opening claimed.
Claimable(w, o) ==
    /\ ~row[o].attempt /\ row[o].status = "scheduled" /\ row[o].due <= clock
    /\ ~o.ending => row[o].granted /\ ~Expired(o) /\ Authorized(o)
    /\ o.ending => row[[o EXCEPT !.ending = FALSE]].attempt

\* A door stays open for its minutes from the claim; other work keeps its stop.
EndingDue(o) == IF o.of \in Doors THEN clock + Stop[o.of] - Start[o.of] ELSE Stop[o.of]

\* (mutant) the ending is authorized only once the opening was verified.
ClaimedAlone(o) == [row EXCEPT ![o].attempt = TRUE, ![o].status = "executing"]

\* The claim and the ending of a bounded opening are one transaction.
Claimed(o) ==
    LET claim == [row EXCEPT ![o].attempt = TRUE, ![o].status = "executing"] IN
    IF o.of \in Bounded /\ ~o.ending
    THEN [claim EXCEPT ![EndingOf(o)] = [Queued(EndingDue(o)) EXCEPT !.granted = TRUE]]
    ELSE claim

Claim(w) ==
    LET o == op[w] IN
    /\ pc[w] = "claim" /\ Claimable(w, o)
    /\ row' = Claimed(o)
    /\ Goto(w, IF o.of \in Twin THEN "dispatch" ELSE "post")
    /\ UNCHANGED <<past, clock, lock, tries, device, asked, plan, asking, bounds>>

\* A refused claim, or a plan that lost its authority, ends the sweep.
ClaimRefused(w) ==
    /\ pc[w] = "claim" /\ Leave(w)
    /\ Claimable(w, op[w]) => ~op[w].ending /\ op[w].of \in Refusable
    /\ UNCHANGED <<past, clock, row, tries, device, asked, plan, asking, bounds>>

\* Before anything is claimed the twin's effect() or the adapter's checks fail;
\* after it the time for the whole twin dispatch may run out.
Unavailable(w) ==
    /\ \/ pc[w] = "claim"
       \/ pc[w] \in {"dispatch", "outcome"} /\ op[w].of \in Twin
    /\ Goto(w, "recheck")
    /\ UNCHANGED <<past, clock, lock, row, tries, device, asked, plan, asking, bounds>>

Perform(o) ==
    /\ asked' = [asked EXCEPT ![o] = @ + 1]
    /\ device' = [device EXCEPT ![Target(o)] = IF o.ending THEN Rest ELSE o.of]

\* twin.execute: status, checkpoint and effect are committed together.
Dispatch(w) ==
    /\ pc[w] = "dispatch"
    /\ SetStatus(op[w], "dispatched") /\ Perform(op[w]) /\ Goto(w, "outcome")
    /\ UNCHANGED <<past, clock, lock, tries, plan, asking, bounds>>

\* HomeAssistant.execute: one request, which may be lost or time out.
Post(w) ==
    /\ pc[w] \in {"post", "late"}
    /\ \/ Perform(op[w])
       \/ UNCHANGED device /\ asked' = [asked EXCEPT ![op[w]] = @ + 1]
    /\ \/ pc[w] = "post" /\ (Goto(w, "posted") \/ Goto(w, "recheck")) /\ UNCHANGED lock
       \/ pc[w] = "late" /\ Leave(w)
    /\ UNCHANGED <<past, clock, row, tries, plan, asking, bounds>>

\* execution_outcome(EXECUTED)
Posted(w) ==
    /\ pc[w] = "posted"
    /\ SetStatus(op[w], "dispatched") /\ Goto(w, "outcome")
    /\ UNCHANGED <<past, clock, lock, tries, device, asked, plan, asking, bounds>>

InForce(o) == device[Target(o)] = IF o.ending THEN Rest ELSE o.of

\* execution_outcome(VERIFIED or VERIFY_FAILED) after the read-back.  The HA
\* read-back may miss an effect, and the adapter then raises; so does a failed
\* update of the household's observations after a verified opening.
Outcome(w) ==
    LET o == op[w] IN
    /\ pc[w] = "outcome"
    /\ \/ /\ InForce(o) /\ SetStatus(o, "verified")
          /\ Finish(w) \/ (~o.ending /\ Goto(w, "recheck"))
       \/ /\ o.of \in Twin => ~InForce(o)
          /\ SetStatus(o, "failed")
          /\ IF o.of \in Twin THEN Finish(w) ELSE Goto(w, "recheck")
    /\ UNCHANGED <<past, clock, lock, tries, device, asked, plan, asking, bounds>>

\* A verified effect only holds the rest of the plan.
AfterRaise(o) == IF row[o].status = "verified" THEN "hold" ELSE "fail"

\* run()'s handler reads the row again.
Recheck(w) ==
    /\ pc[w] = "recheck"
    /\ seen' = [seen EXCEPT ![w] = row[op[w]]]
    /\ pc' = [pc EXCEPT ![w] = AfterRaise(op[w])]
    /\ UNCHANGED <<past, clock, lock, row, tries, device, asked, plan, asking, op, asof, bounds>>

\* failure(): recorded unless the row it was given already says so.
Fail(w) ==
    /\ pc[w] = "fail"
    /\ IF seen[w].status = "failed" THEN row' = row ELSE SetStatus(op[w], "failed")
    /\ Goto(w, "read")
    /\ UNCHANGED <<past, clock, lock, tries, device, asked, plan, asking, bounds>>

\* The actual state decides: a visible miss in time may be retried, a match or
\* an unreadable device is only reported.
ReadActual(w) ==
    LET o == op[w] IN
    /\ pc[w] = "read"
    /\ \/ /\ ~InForce(o) /\ ~o.retry /\ ~o.ending /\ o.of \notin Once /\ ~Expired(o)
          /\ Goto(w, "retry")
       \/ Goto(w, "hold")
    /\ UNCHANGED <<past, clock, lock, row, tries, device, asked, plan, asking, bounds>>

\* retry(): the parent failed, is no retry itself and has none yet.
MayRetry(o) ==
    /\ row[o].status = "failed" /\ ~o.retry /\ tries[o.of] = 0
    /\ o.of \in Bounded => clock < Stop[o.of]

\* retry(): one fresh action for what is left of the window, if the rules let
\* it run without asking, as they never do for a door; otherwise hold, and what
\* was proposed is left unscheduled (no row here).  A refused overlap raises,
\* which ends the sweep.
Retry(w) ==
    LET o == op[w] IN
    /\ pc[w] = "retry"
    /\ \/ /\ MayRetry(o) /\ NoOverlap(o.of, clock) /\ Authorized(o) /\ o.of \notin Doors
          /\ row' = [row EXCEPT ![RetryOf(o)] = Queued(clock)]
          /\ tries' = [tries EXCEPT ![o.of] = @ + 1]
          /\ Finish(w) /\ UNCHANGED lock
       \/ UNCHANGED <<row, tries, lock>> /\ Goto(w, "hold")
       \/ MayRetry(o) /\ ~NoOverlap(o.of, clock) /\ UNCHANGED <<row, tries>> /\ Leave(w)
    /\ UNCHANGED <<past, clock, device, asked, plan, asking, bounds>>

HoldPlan(w) ==
    /\ pc[w] = "hold" /\ Hold(op[w], row) /\ Finish(w)
    /\ UNCHANGED <<past, clock, lock, tries, device, asked, bounds>>

\* (mutant) endings are not looked at.
NothingPendingOpen ==
    \A o \in Op : o.of \in Planned /\ ~o.ending =>
        \/ row[o].status \in {"none", "verified"}
        \/ ~o.retry /\ row[RetryOf(o)].status = "verified"

\* Every row of the plan is verified, endings included, or replaced by a verified
\* retry.
NothingPending ==
    \A o \in Op : o.of \in Planned =>
        \/ row[o].status \in {"none", "verified"}
        \/ ~o.ending /\ ~o.retry /\ row[RetryOf(o)].status = "verified"

\* complete_plan: at the end of its horizon a plan with nothing pending is over.
CompletePlan(w) ==
    /\ pc[w] = "complete" /\ Goto(w, "sweep")
    /\ plan' = IF plan.status = "approved" /\ clock >= given.horizon /\ NothingPending
               THEN [plan EXCEPT !.status = "completed"] ELSE plan
    /\ UNCHANGED <<past, clock, lock, row, tries, device, asked, asking, bounds>>

-----------------------------------------------------------------------------
(* Everything else.                                                        *)

\* The plan is cancelled or superseded: what never started is stopped.
CancelPlan ==
    /\ plan' = [plan EXCEPT !.status = "abandoned", !.idle = FALSE]
    /\ changes < given.change /\ changes' = changes + 1
    /\ row' = StopUnstarted(row, "cancelled")
    /\ UNCHANGED <<past, clock, lock, tries, device, asked, asking, local, crashes, drops>>

\* The facts of the plan or its approver's standing change, and may change back.
Drift ==
    /\ changes < given.change /\ changes' = changes + 1
    /\ plan' = [plan EXCEPT !.match = ~@]
    /\ UNCHANGED <<past, clock, lock, row, tries, device, asked, asking, local, crashes, drops>>

QueueRefresh ==
    /\ plan.status \notin Terminal /\ plan' = Refreshing
    /\ changes < given.change /\ changes' = changes + 1
    /\ row' = StopUnstarted(row, "held")
    /\ UNCHANGED <<past, clock, lock, tries, device, asked, asking, local, crashes, drops>>

\* resume(): with the approval given, still valid and in time, the held openings
\* of the plan are scheduled again, whatever was queued on their devices since
\* (plans.py:566); with an approval no longer valid they stay.
Resume ==
    LET o == asking
        again == {p \in Op : /\ p.of \in Planned /\ ~p.ending
                             /\ row[p].status = "held" /\ ~row[p].attempt}
    IN
    /\ plan.status = "awaiting"
    /\ \/ /\ row[o].status = "held" /\ ~row[o].attempt /\ row[o].due <= clock
          /\ ~Expired(o) /\ Fresh
          /\ row' = [p \in Op |-> IF p \in again THEN [row[p] EXCEPT !.status = "scheduled"]
                                  ELSE row[p]]
          /\ plan' = [plan EXCEPT !.status = "approved"] /\ UNCHANGED asking
          /\ overlapped' = (overlapped \/ \E p \in again : ~NoOverlap(p.of, row[p].due))
       \/ Hold(o, row) /\ UNCHANGED overlapped
    /\ UNCHANGED <<given, clock, lock, tries, device, asked, local, bounds>>

\* A request is answered or given up within an instant; the twin's clock is
\* frozen while it is dispatched to.
Tick ==
    /\ clock < given.time /\ clock' = clock + 1
    /\ \A w \in Workers : pc[w] \notin {"dispatch", "post", "late"}
    /\ UNCHANGED <<past, lock, row, tries, device, asked, plan, asking, local, bounds>>

Crash(w) ==
    /\ pc[w] # "idle" /\ crashes < given.crash /\ crashes' = crashes + 1
    /\ Leave(w)
    /\ UNCHANGED <<past, clock, row, tries, device, asked, plan, asking, drops, changes>>

\* The session is lost, and the lock with it.  A request under way goes on; what
\* run() catches is handled on a new session, without the lock; any other
\* transaction fails and ends the sweep.
Drop(w) ==
    /\ pc[w] # "idle" /\ drops < given.drop /\ drops' = drops + 1
    /\ Release(w)
    /\ \/ pc[w] \in {"post", "late"} /\ Goto(w, "late")
       \/ /\ \/ pc[w] \in {"dispatch", "denied", "ask"}
             \/ pc[w] = "run" /\ ~seen[w].attempt /\ ~op[w].ending /\ ~Expired(op[w])
          /\ Goto(w, "recheck")
       \/ pc[w] \notin {"post", "late", "dispatch", "denied", "ask"} /\ Goto(w, "idle")
    /\ UNCHANGED <<past, clock, row, tries, device, asked, plan, asking, crashes, changes>>

Step(w) ==
    \/ StartSweep(w) \/ SchedulePlan(w) \/ EndSweep(w)
    \/ pc[w] = "sweep" /\ \E o \in Op : PickEnding(w, o) \/ PickOpening(w, o)
    \/ Run(w) \/ Redeem(w) \/ Denied(w) \/ AwaitApproval(w) \/ Claim(w) \/ ClaimRefused(w) \/ Unavailable(w)
    \/ Dispatch(w) \/ Post(w) \/ Posted(w) \/ Outcome(w) \/ Recheck(w)
    \/ Fail(w) \/ ReadActual(w) \/ Retry(w) \/ HoldPlan(w) \/ CompletePlan(w)

Next ==
    \/ \E w \in Workers : Step(w) \/ Crash(w) \/ Drop(w)
    \/ \E a \in Openings : Enqueue(a)
    \/ CancelPlan \/ Drift \/ QueueRefresh \/ Resume \/ Tick

Spec == Init /\ [][Next]_vars

\* The worker loop sweeps for ever and finishes what it starts; a full sweep
\* follows the sweeps for endings only; time passes.
Fairness ==
    /\ \A w \in Workers : WF_vars(Step(w))
    /\ \A w \in Workers : \A o \in AnyOp : SF_vars(o \in Op /\ PickOpening(w, o))
    /\ WF_vars(Tick)

FairSpec == Spec /\ Fairness

-----------------------------------------------------------------------------
(* Properties.                                                             *)

\* No operation is asked of a device twice, through crashes, timeouts, retries
\* and sweeps that lost their lock: claim_execution commits one attempt.
AtMostOneEffect == \A o \in Op : asked[o] <= 1

\* However many sweeps see it fail, an opening is retried once (retry()).
RetryOnce == \A a \in Openings : tries[a] <= 1

\* One request has one effect: neither a dispatch nor a retry is repeated, by
\* whichever sweep (storage.py:318, service.py:78).
OneEffect == AtMostOneEffect /\ RetryOnce

\* A bounded effect in force has a recorded ending that is still to run, or was
\* reported as failed: the ending is committed with the claim.
BoundedUntilEnded ==
    \A a \in Bounded : device[TargetOf[a]] = a =>
        \E o \in Op : /\ o.of = a /\ ~o.ending /\ row[o].attempt
                      /\ row[EndingOf(o)].status \in Runnable \cup {"failed"}

\* No opening reaches its device after its window (expired() in the claim).
NoLateDispatch ==
    [][\A o \in Op : ~o.ending /\ asked'[o] # asked[o] => ~Expired(o)]_vars

\* A scheduled ending is only ever run: no hold or cancellation of the plan, no
\* failure of its opening removes it.
EndingNeverStopped ==
    [][\A e \in Op : e.ending /\ row[e].status = "scheduled"
                        => row'[e].status \notin Stopped \cup {"none"}]_vars

\* While sweeps are exclusive, and until resume() schedules an opening again over
\* what was queued in its way, the ending of one bounded operation never cuts short
\* another one on the same target (check_overlaps, endings before openings).
NextOperationKept ==
    [][\A e \in Op : e.ending /\ asked'[e] # asked[e] /\ drops = 0 /\ ~overlapped
         => device[Target(e)] \notin {b \in Bounded \ (Doors \cup {e.of}) : clock < Stop[b]}]_vars

\* "Overlapping bounded operations are refused" (check_overlaps): of two claimed
\* on one target, one begins when the other must have ended, or did end.
OverlapsRefused ==
    \A p, q \in Op :
        /\ ~p.ending /\ ~q.ending /\ p.of # q.of /\ {p.of, q.of} \subseteq Bounded
        /\ Target(p) = Target(q) /\ row[p].attempt /\ row[q].attempt
        => \/ row[EndingOf(p)].due <= row[q].due \/ row[EndingOf(q)].due <= row[p].due
           \/ "verified" \in {row[EndingOf(p)].status, row[EndingOf(q)].status}

\* While sweeps are exclusive, a door is unlocked only from locked: what run()
\* read before it asked for the grant still holds when the unlock is dispatched.
DoorOpenedFromLocked ==
    [][\A o \in Op : ~o.ending /\ o.of \in Doors /\ asked'[o] # asked[o] /\ drops = 0
                        => device[Target(o)] = Rest]_vars

\* While sweeps are exclusive, evidence that an effect was verified is not
\* overwritten by a later failure.
VerifiedIsFinal ==
    [][\A o \in Op : row[o].status = "verified" /\ drops = 0
                        => row'[o].status = "verified"]_vars

\* What no step does to another operation: dispatch it late or over an unlocked
\* door, remove its ending, end it early, or take back that it was verified.
StepsKeep ==
    /\ NoLateDispatch /\ DoorOpenedFromLocked
    /\ EndingNeverStopped /\ NextOperationKept /\ VerifiedIsFinal

\* While sweeps are exclusive, a plan that is reported completed has left nothing
\* in force that it was to end (complete_plan).
CompletedLeavesNothing ==
    plan.status = "completed" /\ drops = 0
        => \A a \in Planned \cap Bounded : device[TargetOf[a]] # a

\* Whatever was claimed, and every authorized ending, is eventually verified or
\* reported as failed, also when a crash came between the claim and the outcome.
EveryOperationResolved ==
    \A o \in AnyOp :
        /\ o \in Op
        /\ \/ row[o].status \in {"executing", "dispatched"}
           \/ o.ending /\ row[o].status = "scheduled"
        ~> o \in Op /\ row[o].status \in {"verified", "failed"}

\* "A cancellation/revision in between ... cannot revive the old plan"
\* (PlanService.respond_to_action): no step brings an abandoned plan back.
CancelIsFinal == [][plan.status = "abandoned" => plan'.status = "abandoned"]_vars

\* What sweep() promises when a plan changed between the grant and the claim:
\* the opening is evaluated afresh, not refused because of its own grant.
ReevaluatedAfresh == \A w \in Workers : pc[w] = "denied" => ~row[op[w]].granted
=============================================================================
