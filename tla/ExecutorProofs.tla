---------------------------- MODULE ExecutorProofs ----------------------------
(***************************************************************************)
(* What the execution worker keeps for every set of workers, actions and   *)
(* situations: no operation is asked of a device twice and none is retried *)
(* twice, a bounded effect in force has its ending, and what one sweep at  *)
(* a time adds to that.                                                    *)
(*                                                                         *)
(* The invariant says what an operation's row and a worker's place in      *)
(* run() say of each other.  Its heart is OneHolder: a row is claimed once,*)
(* so that between a claim and its request one worker stands alone.        *)
(***************************************************************************)
EXTENDS Executor, TLAPS

\* w claimed its operation and is about to ask the device.
Holding(w) == pc[w] \in {"dispatch", "post", "late"}

\* w runs an operation.
Busy(w) == pc[w] \notin {"idle", "sweep"}

Opening(o) == [o EXCEPT !.ending = FALSE]

\* What rows say: of an attempt, of an opening by its ending, of a retry.
RowsKnow ==
    \A o \in Op :
        /\ asked[o] > 0 => row[o].attempt
        /\ row[o].attempt => row[o].status # "none"
        /\ row[o].status = "verified" => row[o].attempt
        /\ o.ending /\ row[o].status # "none" => row[Opening(o)].attempt
        /\ o.retry /\ ~o.ending /\ tries[o.of] = 0 => row[o].status = "none"

\* What a worker knows of the operation it runs.
Knows(w) ==
    /\ asof[w] <= clock
    /\ Busy(w) => /\ op[w] \in Op
                  /\ row[op[w]].status # "none" /\ row[op[w]].due <= clock
    /\ pc[w] \in {"redeem", "denied", "ask"} => ~op[w].ending
    /\ pc[w] = "retry" => ~op[w].ending /\ ~op[w].retry
    /\ pc[w] \in {"posted", "outcome"} => row[op[w]].attempt
    /\ pc[w] \in {"post", "late"} => op[w].of \notin Twin

\* A claimed opening is in its window, and its ending is still to come.
Claiming(w) ==
    Holding(w) =>
        /\ row[op[w]].attempt /\ asked[op[w]] = 0
        /\ ~op[w].ending =>
              /\ ~Expired(op[w])
              /\ op[w].of \in Bounded =>
                    /\ row[EndingOf(op[w])].status = "scheduled"
                    /\ row[EndingOf(op[w])].due > clock

OneHolder ==
    \A v, w \in Workers : Holding(v) /\ Holding(w) /\ op[v] = op[w] => v = w

\* Until a session is lost, one worker at a time sweeps, no operation it runs was
\* verified, a door it is to unlock is locked, and a completed plan runs nothing.
Exclusive ==
    drops = 0 =>
        \A w \in Workers :
            /\ pc[w] # "idle" => lock = w
            /\ pc[w] # "late"
            /\ pc[w] \in {"run", "redeem", "denied", "ask", "claim", "dispatch",
                          "post", "posted", "outcome", "fail"}
                  => row[op[w]].status # "verified"
            /\ pc[w] \in {"redeem", "claim", "dispatch"} /\ op[w].of \in Doors
                  /\ ~op[w].ending => device[Target(op[w])] = Rest
            /\ plan.status = "completed" /\ Holding(w) /\ ~op[w].ending
                  => op[w].of \notin Planned

Inv ==
    /\ TypeOK
    /\ RowsKnow
    /\ \A w \in Workers : Knows(w) /\ Claiming(w)
    /\ OneHolder
    /\ OneEffect
    /\ BoundedUntilEnded
    /\ Exclusive
    /\ CompletedLeavesNothing

-----------------------------------------------------------------------------
(* Situations, operations and rows.                                        *)

LEMMA GivenFacts ==
    ASSUME TypeOK
    PROVE  /\ Openings \subseteq Actions /\ TargetOf \in [Openings -> Targets]
           /\ Start \in [Openings -> Nat] /\ Deadline \in [Openings -> Nat]
           /\ Stop \in [Openings -> Nat]
           /\ Bounded \subseteq Openings /\ Twin \subseteq Openings
           /\ Planned \subseteq Openings /\ Doors \subseteq Bounded \cap Twin
           /\ \A a \in Openings : Start[a] < Deadline[a]
           /\ \A a \in Bounded : Start[a] < Stop[a]
           /\ \A a \in Bounded \ Doors : Deadline[a] <= Stop[a]
<1>1. given \in Situations
      BY DEF TypeOK
<1>2. QED
      BY <1>1, ExecutorAssumption
      DEF Openings, TargetOf, Start, Deadline, Stop, Bounded, Twin, Doors, Planned

\* The situation is fixed.
LEMMA SameGiven ==
    ASSUME [Next]_vars
    PROVE  /\ given' = given /\ Openings' = Openings /\ Op' = Op
           /\ TargetOf' = TargetOf /\ Start' = Start /\ Deadline' = Deadline /\ Stop' = Stop
           /\ Bounded' = Bounded /\ Twin' = Twin /\ Doors' = Doors /\ Planned' = Planned
<1>1. given' = given
      <2>1. ASSUME NEW w \in Workers, Step(w)
            PROVE  given' = given
            <3>1. CASE StartSweep(w) \/ SchedulePlan(w) \/ EndSweep(w)
                  BY <3>1 DEF StartSweep, SchedulePlan, EndSweep, past
            <3>2. CASE \E o \in Op : PickEnding(w, o) \/ PickOpening(w, o)
                  BY <3>2 DEF PickEnding, PickOpening, Pick, past
            <3>3. CASE Run(w) \/ Redeem(w) \/ Denied(w) \/ AwaitApproval(w) \/ Claim(w)
                       \/ ClaimRefused(w) \/ Unavailable(w)
                  BY <3>3 DEF Run, Redeem, Denied, AwaitApproval, Claim, ClaimRefused, Unavailable,
                              past
            <3>4. CASE Dispatch(w) \/ Post(w) \/ Posted(w) \/ Outcome(w) \/ Recheck(w) \/ Fail(w)
                       \/ ReadActual(w) \/ Retry(w) \/ HoldPlan(w) \/ CompletePlan(w)
                  BY <3>4 DEF Dispatch, Post, Posted, Outcome, Recheck, Fail, ReadActual, Retry,
                              HoldPlan, CompletePlan, past
            <3>5. QED
                  BY <2>1, <3>1, <3>2, <3>3, <3>4 DEF Step
      <2>2. QED
            BY <2>1 DEF Next, Crash, Drop, Enqueue, CancelPlan, Drift, QueueRefresh, Resume, Tick,
                        vars, past
<1>2. QED
      BY <1>1 DEF Openings, Op, TargetOf, Start, Deadline, Stop, Bounded, Twin, Doors, Planned

\* What resume() scheduled in the way of another opening is remembered.
LEMMA OverlapStep ==
    ASSUME TypeOK, [Next]_vars
    PROVE  (overlapped => overlapped') /\ overlapped' \in BOOLEAN
<1>1. ASSUME NEW w \in Workers, Step(w)
      PROVE  overlapped' = overlapped
      <2>1. CASE StartSweep(w) \/ SchedulePlan(w) \/ EndSweep(w)
            BY <2>1 DEF StartSweep, SchedulePlan, EndSweep, past
      <2>2. CASE \E o \in Op : PickEnding(w, o) \/ PickOpening(w, o)
            BY <2>2 DEF PickEnding, PickOpening, Pick, past
      <2>3. CASE Run(w) \/ Redeem(w) \/ Denied(w) \/ AwaitApproval(w) \/ Claim(w)
                 \/ ClaimRefused(w) \/ Unavailable(w)
            BY <2>3 DEF Run, Redeem, Denied, AwaitApproval, Claim, ClaimRefused, Unavailable, past
      <2>4. CASE Dispatch(w) \/ Post(w) \/ Posted(w) \/ Outcome(w) \/ Recheck(w) \/ Fail(w)
                 \/ ReadActual(w) \/ Retry(w) \/ HoldPlan(w) \/ CompletePlan(w)
            BY <2>4 DEF Dispatch, Post, Posted, Outcome, Recheck, Fail, ReadActual, Retry,
                        HoldPlan, CompletePlan, past
      <2>5. QED
            BY <1>1, <2>1, <2>2, <2>3, <2>4 DEF Step
<1>2. QED
      BY <1>1 DEF TypeOK, Next, Crash, Drop, Enqueue, CancelPlan, Drift, QueueRefresh, Resume,
                  Tick, vars, past

LEMMA OpFacts ==
    ASSUME NEW o \in Op
    PROVE  /\ o.of \in Openings /\ o.retry \in BOOLEAN /\ o.ending \in BOOLEAN
           /\ EndingOf(o) \in Op /\ EndingOf(o).of = o.of /\ EndingOf(o).retry = o.retry
           /\ EndingOf(o).ending
           /\ RetryOf(o) \in Op /\ RetryOf(o).of = o.of /\ RetryOf(o).retry
           /\ RetryOf(o).ending = o.ending
           /\ Opening(o) \in Op /\ Opening(o).of = o.of /\ Opening(o).retry = o.retry
           /\ ~Opening(o).ending
           /\ o.ending => EndingOf(Opening(o)) = o
           /\ ~o.ending => Opening(EndingOf(o)) = o /\ EndingOf(o) # o
BY DEF Op, EndingOf, RetryOf, Opening

LEMMA SameEnding ==
    ASSUME NEW o \in Op, NEW p \in Op, ~o.ending, ~p.ending, EndingOf(o) = EndingOf(p)
    PROVE  o = p
BY OpFacts

LEMMA FirstFacts ==
    ASSUME NEW a \in Openings
    PROVE  First(a) \in Op /\ First(a).of = a /\ ~First(a).retry /\ ~First(a).ending
BY DEF First, Op

LEMMA RowFacts ==
    ASSUME NEW r \in Row
    PROVE  /\ \A s \in Statuses :
                 LET x == [r EXCEPT !.status = s]
                 IN  /\ x \in Row /\ x.status = s /\ x.attempt = r.attempt
                     /\ x.due = r.due /\ x.granted = r.granted
           /\ LET x == [r EXCEPT !.granted = TRUE]
              IN  /\ x \in Row /\ x.status = r.status /\ x.attempt = r.attempt
                  /\ x.due = r.due /\ x.granted
           /\ r.status \in Statuses /\ r.attempt \in BOOLEAN /\ r.due \in Nat
BY DEF Row

LEMMA QueuedFacts ==
    ASSUME NEW d \in Nat
    PROVE  /\ Queued(d) \in Row /\ Queued(d).status = "scheduled" /\ ~Queued(d).attempt
           /\ Queued(d).due = d
           /\ LET x == [Queued(d) EXCEPT !.granted = TRUE]
              IN  x \in Row /\ x.status = "scheduled" /\ ~x.attempt /\ x.due = d
BY DEF Queued, NoRow, Row, Statuses, Runnable, Stopped

\* stop_unstarted changes the status of openings and retries never claimed.
LEMMA StopFacts ==
    ASSUME NEW table \in [Op -> Row], NEW s \in {"held", "cancelled"}
    PROVE  /\ StopUnstarted(table, s) \in [Op -> Row]
           /\ \A o \in Op :
                 LET x == StopUnstarted(table, s)[o]
                 IN  /\ x.attempt = table[o].attempt /\ x.due = table[o].due
                     /\ \/ x.status = table[o].status
                        \/ /\ x.status = s /\ ~o.ending /\ ~table[o].attempt
                           /\ o.of \in Planned /\ table[o].status # "skipped"
                           /\ o.retry => table[o].status # "none"
<1>1. s \in Statuses
      BY DEF Statuses, Stopped
<1>2. ASSUME NEW o \in Op
      PROVE  /\ StopUnstarted(table, s)[o] \in Row
             /\ LET x == StopUnstarted(table, s)[o]
                IN  /\ x.attempt = table[o].attempt /\ x.due = table[o].due
                    /\ \/ x.status = table[o].status
                       \/ /\ x.status = s /\ ~o.ending /\ ~table[o].attempt
                          /\ o.of \in Planned /\ table[o].status # "skipped"
                          /\ o.retry => table[o].status # "none"
      <2>1. CASE Unstarted(table, o)
            <3>1. StopUnstarted(table, s)[o] = [table[o] EXCEPT !.status = s]
                  BY <2>1 DEF StopUnstarted
            <3>2. /\ ~o.ending /\ ~table[o].attempt /\ o.of \in Planned
                  /\ table[o].status # "skipped" /\ (o.retry => table[o].status # "none")
                  BY <2>1 DEF Unstarted
            <3>3. table[o] \in Row
                  OBVIOUS
            <3>4. /\ StopUnstarted(table, s)[o] \in Row
                  /\ StopUnstarted(table, s)[o].status = s
                  /\ StopUnstarted(table, s)[o].attempt = table[o].attempt
                  /\ StopUnstarted(table, s)[o].due = table[o].due
                  BY <1>1, <3>1, <3>3 DEF Row
            <3>5. QED
                  BY <3>2, <3>4
      <2>2. CASE ~Unstarted(table, o)
            BY <2>2 DEF StopUnstarted
      <2>3. QED
            BY <2>1, <2>2
<1>3. QED
      BY <1>2 DEF StopUnstarted

-----------------------------------------------------------------------------
(* Workers.                                                                *)

LEMMA GotoFacts ==
    ASSUME TypeOK, NEW w \in Workers, NEW STATE step, step \in Steps, Goto(w, step)
    PROVE  /\ pc' \in [Workers -> Steps] /\ op' \in [Workers -> Op \cup {Nobody}]
           /\ seen' \in [Workers -> Row] /\ asof' \in [Workers -> Nat]
           /\ pc'[w] = step
           /\ step \notin {"idle", "sweep"} => op'[w] = op[w] /\ seen'[w] = seen[w]
           /\ asof'[w] \in {asof[w], 0}
           /\ \A v \in Workers : v # w =>
                 /\ pc'[v] = pc[v] /\ op'[v] = op[v] /\ seen'[v] = seen[v]
                 /\ asof'[v] = asof[v]
BY DEF Goto, TypeOK, NoRow, Row, Statuses

-----------------------------------------------------------------------------
(* What a step may do to the rows, if t are the rows after it.             *)

\* Where run() goes from an outcome.
Done == {"complete", "sweep", "recheck"}

Moves(t) ==
    /\ t \in [Op -> Row]
    /\ \A o \in Op :
        /\ row[o].attempt => t[o].attempt
        /\ row[o].status # "none" => t[o].status # "none" /\ t[o].due = row[o].due
        /\ t[o].attempt => t[o].status # "none"
        /\ t[o].status = "verified" => t[o].attempt
        /\ o.ending /\ t[o].status # "none" => t[Opening(o)].attempt
        /\ o.retry /\ ~o.ending /\ tries'[o.of] = 0 => t[o].status = "none"
        /\ o.ending /\ row[o].status \in Runnable \cup {"failed"} =>
              \/ t[o].status \in Runnable \cup {"failed"}
              \/ t[o].status = "verified" /\ device[Target(o)] = Rest /\ device' = device
        /\ o.ending /\ row[o].status = "scheduled" /\ t[o].status # "scheduled" =>
              \E w \in Workers : Busy(w) /\ op[w] = o
        /\ drops = 0 /\ row[o].status = "verified" => t[o].status = "verified"
        /\ t[o].status = "verified" /\ row[o].status # "verified" =>
              \E w \in Workers : pc[w] = "outcome" /\ op[w] = o /\ pc'[w] \in Done

LEMMA QuietMoves == ASSUME TypeOK, RowsKnow, tries' = tries PROVE Moves(row)
BY DEF TypeOK, RowsKnow, Moves

LEMMA MarkFacts ==
    ASSUME TypeOK, NEW o \in Op, NEW s \in Statuses
    PROVE  LET t == [row EXCEPT ![o].status = s]
           IN  /\ t \in [Op -> Row]
               /\ t[o].status = s /\ t[o].attempt = row[o].attempt /\ t[o].due = row[o].due
               /\ t[o].granted = row[o].granted
               /\ \A p \in Op : p # o => t[p] = row[p]
BY DEF TypeOK, Row

LEMMA MarkMoves ==
    ASSUME TypeOK, RowsKnow, tries' = tries,
           NEW w \in Workers, Busy(w), Knows(w), NEW s \in Statuses \ {"none"},
           drops = 0 => row[op[w]].status # "verified",
           op[w].ending => \/ s \in Runnable \cup {"failed"}
                           \/ s = "verified" /\ device[Target(op[w])] = Rest /\ device' = device,
           s = "verified" => pc[w] = "outcome" /\ pc'[w] \in Done
    PROVE  Moves([row EXCEPT ![op[w]].status = s])
<1>1. PICK o \in Op : o = op[w]
      BY DEF Knows
<1>2. row[o].status # "none" /\ (s = "verified" => row[o].attempt)
      BY <1>1 DEF Knows
<1>3. PICK t : t = [row EXCEPT ![o].status = s]
      OBVIOUS
<1>4. /\ t \in [Op -> Row]
      /\ t[o].status = s /\ t[o].attempt = row[o].attempt /\ t[o].due = row[o].due
      /\ \A p \in Op : p # o => t[p] = row[p]
      BY <1>3, MarkFacts
<1>5. ASSUME NEW p \in Op
      PROVE  /\ row[p].attempt => t[p].attempt
             /\ row[p].status # "none" => t[p].status # "none" /\ t[p].due = row[p].due
             /\ t[p].attempt => t[p].status # "none"
             /\ t[p].status = "verified" => t[p].attempt
             /\ p.ending /\ t[p].status # "none" => t[Opening(p)].attempt
             /\ p.retry /\ ~p.ending /\ tries'[p.of] = 0 => t[p].status = "none"
      <2>1. \A q \in Op : t[q].attempt = row[q].attempt
            BY <1>4
      <2>2. Opening(p) \in Op
            BY OpFacts
      <2>3. QED
            BY <1>2, <1>4, <2>1, <2>2 DEF RowsKnow
<1>6. ASSUME NEW p \in Op
      PROVE  /\ p.ending /\ row[p].status \in Runnable \cup {"failed"} =>
                    \/ t[p].status \in Runnable \cup {"failed"}
                    \/ t[p].status = "verified" /\ device[Target(p)] = Rest /\ device' = device
             /\ p.ending /\ row[p].status = "scheduled" /\ t[p].status # "scheduled" =>
                    \E v \in Workers : Busy(v) /\ op[v] = p
             /\ drops = 0 /\ row[p].status = "verified" => t[p].status = "verified"
             /\ t[p].status = "verified" /\ row[p].status # "verified" =>
                    \E v \in Workers : pc[v] = "outcome" /\ op[v] = p /\ pc'[v] \in Done
      BY <1>1, <1>2, <1>4
<1>7. QED
      BY <1>1, <1>3, <1>4, <1>5, <1>6 DEF Moves

LEMMA StopMoves ==
    ASSUME NEW t, Moves(t), NEW s \in {"held", "cancelled"}
    PROVE  Moves(StopUnstarted(t, s))
<1>1. PICK u : u = StopUnstarted(t, s)
      OBVIOUS
<1>2. t \in [Op -> Row]
      BY DEF Moves
<1>3. /\ u \in [Op -> Row]
      /\ \A o \in Op : /\ u[o].attempt = t[o].attempt /\ u[o].due = t[o].due
                       /\ \/ u[o].status = t[o].status
                          \/ /\ u[o].status = s /\ ~o.ending /\ ~t[o].attempt
                             /\ o.retry => t[o].status # "none"
      BY <1>1, <1>2, StopFacts
<1>4. \A o \in Op : Opening(o) \in Op
      BY OpFacts
<1>5. Moves(u)
      BY <1>3, <1>4 DEF Moves
<1>6. QED
      BY <1>1, <1>5

LEMMA HoldMoves ==
    ASSUME NEW t, Moves(t), NEW STATE o, Hold(o, t)
    PROVE  Moves(row')
BY StopMoves DEF Hold

LEMMA DueFacts ==
    ASSUME TypeOK, NEW o \in Op, o.of \in Bounded
    PROVE  EndingDue(o) \in Nat /\ (~Expired(o) => EndingDue(o) > clock)
<1>1. /\ clock \in Nat /\ Stop[o.of] \in Nat /\ Start[o.of] \in Nat /\ Deadline[o.of] \in Nat
      /\ Start[o.of] < Stop[o.of]
      /\ o.of \notin Doors => Deadline[o.of] <= Stop[o.of]
      BY GivenFacts, OpFacts DEF TypeOK
<1>2. QED
      BY <1>1 DEF EndingDue, Expired

\* A claim, row by row: the opening is attempted, and its ending is queued.
LEMMA ClaimFacts ==
    ASSUME TypeOK, RowsKnow, NEW o \in Op, row[o].status = "scheduled"
    PROVE  /\ Claimed(o) \in [Op -> Row]
           /\ Claimed(o)[o].attempt /\ Claimed(o)[o].status = "executing"
           /\ Claimed(o)[o].due = row[o].due
           /\ o.of \in Bounded /\ ~o.ending =>
                 /\ Claimed(o)[EndingOf(o)].status = "scheduled"
                 /\ ~Claimed(o)[EndingOf(o)].attempt
                 /\ Claimed(o)[EndingOf(o)].due = EndingDue(o)
           /\ \A p \in Op : p # o /\ ~(o.of \in Bounded /\ ~o.ending /\ p = EndingOf(o))
                 => Claimed(o)[p] = row[p]
<1>1. PICK claim : claim = [row EXCEPT ![o].attempt = TRUE, ![o].status = "executing"]
      OBVIOUS
<1>2. /\ claim \in [Op -> Row] /\ claim[o].attempt /\ claim[o].status = "executing"
      /\ claim[o].due = row[o].due /\ \A p \in Op : p # o => claim[p] = row[p]
      BY <1>1 DEF TypeOK, Row, Statuses, Runnable
<1>3. CASE o.of \in Bounded /\ ~o.ending
      <2>1. PICK q : q = [Queued(EndingDue(o)) EXCEPT !.granted = TRUE]
            OBVIOUS
      <2>2. q \in Row /\ q.status = "scheduled" /\ ~q.attempt /\ q.due = EndingDue(o)
            BY <1>3, <2>1, DueFacts, QueuedFacts
      <2>3. Claimed(o) = [claim EXCEPT ![EndingOf(o)] = q]
            BY <1>1, <1>3, <2>1 DEF Claimed
      <2>4. EndingOf(o) \in Op /\ EndingOf(o) # o
            BY <1>3, OpFacts
      <2>5. QED
            BY <1>2, <1>3, <2>2, <2>3, <2>4
<1>4. CASE ~(o.of \in Bounded /\ ~o.ending)
      <2>1. Claimed(o) = claim
            BY <1>1, <1>4 DEF Claimed
      <2>2. QED
            BY <1>2, <1>4, <2>1
<1>5. QED
      BY <1>3, <1>4

LEMMA ClaimMoves ==
    ASSUME TypeOK, RowsKnow, NEW w \in Workers, Knows(w), Claim(w)
    PROVE  Moves(row')
<1>1. PICK o \in Op : o = op[w]
      BY DEF Knows, Busy, Claim
<1>2. /\ row[o].status = "scheduled" /\ ~row[o].attempt
      /\ o.ending => row[Opening(o)].attempt
      /\ row' = Claimed(o) /\ tries' = tries /\ Busy(w)
      BY <1>1 DEF Claim, Claimable, Opening, Busy
<1>3. PICK t : t = Claimed(o)
      OBVIOUS
<1>4. /\ t \in [Op -> Row] /\ t[o].attempt /\ t[o].status = "executing" /\ t[o].due = row[o].due
      /\ o.of \in Bounded /\ ~o.ending => /\ t[EndingOf(o)].status = "scheduled"
                                         /\ ~t[EndingOf(o)].attempt
      /\ \A p \in Op : p # o /\ ~(o.of \in Bounded /\ ~o.ending /\ p = EndingOf(o))
            => t[p] = row[p]
      BY <1>2, <1>3, ClaimFacts
<1>5. ~o.ending => Opening(EndingOf(o)) = o /\ EndingOf(o) \in Op /\ EndingOf(o).ending
      BY OpFacts
<1>6. o.of \in Bounded /\ ~o.ending => row[EndingOf(o)].status = "none"
      BY <1>2, <1>5 DEF RowsKnow
<1>7. \A p \in Op : row[p].attempt => t[p].attempt
      BY <1>2, <1>4, <1>5, <1>6 DEF RowsKnow
<1>8. \A p \in Op : Opening(p) \in Op
      BY OpFacts
<1>9. \A p \in Op :
         /\ row[p].status # "none" => t[p].status # "none" /\ t[p].due = row[p].due
         /\ t[p].attempt => t[p].status # "none"
         /\ t[p].status = "verified" => t[p].attempt /\ row[p].status = "verified"
         /\ p.retry /\ ~p.ending /\ tries'[p.of] = 0 => t[p].status = "none"
      BY <1>2, <1>4, <1>5, <1>6 DEF RowsKnow
<1>10. ASSUME NEW p \in Op, p.ending, t[p].status # "none"
       PROVE  t[Opening(p)].attempt
      <2>1. CASE row[p].status # "none"
            BY <1>7, <1>8, <1>10, <2>1 DEF RowsKnow
      <2>2. CASE row[p].status = "none"
            <3>1. o.of \in Bounded /\ ~o.ending /\ p = EndingOf(o)
                  BY <1>2, <1>4, <1>10, <2>2
            <3>2. QED
                  BY <1>4, <1>5, <3>1
      <2>3. QED
            BY <2>1, <2>2
<1>11. ASSUME NEW p \in Op
       PROVE  /\ p.ending /\ row[p].status \in Runnable \cup {"failed"} =>
                     t[p].status \in Runnable \cup {"failed"}
              /\ p.ending /\ row[p].status = "scheduled" /\ t[p].status # "scheduled" =>
                     \E v \in Workers : Busy(v) /\ op[v] = p
              /\ row[p].status = "verified" => t[p].status = "verified"
      BY <1>1, <1>2, <1>4, <1>6 DEF Runnable
<1>12. Moves(t)
      BY <1>4, <1>7, <1>9, <1>10, <1>11 DEF Moves
<1>13. QED
      BY <1>2, <1>3, <1>12

\* Queueing an opening or a retry that was not there.
LEMMA QueueMoves ==
    ASSUME TypeOK, RowsKnow, NEW t \in [Op -> Row],
           \A o \in Op : t[o] # row[o] =>
               /\ ~o.ending /\ row[o].status = "none" /\ ~t[o].attempt /\ t[o].status # "verified"
               /\ o.retry => tries'[o.of] # 0,
           \A a \in Openings : tries'[a] = 0 => tries[a] = 0
    PROVE  Moves(t)
<1>1. \A o \in Op : t[o].attempt = row[o].attempt
      BY DEF RowsKnow, TypeOK, Row
<1>2. \A o \in Op : Opening(o) \in Op /\ o.of \in Openings
      BY OpFacts
<1>3. ASSUME NEW o \in Op
      PROVE  /\ row[o].status # "none" => t[o] = row[o]
             /\ t[o].attempt => t[o].status # "none"
             /\ t[o].status = "verified" => t[o].attempt /\ t[o] = row[o]
             /\ o.ending => t[o] = row[o]
             /\ o.ending /\ t[o].status # "none" => t[Opening(o)].attempt
             /\ o.retry /\ ~o.ending /\ tries'[o.of] = 0 => t[o].status = "none"
      BY <1>1, <1>2 DEF RowsKnow
<1>4. QED
      BY <1>1, <1>3 DEF Moves

LEMMA EnqueueMoves ==
    ASSUME TypeOK, RowsKnow, NEW a \in Openings, Enqueue(a)
    PROVE  Moves(row')
<1>1. First(a) \in Op /\ ~First(a).ending /\ ~First(a).retry
      BY FirstFacts
<1>2. Queued(Start[a]) \in Row /\ ~Queued(Start[a]).attempt
      /\ Queued(Start[a]).status = "scheduled"
      BY GivenFacts, QueuedFacts
<1>3. PICK t : t = row'
      OBVIOUS
<1>4. /\ t \in [Op -> Row] /\ t[First(a)] = Queued(Start[a])
      /\ \A o \in Op : o # First(a) => t[o] = row[o]
      BY <1>1, <1>2, <1>3 DEF Enqueue, TypeOK
<1>5. row[First(a)].status = "none" /\ tries' = tries
      BY DEF Enqueue
<1>6. Moves(t)
      BY <1>1, <1>2, <1>4, <1>5, QueueMoves
<1>7. QED
      BY <1>3, <1>6

LEMMA RetryMoves ==
    ASSUME TypeOK, RowsKnow, NEW w \in Workers, Knows(w), Retry(w)
    PROVE  Moves(row') /\ tries' \in [Openings -> Nat] /\ \A a \in Openings : tries'[a] >= tries[a]
<1>1. PICK o \in Op : o = op[w] /\ ~o.ending /\ ~o.retry
      BY DEF Knows, Busy, Retry
<1>2. CASE UNCHANGED <<row, tries>>
      BY <1>2, QuietMoves DEF TypeOK
<1>3. CASE /\ MayRetry(o) /\ row' = [row EXCEPT ![RetryOf(o)] = Queued(clock)]
           /\ tries' = [tries EXCEPT ![o.of] = @ + 1]
      <2>1. /\ RetryOf(o) \in Op /\ RetryOf(o).retry /\ ~RetryOf(o).ending
            /\ RetryOf(o).of = o.of /\ o.of \in Openings
            BY <1>1, OpFacts
      <2>2. tries[o.of] = 0 /\ row[RetryOf(o)].status = "none"
            BY <1>3, <2>1 DEF MayRetry, RowsKnow
      <2>3. Queued(clock) \in Row /\ ~Queued(clock).attempt /\ Queued(clock).status = "scheduled"
            BY QueuedFacts DEF TypeOK
      <2>4. /\ tries' \in [Openings -> Nat] /\ tries'[o.of] = 1
            /\ \A a \in Openings : a # o.of => tries'[a] = tries[a]
            BY <1>3, <2>1, <2>2 DEF TypeOK
      <2>5. PICK t : t = row'
            OBVIOUS
      <2>6. /\ t \in [Op -> Row] /\ t[RetryOf(o)] = Queued(clock)
            /\ \A p \in Op : p # RetryOf(o) => t[p] = row[p]
            BY <1>3, <2>1, <2>3, <2>5 DEF TypeOK
      <2>7. \A a \in Openings : tries'[a] = 0 => tries[a] = 0
            BY <2>4
      <2>8. Moves(t)
            BY <2>1, <2>2, <2>3, <2>4, <2>6, <2>7, QueueMoves
      <2>9. QED
            BY <2>2, <2>4, <2>5, <2>8 DEF TypeOK
<1>4. QED
      BY <1>1, <1>2, <1>3 DEF Retry

LEMMA ScheduleMoves ==
    ASSUME TypeOK, RowsKnow, NEW w \in Workers, SchedulePlan(w)
    PROVE  Moves(row')
<1> DEFINE todo == {a \in Planned : row[First(a)].status = "none"}
           late == {a \in todo : Expired(First(a))}
           table == [o \in Op |-> IF o \notin {First(a) : a \in todo} THEN row[o]
                                 ELSE IF o.of \in late
                                      THEN [row[o] EXCEPT !.status = "skipped"]
                                      ELSE Queued(Start[o.of])]
<1>1. tries' = tries /\ (row' = table \/ row' = StopUnstarted(table, "held"))
      BY DEF SchedulePlan
<1>2. ASSUME NEW o \in Op
      PROVE  /\ table[o] \in Row
             /\ table[o] # row[o] => /\ ~o.ending /\ ~o.retry /\ row[o].status = "none"
                                    /\ ~table[o].attempt /\ table[o].status # "verified"
      <2>1. CASE o \notin {First(a) : a \in todo}
            BY <2>1 DEF TypeOK
      <2>2. CASE o \in {First(a) : a \in todo}
            <3>1. /\ ~o.ending /\ ~o.retry /\ row[o].status = "none" /\ ~row[o].attempt
                  /\ row[o] \in Row /\ Start[o.of] \in Nat
                  <4>1. PICK a \in todo : o = First(a)
                        BY <2>2
                  <4>2. ~o.ending /\ ~o.retry
                        BY <4>1 DEF First
                  <4>3. row[o].status = "none"
                        BY <4>1
                  <4>4. row[o] \in Row /\ ~row[o].attempt
                        BY <4>3 DEF RowsKnow, TypeOK
                  <4>5. Start[o.of] \in Nat
                        BY GivenFacts, OpFacts
                  <4>6. QED
                        BY <4>2, <4>3, <4>4, <4>5
            <3>2. PICK x : x = table[o]
                  OBVIOUS
            <3>3. x \in Row /\ ~x.attempt /\ x.status # "verified"
                  <4>1. CASE o.of \in late
                        <5>1. x = [row[o] EXCEPT !.status = "skipped"]
                              BY <2>2, <3>2, <4>1
                        <5>2. QED
                              BY <3>1, <5>1 DEF Row, Statuses, Stopped
                  <4>2. CASE o.of \notin late
                        <5>1. x = Queued(Start[o.of])
                              BY <2>2, <3>2, <4>2
                        <5>2. QED
                              BY <3>1, <5>1, QueuedFacts
                  <4>3. QED
                        BY <4>1, <4>2
            <3> HIDE DEF table
            <3>4. QED
                  BY <3>1, <3>2, <3>3
      <2>4. QED
            BY <2>1, <2>2
<1>3. PICK t : t = table
      OBVIOUS
<1>4. t \in [Op -> Row]
      BY <1>2, <1>3
<1>5. \A o \in Op : t[o] # row[o] =>
           /\ ~o.ending /\ ~o.retry /\ row[o].status = "none"
           /\ ~t[o].attempt /\ t[o].status # "verified"
      BY <1>2, <1>3
<1> HIDE DEF table
<1>6. Moves(t)
      BY <1>1, <1>4, <1>5, QueueMoves
<1>7. QED
      BY <1>1, <1>3, <1>6, StopMoves

LEMMA ResumeMoves ==
    ASSUME TypeOK, RowsKnow, Resume
    PROVE  Moves(row')
<1>1. tries' = tries
      BY DEF Resume
<1>2. CASE Hold(asking, row)
      BY <1>1, <1>2, QuietMoves, HoldMoves
<1>3. CASE row' = [p \in Op |-> IF /\ p.of \in Planned /\ ~p.ending
                                  /\ row[p].status = "held" /\ ~row[p].attempt
                               THEN [row[p] EXCEPT !.status = "scheduled"] ELSE row[p]]
      <2>1. PICK t : t = row'
            OBVIOUS
      <2>2. \A p \in Op : \/ t[p] = row[p]
                         \/ /\ ~p.ending /\ row[p].status = "held" /\ ~row[p].attempt
                            /\ t[p] = [row[p] EXCEPT !.status = "scheduled"]
            BY <1>3, <2>1
      <2>3. ASSUME NEW p \in Op
            PROVE  /\ t[p] \in Row /\ t[p].attempt = row[p].attempt /\ t[p].due = row[p].due
                   /\ \/ t[p] = row[p]
                      \/ ~p.ending /\ row[p].status = "held" /\ t[p].status = "scheduled"
            <3>1. row[p] \in Row
                  BY DEF TypeOK
            <3>2. CASE t[p] = row[p]
                  BY <3>1, <3>2
            <3>3. CASE /\ ~p.ending /\ row[p].status = "held" /\ ~row[p].attempt
                       /\ t[p] = [row[p] EXCEPT !.status = "scheduled"]
                  <4>1. PICK r \in Row : r = row[p]
                        BY <3>1
                  <4>2. t[p] = [r EXCEPT !.status = "scheduled"]
                        BY <3>3, <4>1
                  <4>3. /\ t[p] \in Row /\ t[p].status = "scheduled"
                        /\ t[p].attempt = r.attempt /\ t[p].due = r.due
                        BY <4>2 DEF Row, Statuses, Runnable
                  <4>4. r.status = "held"
                        BY <3>3, <4>1
                  <4>5. QED
                        BY <3>3, <4>1, <4>3, <4>4
            <3>4. QED
                  BY <2>2, <3>2, <3>3
      <2>4. t \in [Op -> Row]
            BY <1>3, <2>1, <2>3
      <2>5. \A p \in Op : Opening(p) \in Op
            BY OpFacts
      <2>6. Moves(t)
            BY <1>1, <2>3, <2>4, <2>5 DEF Moves, RowsKnow
      <2>7. QED
            BY <2>1, <2>6
<1>4. QED
      BY <1>2, <1>3 DEF Resume

LEMMA RedeemMoves ==
    ASSUME TypeOK, RowsKnow, NEW w \in Workers, Knows(w), Redeem(w)
    PROVE  Moves(row')
<1>1. tries' = tries
      BY DEF Redeem
<1>2. CASE row' = row
      BY <1>1, <1>2, QuietMoves
<1>3. CASE row' = [row EXCEPT ![op[w]].granted = TRUE]
      <2>1. PICK o \in Op : o = op[w]
            BY DEF Knows, Busy, Redeem
      <2>2. PICK t : t = row'
            OBVIOUS
      <2>3. /\ t \in [Op -> Row]
            /\ \A p \in Op : t[p].attempt = row[p].attempt /\ t[p].due = row[p].due
                            /\ t[p].status = row[p].status
            <3>1. PICK x : x = [row[o] EXCEPT !.granted = TRUE]
                  OBVIOUS
            <3>2. /\ x \in Row /\ x.attempt = row[o].attempt /\ x.due = row[o].due
                  /\ x.status = row[o].status
                  BY <3>1 DEF TypeOK, Row
            <3>3. t = [row EXCEPT ![o] = x]
                  BY <1>3, <2>1, <2>2, <3>1
            <3>4. QED
                  BY <3>2, <3>3 DEF TypeOK
      <2>4. \A p \in Op : Opening(p) \in Op
            BY OpFacts
      <2>5. Moves(t)
            BY <1>1, <2>3, <2>4 DEF Moves, RowsKnow
      <2>6. QED
            BY <2>2, <2>5
<1>4. QED
      BY <1>2, <1>3 DEF Redeem

\* run() and its failure path mark the operation the worker runs.
LEMMA WorkerMoves ==
    ASSUME TypeOK, RowsKnow, Exclusive, NEW w \in Workers, Knows(w), Step(w)
    PROVE  Moves(row')
<1> DEFINE o == op[w]
<1>1. CASE StartSweep(w) \/ EndSweep(w) \/ ClaimRefused(w) \/ Unavailable(w) \/ Post(w)
           \/ Recheck(w) \/ ReadActual(w) \/ CompletePlan(w)
           \/ \E p \in Op : PickEnding(w, p) \/ PickOpening(w, p)
      <2>1. row' = row /\ tries' = tries
            BY <1>1 DEF StartSweep, EndSweep, ClaimRefused, Unavailable, Post, Recheck, ReadActual,
                        CompletePlan, PickEnding, PickOpening, Pick
      <2>2. QED
            BY <2>1, QuietMoves
<1>2. CASE Run(w)
      <2>1. tries' = tries /\ Busy(w) /\ pc[w] = "run"
            BY <1>2 DEF Run, Busy
      <2>2. CASE row' = row
            BY <2>1, <2>2, QuietMoves
      <2>3. CASE ~o.ending /\ Hold(o, [row EXCEPT ![o].status = "skipped"])
            <3>1. Moves([row EXCEPT ![o].status = "skipped"])
                  BY <2>1, <2>3, MarkMoves DEF Exclusive, Statuses, Stopped
            <3>2. QED
                  BY <2>3, <3>1, HoldMoves
      <2>4. QED
            BY <1>2, <2>2, <2>3 DEF Run
<1>3. CASE Denied(w)
      <2>1. /\ tries' = tries /\ Busy(w) /\ pc[w] = "denied" /\ ~o.ending
            /\ Hold(o, [row EXCEPT ![o].status = "held"])
            BY <1>3 DEF Denied, Busy, Knows
      <2>2. Moves([row EXCEPT ![o].status = "held"])
            BY <2>1, MarkMoves DEF Exclusive, Statuses, Stopped
      <2>3. QED
            BY <2>1, <2>2, HoldMoves
<1>4. CASE AwaitApproval(w)
      <2>1. /\ tries' = tries /\ Busy(w) /\ pc[w] = "ask" /\ ~o.ending
            /\ row' = StopUnstarted([row EXCEPT ![o].status = "held"], "held")
            BY <1>4 DEF AwaitApproval, Busy, Knows
      <2>2. Moves([row EXCEPT ![o].status = "held"])
            BY <2>1, MarkMoves DEF Exclusive, Statuses, Stopped
      <2>3. QED
            BY <2>1, <2>2, StopMoves
<1>5. CASE Dispatch(w) \/ Posted(w)
      <2>1. /\ tries' = tries /\ Busy(w) /\ pc[w] \in {"dispatch", "posted"}
            /\ row' = [row EXCEPT ![o].status = "dispatched"]
            BY <1>5 DEF Dispatch, Posted, Busy, SetStatus
      <2>2. Moves([row EXCEPT ![o].status = "dispatched"])
            BY <2>1, MarkMoves DEF Exclusive, Statuses, Runnable
      <2>3. QED
            BY <2>1, <2>2
<1>6. CASE Outcome(w)
      <2>1. tries' = tries /\ device' = device /\ Busy(w) /\ pc[w] = "outcome"
            BY <1>6 DEF Outcome, Busy
      <2>2. CASE InForce(o) /\ row' = [row EXCEPT ![o].status = "verified"]
            <3>1. o.ending => device[Target(o)] = Rest
                  BY <2>2 DEF InForce
            <3>2. pc'[w] \in Done
                  BY <1>6 DEF Outcome, Finish, Goto, Done, TypeOK
            <3>3. Moves([row EXCEPT ![o].status = "verified"])
                  BY <2>1, <3>1, <3>2, MarkMoves DEF Exclusive, Statuses
            <3>4. QED
                  BY <2>2, <3>3
      <2>3. CASE row' = [row EXCEPT ![o].status = "failed"]
            <3>1. Moves([row EXCEPT ![o].status = "failed"])
                  BY <2>1, MarkMoves DEF Exclusive, Statuses
            <3>2. QED
                  BY <2>3, <3>1
      <2>4. QED
            BY <1>6, <2>2, <2>3 DEF Outcome, SetStatus
<1>7. CASE Fail(w)
      <2>1. tries' = tries /\ Busy(w) /\ pc[w] = "fail"
            BY <1>7 DEF Fail, Busy
      <2>2. CASE row' = row
            BY <2>1, <2>2, QuietMoves
      <2>3. CASE row' = [row EXCEPT ![o].status = "failed"]
            <3>1. Moves([row EXCEPT ![o].status = "failed"])
                  BY <2>1, MarkMoves DEF Exclusive, Statuses
            <3>2. QED
                  BY <2>3, <3>1
      <2>4. QED
            BY <1>7, <2>2, <2>3 DEF Fail, SetStatus
<1>8. CASE HoldPlan(w)
      BY <1>8, QuietMoves, HoldMoves DEF HoldPlan
<1>9. QED
      BY <1>1, <1>2, <1>3, <1>4, <1>5, <1>6, <1>7, <1>8,
         ScheduleMoves, RedeemMoves, ClaimMoves, RetryMoves DEF Step

LEMMA RowStep ==
    ASSUME TypeOK, RowsKnow, Exclusive, \A w \in Workers : Knows(w), [Next]_vars
    PROVE  Moves(row')
<1>1. CASE \E w \in Workers : Crash(w) \/ Drop(w)
      BY <1>1, QuietMoves DEF Crash, Drop
<1>2. CASE CancelPlan \/ QueueRefresh
      <2>1. tries' = tries /\ (row' = StopUnstarted(row, "cancelled") \/ row' = StopUnstarted(row, "held"))
            BY <1>2 DEF CancelPlan, QueueRefresh
      <2>2. QED
            BY <2>1, QuietMoves, StopMoves
<1>3. CASE Drift \/ Tick \/ UNCHANGED vars
      BY <1>3, QuietMoves DEF Drift, Tick, vars
<1>4. QED
      BY <1>1, <1>2, <1>3, WorkerMoves, EnqueueMoves, ResumeMoves DEF Next

-----------------------------------------------------------------------------
(* What a step may do to the workers.                                      *)

\* w moves on with the operation it runs, or is done with it.
MovesOn(w) ==
    /\ Busy(w) /\ asof'[w] \in {asof[w], 0}
    /\ Busy(w)' => op'[w] = op[w]
    /\ pc'[w] # "run"
    /\ pc[w] = "complete" => ~Busy(w)'
    /\ pc'[w] = "redeem" => /\ pc[w] = "run" /\ ~seen[w].attempt
                            /\ ~op[w].ending /\ ReadyToAct(op[w])
    /\ pc'[w] \in {"denied", "ask"} => pc[w] = "redeem"
    /\ pc'[w] = "ask" => op[w].of \in Planned
    /\ pc'[w] = "retry" => pc[w] = "read" /\ ~op[w].ending /\ ~op[w].retry
    /\ pc'[w] = "posted" => pc[w] = "post"
    /\ pc'[w] = "outcome" => pc[w] \in {"dispatch", "posted"}
    /\ pc'[w] = "claim" => pc[w] = "redeem" \/ (pc[w] = "run" /\ op[w].ending)
    /\ pc'[w] = "dispatch" => Claim(w)
    /\ pc'[w] = "post" => Claim(w) /\ op[w].of \notin Twin
    /\ pc'[w] = "late" => pc[w] \in {"post", "late"} /\ drops' > 0
    /\ pc'[w] = "fail" =>
          row' = row /\ (pc[w] = "run" \/ (pc[w] = "recheck" /\ row[op[w]].status # "verified"))

Picks(w) ==
    /\ pc[w] = "sweep" /\ pc'[w] = "run" /\ asof'[w] = asof[w] /\ row' = row /\ lock' = lock
    /\ \E o \in Op : /\ op'[w] = o /\ row[o].status # "none"
                     /\ row[o].due <= clock \/ row[o].due <= asof[w]
                     /\ lock = w => row[o].status \in Runnable /\ seen'[w] = row[o]
                     /\ ~o.ending => row[o].due <= asof[w] /\ EndingsFirst(w)

Sweeps(w) ==
    \/ pc[w] = "idle" /\ pc'[w] = "sweep" /\ asof'[w] = clock /\ lock = Nobody /\ lock' = w
    \/ pc[w] = "sweep" /\ pc'[w] \in {"sweep", "idle"} /\ asof'[w] \in {asof[w], 0}

\* What Step, Crash and Drop have in common.
Acts(w) ==
    /\ pc' \in [Workers -> Steps] /\ op' \in [Workers -> Op \cup {Nobody}]
    /\ seen' \in [Workers -> Row] /\ asof' \in [Workers -> Nat]
    /\ \A v \in Workers : v # w =>
          pc'[v] = pc[v] /\ op'[v] = op[v] /\ seen'[v] = seen[v] /\ asof'[v] = asof[v]
    /\ MovesOn(w) \/ Picks(w) \/ Sweeps(w)
    /\ lock' # lock => \/ pc[w] = "idle" /\ lock = Nobody /\ lock' = w
                       \/ lock = w /\ lock' = Nobody /\ (pc'[w] = "idle" \/ drops' > 0)

LEMMA FinishFacts ==
    ASSUME NEW w \in Workers, Finish(w)
    PROVE  \E step \in {"complete", "sweep"} : Goto(w, step)
BY DEF Finish

LEMMA GotoIn ==
    ASSUME TypeOK, NEW w \in Workers, NEW step \in Steps, Goto(w, step)
    PROVE  /\ pc' \in [Workers -> Steps] /\ op' \in [Workers -> Op \cup {Nobody}]
           /\ seen' \in [Workers -> Row] /\ asof' \in [Workers -> Nat]
           /\ pc'[w] = step
           /\ step \notin {"idle", "sweep"} => op'[w] = op[w]
           /\ asof'[w] \in {asof[w], 0}
           /\ \A v \in Workers : v # w =>
                 pc'[v] = pc[v] /\ op'[v] = op[v] /\ seen'[v] = seen[v] /\ asof'[v] = asof[v]
BY GotoFacts

LEMMA ReleaseFacts == ASSUME NEW w, Release(w) PROVE lock' = lock \/ (lock = w /\ lock' = Nobody)
BY DEF Release

LEMMA StepActs ==
    ASSUME TypeOK, NEW w \in Workers, Knows(w), Step(w)
    PROVE  Acts(w)
<1> USE DEF Steps
<1>1. CASE StartSweep(w)
      BY <1>1 DEF StartSweep, Acts, Sweeps, TypeOK
<1>2. CASE SchedulePlan(w)
      BY <1>2 DEF SchedulePlan, Acts, Sweeps, TypeOK, local
<1>3. CASE EndSweep(w)
      <2>1. pc[w] = "sweep" /\ Goto(w, "idle") /\ Release(w)
            BY <1>3 DEF EndSweep, Leave
      <2>2. QED
            BY <2>1, GotoIn, ReleaseFacts DEF Acts, Sweeps
<1>4. ASSUME NEW o \in Op, PickEnding(w, o) \/ PickOpening(w, o)
      PROVE  Acts(w)
      <2>1. PICK r : Pick(w, o, r)
            BY <1>4 DEF PickEnding, PickOpening
      <2>2. /\ pc[w] = "sweep" /\ row[o].status # "none"
            /\ row[o].due <= clock \/ row[o].due <= asof[w]
            /\ lock = w => row[o].status \in Runnable /\ seen'[w] = row[o]
            /\ ~o.ending => row[o].due <= asof[w] /\ EndingsFirst(w)
            <3>1. /\ row[o].status # "none"
                  /\ row[o].due <= clock \/ row[o].due <= asof[w]
                  /\ lock = w => row[o].status \in Runnable
                  /\ ~o.ending => row[o].due <= asof[w] /\ EndingsFirst(w)
                  BY <1>4 DEF PickEnding, PickOpening, Due, Runnable
            <3>2. lock = w => Pick(w, o, row[o])
                  BY <1>4 DEF PickEnding, PickOpening
            <3>3. QED
                  BY <1>4, <3>1, <3>2 DEF PickEnding, PickOpening, Pick, TypeOK
      <2>3. seen'[w] \in Row
            <3>1. row[o] \in Row
                  BY DEF TypeOK
            <3>2. \/ seen'[w] = row[o]
                  \/ seen'[w] = [row[o] EXCEPT !.status = "scheduled", !.attempt = FALSE]
                  \/ seen'[w] = [row[o] EXCEPT !.status = "executing"]
                  BY <1>4 DEF PickEnding, PickOpening, Pick, TypeOK
            <3>3. QED
                  BY <3>1, <3>2 DEF Row, Statuses, Runnable
      <2>4. QED
            BY <2>1, <2>2, <2>3 DEF Pick, Acts, Picks, TypeOK
<1>5. CASE Run(w)
      <2>1. PICK step \in {"fail", "complete", "sweep", "claim", "redeem", "recheck"} :
               /\ Goto(w, step) /\ pc[w] = "run" /\ lock' = lock
               /\ step = "claim" => op[w].ending
               /\ step = "redeem" => /\ ~op[w].ending /\ ~seen[w].attempt
                                     /\ ReadyToAct(op[w])
               /\ step = "fail" => row' = row
            BY <1>5, FinishFacts DEF Run
      <2>2. /\ pc'[w] = step /\ asof'[w] \in {asof[w], 0}
            /\ step # "sweep" => op'[w] = op[w]
            BY <2>1, GotoIn
      <2>3. MovesOn(w)
            BY <2>1, <2>2 DEF MovesOn, Busy
      <2>4. QED
            BY <2>1, <2>3, GotoIn DEF Acts
<1>6. CASE Redeem(w)
      <2>1. PICK step \in {"claim", "ask", "denied"} :
               /\ Goto(w, step) /\ pc[w] = "redeem" /\ lock' = lock
               /\ step = "ask" => op[w].of \in Planned
            BY <1>6 DEF Redeem
      <2>2. QED
            BY <2>1, GotoIn DEF Acts, MovesOn, Busy
<1>7. CASE Denied(w) \/ AwaitApproval(w)
      <2>1. Goto(w, "sweep") /\ pc[w] \in {"denied", "ask"} /\ lock' = lock
            BY <1>7 DEF Denied, AwaitApproval
      <2>2. QED
            BY <2>1, GotoIn DEF Acts, MovesOn, Busy
<1>8. CASE Claim(w)
      <2>1. PICK step \in {"dispatch", "post"} :
               /\ Goto(w, step) /\ pc[w] = "claim" /\ lock' = lock
               /\ step = "post" => op[w].of \notin Twin
            BY <1>8 DEF Claim
      <2>2. QED
            BY <1>8, <2>1, GotoIn DEF Acts, MovesOn, Busy
<1>9. CASE ClaimRefused(w)
      <2>1. Goto(w, "idle") /\ Release(w) /\ pc[w] = "claim"
            BY <1>9 DEF ClaimRefused, Leave
      <2>2. QED
            BY <2>1, GotoIn, ReleaseFacts DEF Acts, MovesOn, Busy
<1>10. CASE Unavailable(w)
      <2>1. Goto(w, "recheck") /\ pc[w] \in {"claim", "dispatch", "outcome"} /\ lock' = lock
            BY <1>10 DEF Unavailable
      <2>2. QED
            BY <2>1, GotoIn DEF Acts, MovesOn, Busy
<1>11. CASE Dispatch(w) \/ Posted(w)
      <2>1. Goto(w, "outcome") /\ pc[w] \in {"dispatch", "posted"} /\ lock' = lock
            BY <1>11 DEF Dispatch, Posted
      <2>2. QED
            BY <2>1, GotoIn DEF Acts, MovesOn, Busy
<1>12. CASE Post(w)
      <2>1. PICK step \in {"posted", "recheck", "idle"} :
               /\ Goto(w, step) /\ pc[w] \in {"post", "late"}
               /\ step = "posted" => pc[w] = "post"
               /\ step # "idle" => lock' = lock
               /\ step = "idle" => Release(w)
            BY <1>12 DEF Post, Leave
      <2>2. QED
            BY <2>1, GotoIn, ReleaseFacts DEF Acts, MovesOn, Busy
<1>13. CASE Outcome(w)
      <2>1. PICK step \in {"complete", "sweep", "recheck"} :
               Goto(w, step) /\ pc[w] = "outcome" /\ lock' = lock
            BY <1>13, FinishFacts DEF Outcome
      <2>2. QED
            BY <2>1, GotoIn DEF Acts, MovesOn, Busy
<1>14. CASE Recheck(w)
      <2>1. op[w] \in Op /\ pc[w] = "recheck"
            BY <1>14 DEF Recheck, Knows, Busy
      <2>2. PICK step \in {"fail", "hold"} :
               /\ pc' = [pc EXCEPT ![w] = step]
               /\ step = "fail" => row[op[w]].status # "verified"
            BY <1>14 DEF Recheck, AfterRaise
      <2>3. /\ seen' = [seen EXCEPT ![w] = row[op[w]]]
            /\ UNCHANGED <<op, asof, lock, row>>
            BY <1>14 DEF Recheck
      <2>4. QED
            BY <2>1, <2>2, <2>3 DEF Acts, MovesOn, Busy, TypeOK
<1>15. CASE Fail(w)
      <2>1. Goto(w, "read") /\ pc[w] = "fail" /\ lock' = lock
            BY <1>15 DEF Fail
      <2>2. QED
            BY <2>1, GotoIn DEF Acts, MovesOn, Busy
<1>16. CASE ReadActual(w)
      <2>1. PICK step \in {"retry", "hold"} :
               /\ Goto(w, step) /\ pc[w] = "read" /\ lock' = lock
               /\ step = "retry" => ~op[w].ending /\ ~op[w].retry
            BY <1>16 DEF ReadActual
      <2>2. QED
            BY <2>1, GotoIn DEF Acts, MovesOn, Busy
<1>17. CASE Retry(w)
      <2>1. PICK step \in {"complete", "sweep", "hold", "idle"} :
               /\ Goto(w, step) /\ pc[w] = "retry"
               /\ step # "idle" => lock' = lock
               /\ step = "idle" => Release(w)
            BY <1>17, FinishFacts DEF Retry, Leave
      <2>2. QED
            BY <2>1, GotoIn, ReleaseFacts DEF Acts, MovesOn, Busy
<1>18. CASE HoldPlan(w)
      <2>1. PICK step \in {"complete", "sweep"} : Goto(w, step) /\ pc[w] = "hold" /\ lock' = lock
            BY <1>18, FinishFacts DEF HoldPlan
      <2>2. QED
            BY <2>1, GotoIn DEF Acts, MovesOn, Busy
<1>19. CASE CompletePlan(w)
      <2>1. Goto(w, "sweep") /\ pc[w] = "complete" /\ lock' = lock
            BY <1>19 DEF CompletePlan
      <2>2. QED
            BY <2>1, GotoIn DEF Acts, MovesOn, Busy
<1>20. QED
      BY <1>1, <1>2, <1>3, <1>4, <1>5, <1>6, <1>7, <1>8, <1>9, <1>10, <1>11, <1>12, <1>13, <1>14,
         <1>15, <1>16, <1>17, <1>18, <1>19 DEF Step

LEMMA FaultActs ==
    ASSUME TypeOK, NEW w \in Workers, Crash(w) \/ Drop(w)
    PROVE  Acts(w)
<1> USE DEF Steps
<1>1. CASE Crash(w)
      <2>1. Goto(w, "idle") /\ Release(w) /\ pc[w] # "idle"
            BY <1>1 DEF Crash, Leave
      <2>2. QED
            BY <2>1, GotoIn, ReleaseFacts DEF Acts, MovesOn, Sweeps, Busy
<1>2. CASE Drop(w)
      <2>1. PICK step \in {"late", "recheck", "idle"} :
               /\ Goto(w, step) /\ pc[w] # "idle" /\ Release(w)
               /\ step = "late" => pc[w] \in {"post", "late"}
               /\ step = "recheck" => pc[w] \in {"dispatch", "denied", "ask", "run"}
            BY <1>2 DEF Drop
      <2>2. drops' > 0
            BY <1>2 DEF Drop, TypeOK
      <2>3. QED
            BY <2>1, <2>2, GotoIn, ReleaseFacts DEF Acts, MovesOn, Sweeps, Busy
<1>3. QED
      BY <1>1, <1>2

Rests == UNCHANGED <<pc, op, seen, asof, lock>>

LEMMA LocalStep ==
    ASSUME TypeOK, \A w \in Workers : Knows(w), [Next]_vars
    PROVE  (\E w \in Workers : Acts(w)) \/ Rests
<1>1. CASE \E w \in Workers : Step(w) \/ Crash(w) \/ Drop(w)
      BY <1>1, StepActs, FaultActs
<1>2. CASE ~\E w \in Workers : Step(w) \/ Crash(w) \/ Drop(w)
      BY <1>2 DEF Next, Rests, Enqueue, CancelPlan, Drift, QueueRefresh, Resume, Tick, vars, local
<1>3. QED
      BY <1>1, <1>2

\* Time passes only while no device is being asked.
LEMMA ClockStep ==
    ASSUME TypeOK, [Next]_vars
    PROVE  /\ clock' \in Nat /\ clock' >= clock /\ drops' \in Nat /\ drops' >= drops
           /\ crashes' \in Nat /\ changes' \in Nat
           /\ clock' # clock => /\ \A w \in Workers : ~Holding(w)
                               /\ Rests /\ UNCHANGED <<row, asked, device>>
<1>1. ASSUME NEW w \in Workers, Step(w)
      PROVE  UNCHANGED <<clock, drops, crashes, changes>>
      <2>1. CASE StartSweep(w) \/ SchedulePlan(w) \/ EndSweep(w)
                 \/ \E o \in Op : PickEnding(w, o) \/ PickOpening(w, o)
            BY <2>1 DEF StartSweep, SchedulePlan, EndSweep, PickEnding, PickOpening, Pick, bounds
      <2>2. CASE Run(w) \/ Redeem(w) \/ Denied(w) \/ AwaitApproval(w) \/ Claim(w)
                 \/ ClaimRefused(w) \/ Unavailable(w)
            BY <2>2 DEF Run, Redeem, Denied, AwaitApproval, Claim, ClaimRefused, Unavailable, bounds
      <2>3. CASE Dispatch(w) \/ Post(w) \/ Posted(w) \/ Outcome(w) \/ Recheck(w) \/ Fail(w)
                 \/ ReadActual(w) \/ Retry(w) \/ HoldPlan(w) \/ CompletePlan(w)
            BY <2>3 DEF Dispatch, Post, Posted, Outcome, Recheck, Fail, ReadActual, Retry,
                        HoldPlan, CompletePlan, bounds
      <2>4. QED
            BY <1>1, <2>1, <2>2, <2>3 DEF Step
<1>2. CASE \E w \in Workers : Step(w)
      BY <1>1, <1>2 DEF TypeOK
<1>3. CASE Tick
      BY <1>3 DEF Tick, TypeOK, Holding, Rests, local, bounds
<1>4. CASE ~Tick /\ ~\E w \in Workers : Step(w)
      BY <1>4 DEF Next, Crash, Drop, Enqueue, CancelPlan, Drift, QueueRefresh, Resume, TypeOK,
                  bounds, vars
<1>5. QED
      BY <1>2, <1>3, <1>4

\* Only the one that holds an operation asks its device to perform it.
Requests(w) ==
    /\ Holding(w) /\ pc'[w] \notin {"dispatch", "post", "late"}
    /\ asked' = [asked EXCEPT ![op[w]] = @ + 1]
    /\ \/ device' = device
       \/ device' = [device EXCEPT ![Target(op[w])] = IF op[w].ending THEN Rest ELSE op[w].of]
    /\ \A v \in Workers : v # w => pc'[v] = pc[v] /\ op'[v] = op[v]
    /\ UNCHANGED <<clock, plan, drops>>
    /\ pc[w] = "dispatch" \/ row' = row

LEMMA RequestStep ==
    ASSUME TypeOK, \A w \in Workers : Knows(w), [Next]_vars
    PROVE  (\E w \in Workers : Requests(w)) \/ UNCHANGED <<asked, device>>
<1>1. ASSUME NEW w \in Workers, Dispatch(w) \/ Post(w)
      PROVE  Requests(w)
      <2>1. PICK step \in {"posted", "recheck", "idle", "outcome"} : Goto(w, step)
            BY <1>1 DEF Dispatch, Post, Leave
      <2>2. /\ pc'[w] = step /\ \A v \in Workers : v # w => pc'[v] = pc[v] /\ op'[v] = op[v]
            BY <2>1, GotoIn DEF Steps
      <2>3. QED
            BY <1>1, <2>2 DEF Requests, Holding, Dispatch, Post, Perform, bounds
<1>2. ASSUME NEW w \in Workers, Step(w), ~Dispatch(w), ~Post(w)
      PROVE  UNCHANGED <<asked, device>>
      <2>1. CASE StartSweep(w) \/ SchedulePlan(w) \/ EndSweep(w)
                 \/ \E o \in Op : PickEnding(w, o) \/ PickOpening(w, o)
            BY <2>1 DEF StartSweep, SchedulePlan, EndSweep, PickEnding, PickOpening, Pick
      <2>2. CASE Run(w) \/ Redeem(w) \/ Denied(w) \/ AwaitApproval(w) \/ Claim(w)
                 \/ ClaimRefused(w) \/ Unavailable(w)
            BY <2>2 DEF Run, Redeem, Denied, AwaitApproval, Claim, ClaimRefused, Unavailable
      <2>3. CASE Posted(w) \/ Outcome(w) \/ Recheck(w) \/ Fail(w)
                 \/ ReadActual(w) \/ Retry(w) \/ HoldPlan(w) \/ CompletePlan(w)
            BY <2>3 DEF Posted, Outcome, Recheck, Fail, ReadActual, Retry, HoldPlan, CompletePlan
      <2>4. QED
            BY <1>2, <2>1, <2>2, <2>3 DEF Step
<1>3. CASE ~\E w \in Workers : Step(w)
      BY <1>3 DEF Next, Crash, Drop, Enqueue, CancelPlan, Drift, QueueRefresh, Resume, Tick, vars
<1>4. QED
      BY <1>1, <1>2, <1>3

LEMMA PlanStep ==
    ASSUME TypeOK, \A w \in Workers : Knows(w), [Next]_vars
    PROVE  /\ plan' \in Plan /\ asking' \in Op \cup {Nobody}
           /\ plan'.status = "completed" /\ plan.status # "completed" =>
                 \E w \in Workers : pc[w] = "complete" /\ CompletePlan(w) /\ NothingPending
<1> DEFINE Typed == plan' \in Plan /\ asking' \in Op \cup {Nobody}
           Kept == plan'.status # "completed" \/ plan' = plan \/ plan.status = "completed"
<1>1. Refreshing \in Plan /\ Refreshing.status = "refreshing"
      BY DEF TypeOK, Refreshing, Plan
<1>2. \A o, t : Hold(o, t) => (plan' = plan \/ plan' = Refreshing) /\ asking' = asking
      BY DEF Hold
<1>3. CASE UNCHANGED <<plan, asking>>
      BY <1>3 DEF TypeOK
<1>4. CASE plan' = Refreshing /\ asking' = asking
      BY <1>1, <1>4 DEF TypeOK
<1>5. ASSUME NEW w \in Workers, Step(w)
      PROVE  \/ UNCHANGED <<plan, asking>> \/ (plan' = Refreshing /\ asking' = asking)
             \/ AwaitApproval(w) \/ CompletePlan(w)
      <2>1. CASE StartSweep(w) \/ SchedulePlan(w) \/ EndSweep(w)
                 \/ \E o \in Op : PickEnding(w, o) \/ PickOpening(w, o)
            BY <2>1 DEF StartSweep, SchedulePlan, EndSweep, PickEnding, PickOpening, Pick
      <2>2. CASE Run(w)
            BY <1>2, <2>2 DEF Run
      <2>3. CASE Denied(w) \/ HoldPlan(w)
            BY <1>2, <2>3 DEF Denied, HoldPlan
      <2>4. CASE Redeem(w) \/ Claim(w) \/ ClaimRefused(w) \/ Unavailable(w)
            BY <2>4 DEF Redeem, Claim, ClaimRefused, Unavailable
      <2>5. CASE Dispatch(w) \/ Post(w) \/ Posted(w) \/ Outcome(w) \/ Recheck(w) \/ Fail(w)
                 \/ ReadActual(w) \/ Retry(w)
            BY <2>5 DEF Dispatch, Post, Posted, Outcome, Recheck, Fail, ReadActual, Retry
      <2>6. QED
            BY <1>5, <2>1, <2>2, <2>3, <2>4, <2>5 DEF Step
<1>6. ASSUME NEW w \in Workers, AwaitApproval(w)
      PROVE  Typed /\ plan'.status # "completed"
      BY <1>6 DEF AwaitApproval, Knows, Busy, TypeOK, Plan
<1>7. ASSUME NEW w \in Workers, CompletePlan(w)
      PROVE  Typed /\ (Kept \/ (pc[w] = "complete" /\ CompletePlan(w) /\ NothingPending))
      <2>1. CASE plan' = plan
            BY <1>7, <2>1 DEF CompletePlan, TypeOK
      <2>2. CASE NothingPending /\ plan' = [plan EXCEPT !.status = "completed"]
            BY <1>7, <2>2 DEF CompletePlan, TypeOK, Plan
      <2>3. QED
            BY <1>7, <2>1, <2>2 DEF CompletePlan
<1>8. CASE CancelPlan \/ Drift \/ QueueRefresh
      BY <1>1, <1>8 DEF CancelPlan, Drift, QueueRefresh, TypeOK, Plan
<1>9. CASE Resume
      <2>1. CASE Hold(asking, row)
            BY <1>2, <1>3, <1>4, <2>1
      <2>2. CASE plan' = [plan EXCEPT !.status = "approved"] /\ asking' = asking
            BY <2>2 DEF TypeOK, Plan
      <2>3. QED
            BY <1>9, <2>1, <2>2 DEF Resume
<1>10. CASE (\E w \in Workers : Crash(w) \/ Drop(w)) \/ (\E a \in Openings : Enqueue(a)) \/ Tick
            \/ UNCHANGED vars
       BY <1>3, <1>10 DEF Crash, Drop, Enqueue, Tick, vars
<1>11. QED
       BY <1>3, <1>4, <1>5, <1>6, <1>7, <1>8, <1>9, <1>10 DEF Next

LEMMA TriesStep ==
    ASSUME TypeOK, RowsKnow, RetryOnce, \A w \in Workers : Knows(w), [Next]_vars
    PROVE  tries' \in [Openings -> Nat] /\ \A a \in Openings : tries'[a] <= 1
<1>1. CASE tries' = tries
      BY <1>1 DEF TypeOK, RetryOnce
<1>2. ASSUME NEW w \in Workers, Retry(w)
      PROVE  tries' \in [Openings -> Nat] /\ \A a \in Openings : tries'[a] <= 1
      <2>1. op[w].of \in Openings
            BY <1>2, OpFacts DEF Retry, Knows, Busy
      <2>2. \/ tries' = tries
            \/ tries[op[w].of] = 0 /\ tries' = [tries EXCEPT ![op[w].of] = @ + 1]
            BY <1>2 DEF Retry, MayRetry
      <2>3. QED
            BY <2>1, <2>2 DEF TypeOK, RetryOnce
<1>3. ASSUME NEW w \in Workers, Step(w), ~Retry(w)
      PROVE  tries' = tries
      <2>1. CASE StartSweep(w) \/ SchedulePlan(w) \/ EndSweep(w)
                 \/ \E o \in Op : PickEnding(w, o) \/ PickOpening(w, o)
            BY <2>1 DEF StartSweep, SchedulePlan, EndSweep, PickEnding, PickOpening, Pick
      <2>2. CASE Run(w) \/ Redeem(w) \/ Denied(w) \/ AwaitApproval(w) \/ Claim(w)
                 \/ ClaimRefused(w) \/ Unavailable(w)
            BY <2>2 DEF Run, Redeem, Denied, AwaitApproval, Claim, ClaimRefused, Unavailable
      <2>3. CASE Dispatch(w) \/ Post(w) \/ Posted(w) \/ Outcome(w) \/ Recheck(w) \/ Fail(w)
                 \/ ReadActual(w) \/ HoldPlan(w) \/ CompletePlan(w)
            BY <2>3 DEF Dispatch, Post, Posted, Outcome, Recheck, Fail, ReadActual, HoldPlan, CompletePlan
      <2>4. QED
            BY <1>3, <2>1, <2>2, <2>3 DEF Step
<1>4. CASE ~\E w \in Workers : Step(w)
      <2>1. tries' = tries
            BY <1>4 DEF Next, Crash, Drop, Enqueue, CancelPlan, Drift, QueueRefresh, Resume, Tick, vars
      <2>2. QED
            BY <1>1, <2>1
<1>5. QED
      BY <1>1, <1>2, <1>3, <1>4

-----------------------------------------------------------------------------
(* The invariant is kept.                                                  *)

LEMMA TypeStep ==
    ASSUME TypeOK, RowsKnow, RetryOnce, \A w \in Workers : Knows(w), Moves(row'), [Next]_vars
    PROVE  TypeOK'
<1>1. given' \in Situations /\ overlapped' \in BOOLEAN
      BY SameGiven, OverlapStep DEF TypeOK
<1>2. clock' \in Nat /\ drops' \in Nat /\ crashes' \in Nat /\ changes' \in Nat
      BY ClockStep
<1>3. /\ pc' \in [Workers -> Steps] /\ op' \in [Workers -> Op \cup {Nobody}]
      /\ seen' \in [Workers -> Row] /\ asof' \in [Workers -> Nat]
      /\ lock' \in Workers \cup {Nobody}
      BY LocalStep DEF Acts, Rests, TypeOK
<1>4. row' \in [Op -> Row]
      BY DEF Moves
<1>5. tries' \in [Openings -> Nat]
      BY TriesStep
<1>6. plan' \in Plan /\ asking' \in Op \cup {Nobody}
      BY PlanStep
<1>7. asked' \in [Op -> Nat] /\ device' \in [Targets -> Openings \cup {Rest}]
      <2>1. ASSUME NEW w \in Workers, Requests(w)
            PROVE  asked' \in [Op -> Nat] /\ device' \in [Targets -> Openings \cup {Rest}]
            <3>1. op[w] \in Op
                  BY <2>1 DEF Requests, Holding, Knows, Busy
            <3>2. op[w].of \in Openings
                  BY <3>1, OpFacts
            <3>3. QED
                  BY <2>1, <3>1, <3>2 DEF Requests, TypeOK
      <2>2. QED
            BY <2>1, RequestStep DEF TypeOK
<1>8. QED
      BY <1>1, <1>2, <1>3, <1>4, <1>5, <1>6, <1>7, SameGiven DEF TypeOK

LEMMA KnowsStep ==
    ASSUME TypeOK, \A w \in Workers : Knows(w) /\ Claiming(w), Moves(row'), [Next]_vars,
           NEW w \in Workers
    PROVE  Knows(w)'
<1> USE SameGiven
<1>1. clock' >= clock /\ clock \in Nat /\ clock' \in Nat /\ asof[w] \in Nat /\ asof[w] <= clock
      BY ClockStep DEF TypeOK, Knows
<1>2. \A o \in Op : row[o].due \in Nat /\ row'[o].due \in Nat
      BY DEF TypeOK, Moves, Row
<1>3. CASE pc'[w] = pc[w] /\ op'[w] = op[w] /\ asof'[w] = asof[w]
      BY <1>1, <1>2, <1>3 DEF Knows, Busy, Moves
<1>4. CASE MovesOn(w)
      <2>1. asof'[w] <= clock'
            BY <1>1, <1>4 DEF MovesOn
      <2>2. Busy(w)' => /\ op'[w] = op[w] /\ op[w] \in Op
                        /\ row'[op[w]].status # "none" /\ row'[op[w]].due <= clock'
            BY <1>1, <1>2, <1>4 DEF MovesOn, Knows, Moves
      <2>3. pc'[w] \in {"redeem", "denied", "ask"} => ~op'[w].ending
            BY <1>4, <2>2 DEF MovesOn, Knows, Busy
      <2>4. pc'[w] = "retry" => ~op'[w].ending /\ ~op'[w].retry
            BY <1>4, <2>2 DEF MovesOn, Busy
      <2>5. pc'[w] \in {"posted", "outcome"} => row'[op'[w]].attempt
            BY <1>4, <2>2 DEF MovesOn, Busy, Knows, Claiming, Holding, Moves
      <2>6. pc'[w] \in {"post", "late"} => op'[w].of \notin Twin
            BY <1>4, <2>2 DEF MovesOn, Busy, Knows
      <2>7. QED
            BY <2>1, <2>2, <2>3, <2>4, <2>5, <2>6 DEF Knows
<1>5. CASE Picks(w)
      BY <1>1, <1>2, <1>5 DEF Picks, Knows, Busy
<1>6. CASE Sweeps(w)
      <2>1. asof'[w] <= clock'
            BY <1>1, <1>6 DEF Sweeps
      <2>2. QED
            BY <1>6, <2>1 DEF Sweeps, Knows, Busy
<1>7. QED
      BY <1>3, <1>4, <1>5, <1>6, LocalStep DEF Acts, Rests

\* The part of the invariant that the steps below start from.
Core ==
    /\ TypeOK /\ RowsKnow /\ OneHolder
    /\ \A w \in Workers : Knows(w) /\ Claiming(w)

LEMMA AskedOnce ==
    ASSUME Core, [Next]_vars, NEW o \in Op
    PROVE  \/ asked'[o] = asked[o]
           \/ \E w \in Workers : Requests(w) /\ op[w] = o /\ asked[o] = 0 /\ asked'[o] = 1
<1>1. ASSUME NEW w \in Workers, Requests(w), op[w] = o
      PROVE  asked[o] = 0 /\ asked'[o] = 1
      BY <1>1 DEF Requests, Core, Claiming, TypeOK
<1>2. ASSUME NEW w \in Workers, Requests(w), op[w] # o
      PROVE  asked'[o] = asked[o]
      BY <1>2 DEF Requests, Core, TypeOK
<1>3. QED
      BY <1>1, <1>2, RequestStep DEF Core

LEMMA RowsStep ==
    ASSUME Core, Moves(row'), [Next]_vars
    PROVE  RowsKnow'
<1>1. ASSUME NEW o \in Op, asked'[o] > 0
      PROVE  row'[o].attempt
      BY <1>1, AskedOnce DEF Core, RowsKnow, Moves, Requests, Claiming
<1>2. QED
      BY <1>1, SameGiven DEF Moves, RowsKnow

LEMMA ClaimingStep ==
    ASSUME Core, Moves(row'), [Next]_vars, NEW w \in Workers
    PROVE  Claiming(w)'
<1> USE SameGiven
<1> SUFFICES ASSUME Holding(w)'
             PROVE  /\ row'[op'[w]].attempt /\ asked'[op'[w]] = 0
                    /\ ~op'[w].ending =>
                          /\ clock' < Deadline[op'[w].of]
                          /\ op'[w].of \in Bounded =>
                                /\ row'[EndingOf(op'[w])].status = "scheduled"
                                /\ row'[EndingOf(op'[w])].due > clock'
    <2>1. clock' \in Nat /\ \A o \in Op : Deadline[o.of] \in Nat
          BY ClockStep, GivenFacts, OpFacts DEF Core
    <2>2. Holding(w)' => op'[w] \in Op
          BY KnowsStep DEF Knows, Busy, Holding, Core
    <2>3. QED
          BY <2>1, <2>2 DEF Claiming, Expired, EndingOf
<1>1. CASE Holding(w) /\ op'[w] = op[w]
      <2>1. PICK o \in Op : o = op[w]
            BY <1>1 DEF Core, Knows, Holding, Busy
      <2>2. clock' = clock
            BY <1>1, ClockStep DEF Core
      <2>3. ~\E v \in Workers : Requests(v) /\ op[v] = o
            BY <1>1, <2>1 DEF Requests, Core, OneHolder, Holding
      <2>4. asked'[o] = 0 /\ row'[o].attempt
            BY <1>1, <2>1, <2>3, AskedOnce DEF Core, Claiming, Moves
      <2>5. ASSUME ~o.ending
            PROVE  /\ clock' < Deadline[o.of]
                   /\ o.of \in Bounded =>
                         /\ row'[EndingOf(o)].status = "scheduled"
                         /\ row'[EndingOf(o)].due > clock'
            <3>1. clock < Deadline[o.of]
                  <4>1. clock \in Nat /\ Deadline[o.of] \in Nat
                        BY GivenFacts, OpFacts DEF Core, TypeOK
                  <4>2. QED
                        BY <1>1, <2>1, <2>5, <4>1 DEF Core, Claiming, Expired
            <3>2. ASSUME o.of \in Bounded
                  PROVE  row'[EndingOf(o)].status = "scheduled" /\ row'[EndingOf(o)].due > clock
                  <4>1. PICK e \in Op : e = EndingOf(o) /\ e.ending
                        BY OpFacts
                  <4>2. row[e].status = "scheduled" /\ row[e].due > clock /\ row[e].due \in Nat
                        /\ clock \in Nat
                        BY <1>1, <2>1, <2>5, <3>2, <4>1 DEF Core, Claiming, TypeOK, Row
                  <4>3. ~\E v \in Workers : Busy(v) /\ op[v] = e
                        BY <4>2 DEF Core, Knows
                  <4>4. row'[e].status = "scheduled" /\ row'[e].due = row[e].due
                        BY <4>1, <4>2, <4>3 DEF Moves
                  <4>5. QED
                        BY <4>1, <4>2, <4>4
            <3>3. QED
                  BY <2>2, <3>1, <3>2
      <2>6. QED
            BY <1>1, <2>1, <2>4, <2>5
<1>2. CASE Claim(w) /\ op'[w] = op[w]
      <2>1. PICK o \in Op : o = op[w]
            BY <1>2 DEF Core, Knows, Busy, Claim
      <2>2. /\ row[o].status = "scheduled" /\ ~row[o].attempt /\ row' = Claimed(o)
            /\ asked' = asked /\ clock' = clock /\ (~o.ending => ~Expired(o))
            BY <1>2, <2>1 DEF Claim, Claimable
      <2>3. asked[o] = 0
            BY <2>2 DEF Core, RowsKnow, TypeOK
      <2>4. /\ row'[o].attempt
            /\ o.of \in Bounded /\ ~o.ending => /\ row'[EndingOf(o)].status = "scheduled"
                                               /\ row'[EndingOf(o)].due = EndingDue(o)
            BY <2>2, ClaimFacts DEF Core
      <2>5. o.of \in Bounded /\ ~o.ending => EndingDue(o) > clock
            BY <2>2, DueFacts DEF Core
      <2>6. ~o.ending => clock < Deadline[o.of]
            <3>1. clock \in Nat /\ Deadline[o.of] \in Nat
                  BY GivenFacts, OpFacts DEF Core, TypeOK
            <3>2. QED
                  BY <2>2, <3>1 DEF Expired
      <2>7. QED
            BY <1>2, <2>1, <2>2, <2>3, <2>4, <2>5, <2>6
<1>3. (Holding(w) \/ Claim(w)) /\ op'[w] = op[w]
      BY LocalStep DEF Acts, Rests, MovesOn, Picks, Sweeps, Holding, Core, Busy
<1>4. QED
      BY <1>1, <1>2, <1>3

LEMMA OneHolderStep ==
    ASSUME Core, [Next]_vars
    PROVE  OneHolder'
<1>1. ASSUME NEW v \in Workers, NEW w \in Workers, v # w, Acts(w),
             Holding(v)', Holding(w)', op'[v] = op'[w]
      PROVE  FALSE
      <2>1. Holding(v) /\ op'[v] = op[v]
            BY <1>1 DEF Acts, Holding
      <2>2. (Holding(w) \/ Claim(w)) /\ op'[w] = op[w]
            BY <1>1 DEF Acts, MovesOn, Picks, Sweeps, Holding, Busy
      <2>3. ~Claim(w)
            BY <1>1, <2>1, <2>2 DEF Core, Claiming, Claim, Claimable
      <2>4. QED
            BY <1>1, <2>1, <2>2, <2>3 DEF Core, OneHolder
<1>2. ASSUME NEW u \in Workers, Acts(u), NEW v \in Workers, NEW w \in Workers, v # u, w # u,
             Holding(v)', Holding(w)', op'[v] = op'[w]
      PROVE  v = w
      BY <1>2 DEF Acts, Holding, Core, OneHolder
<1>3. CASE \E u \in Workers : Acts(u)
      BY <1>1, <1>2, <1>3 DEF OneHolder
<1>4. CASE Rests
      BY <1>4 DEF Rests, OneHolder, Core, Holding
<1>5. QED
      BY <1>3, <1>4, LocalStep DEF Core

LEMMA OneEffectStep ==
    ASSUME Core, OneEffect, [Next]_vars
    PROVE  OneEffect'
<1>1. AtMostOneEffect'
      BY AskedOnce, SameGiven DEF OneEffect, AtMostOneEffect
<1>2. RetryOnce'
      BY TriesStep, SameGiven DEF OneEffect, RetryOnce, Core
<1>3. QED
      BY <1>1, <1>2 DEF OneEffect

LEMMA EndedStep ==
    ASSUME Core, BoundedUntilEnded, Moves(row'), [Next]_vars
    PROVE  BoundedUntilEnded'
<1> USE SameGiven
<1> SUFFICES ASSUME NEW a \in Bounded, device'[TargetOf[a]] = a
             PROVE  \E o \in Op : /\ o.of = a /\ ~o.ending /\ row'[o].attempt
                                 /\ row'[EndingOf(o)].status \in Runnable \cup {"failed"}
    BY DEF BoundedUntilEnded
<1>1. a \in Openings /\ a # Rest /\ TargetOf[a] \in Targets
      BY GivenFacts, ExecutorAssumption DEF Core
<1>2. ASSUME NEW o \in Op, o.of = a, ~o.ending, row[o].attempt,
             row[EndingOf(o)].status \in Runnable \cup {"failed"},
             device[TargetOf[a]] = a \/ device' # device
      PROVE  row'[o].attempt /\ row'[EndingOf(o)].status \in Runnable \cup {"failed"}
      <2>1. PICK e \in Op : e = EndingOf(o) /\ e.ending /\ Target(e) = TargetOf[a]
            BY <1>2, OpFacts DEF Target
      <2>2. ~(device[Target(e)] = Rest /\ device' = device)
            BY <1>1, <1>2, <2>1
      <2>3. QED
            BY <1>2, <2>1, <2>2 DEF Moves
<1>3. CASE device[TargetOf[a]] = a
      BY <1>2, <1>3 DEF BoundedUntilEnded
<1>4. CASE device[TargetOf[a]] # a
      <2>1. PICK w \in Workers : Requests(w)
            BY <1>4, RequestStep DEF Core
      <2>2. PICK o \in Op : o = op[w]
            BY <2>1 DEF Requests, Holding, Core, Knows, Busy
      <2>3. device' = [device EXCEPT ![Target(o)] = IF o.ending THEN Rest ELSE o.of]
            BY <1>4, <2>1, <2>2 DEF Requests
      <2>4. o.of = a /\ ~o.ending
            BY <1>1, <1>4, <2>3 DEF Core, TypeOK
      <2>5. row[o].attempt /\ row[EndingOf(o)].status = "scheduled"
            BY <2>1, <2>2, <2>4 DEF Requests, Core, Claiming
      <2>6. QED
            BY <1>2, <1>4, <2>4, <2>5 DEF Runnable
<1>5. QED
      BY <1>3, <1>4

\* While sweeps are exclusive, only the worker that sweeps acts.
LEMMA Alone ==
    ASSUME Core, Exclusive, drops = 0, [Next]_vars, NEW w \in Workers, pc[w] # "idle"
    PROVE  /\ Acts(w) \/ Rests
           /\ \A v \in Workers : v # w => pc[v] = "idle"
<1>1. lock = w /\ w # Nobody
      BY ExecutorAssumption DEF Exclusive
<1>2. \A v \in Workers : v # w => pc[v] = "idle"
      BY <1>1 DEF Exclusive
<1>3. ASSUME NEW v \in Workers, v # w, Acts(v)
      PROVE  FALSE
      BY <1>1, <1>2, <1>3 DEF Acts, MovesOn, Picks, Sweeps, Busy
<1>4. QED
      BY <1>2, <1>3, LocalStep DEF Core

Acting == {"run", "redeem", "denied", "ask", "claim", "dispatch", "post", "posted", "outcome", "fail"}

LEMMA ExclusiveStep ==
    ASSUME Core, Exclusive, Moves(row'), [Next]_vars
    PROVE  Exclusive'
<1> USE SameGiven
<1> SUFFICES ASSUME drops' = 0, NEW w \in Workers
             PROVE  /\ pc'[w] # "idle" => lock' = w
                    /\ pc'[w] # "late"
                    /\ pc'[w] \in Acting => row'[op'[w]].status # "verified"
                    /\ pc'[w] \in {"redeem", "claim", "dispatch"} /\ op'[w].of \in Doors
                          /\ ~op'[w].ending => device'[TargetOf[op'[w].of]] = Rest
                    /\ plan'.status = "completed" /\ Holding(w)' /\ ~op'[w].ending
                          => op'[w].of \notin Planned
    BY DEF Exclusive, Acting, Target
<1>1. drops = 0
      BY ClockStep DEF Core, TypeOK
<1>2. pc'[w] # "idle" => lock' = w
      <2>1. CASE pc[w] # "idle"
            <3>1. lock = w /\ w # Nobody
                  BY <1>1, <2>1, ExecutorAssumption DEF Exclusive
            <3>2. QED
                  BY <1>1, <2>1, <3>1, Alone DEF Acts, Rests
      <2>2. CASE pc[w] = "idle" /\ Acts(w)
            BY <2>2 DEF Acts, MovesOn, Picks, Sweeps, Busy
      <2>3. CASE pc[w] = "idle" /\ ~Acts(w)
            BY <2>3, LocalStep DEF Acts, Rests, Core
      <2>4. QED
            BY <2>1, <2>2, <2>3
<1>3. CASE pc[w] = "idle"
      <2>1. pc'[w] \in {"idle", "sweep"}
            BY <1>3, LocalStep DEF Acts, Rests, MovesOn, Picks, Sweeps, Busy, Core
      <2>2. QED
            BY <1>2, <2>1 DEF Acting, Holding
<1>4. CASE pc[w] # "idle"
      <2>1. (Acts(w) \/ Rests) /\ \A v \in Workers : v # w => pc[v] = "idle"
            BY <1>1, <1>4, Alone
      <2>2. pc'[w] # "late"
            BY <1>1, <2>1 DEF Acts, Rests, MovesOn, Picks, Sweeps, Exclusive
      <2>3. ASSUME pc'[w] \in Acting
            PROVE  row'[op'[w]].status # "verified"
            <3>1. CASE Picks(w)
                  <4>1. lock = w /\ row' = row
                        BY <1>1, <1>4, <3>1 DEF Picks, Exclusive
                  <4>2. QED
                        BY <3>1, <4>1 DEF Picks, Runnable
            <3>2. CASE ~Picks(w)
                  <4>1. op'[w] = op[w] /\ op[w] \in Op
                        BY <2>1, <2>3, <3>2 DEF Acts, Rests, MovesOn, Sweeps, Acting, Busy, Core, Knows
                  <4>2. pc[w] \in Acting \/ (row[op[w]].status # "verified" /\ row' = row)
                        BY <2>1, <2>3, <3>2
                        DEF Acts, Rests, MovesOn, Sweeps, Acting, Claim
                  <4>3. row[op[w]].status # "verified"
                        BY <1>1, <4>2 DEF Exclusive, Acting
                  <4>4. ~\E v \in Workers : pc[v] = "outcome" /\ op[v] = op[w] /\ pc'[v] \in Done
                        BY <2>1, <2>3 DEF Acting, Done
                  <4>5. QED
                        BY <4>1, <4>3, <4>4 DEF Moves
            <3>3. QED
                  BY <3>1, <3>2
      <2>4. ASSUME pc'[w] \in {"redeem", "claim", "dispatch"}, op'[w].of \in Doors, ~op'[w].ending
            PROVE  device'[TargetOf[op'[w].of]] = Rest
            <3>1. op'[w] = op[w]
                  BY <2>1, <2>4 DEF Acts, Rests, MovesOn, Picks, Sweeps, Busy
            <3>2. device[TargetOf[op[w].of]] = Rest
                  <4>1. CASE pc[w] \in {"redeem", "claim", "dispatch"}
                        BY <1>1, <2>4, <3>1, <4>1 DEF Exclusive, Target
                  <4>2. CASE pc[w] = "run" /\ ReadyToAct(op[w])
                        BY <2>4, <3>1, <4>2 DEF ReadyToAct, Target
                  <4>3. QED
                        BY <2>1, <2>4, <3>1, <4>1, <4>2
                        DEF Acts, Rests, MovesOn, Picks, Sweeps, Claim
            <3>3. device' = device
                  <4>1. ASSUME NEW v \in Workers, Requests(v)
                        PROVE  FALSE
                        <5>1. v = w
                              BY <2>1, <4>1 DEF Requests, Holding
                        <5>2. QED
                              BY <2>1, <2>4, <4>1, <5>1
                              DEF Requests, Holding, Acts, Rests, MovesOn, Picks, Sweeps, Claim
                  <4>2. QED
                        BY <4>1, RequestStep DEF Core
            <3>4. QED
                  BY <3>1, <3>2, <3>3
      <2>5. ASSUME plan'.status = "completed", Holding(w)', ~op'[w].ending
            PROVE  op'[w].of \notin Planned
            <3>1. op'[w] = op[w] /\ (Holding(w) \/ Claim(w))
                  BY <2>1, <2>5 DEF Acts, Rests, MovesOn, Picks, Sweeps, Holding, Busy
            <3>2. plan.status = "completed"
                  <4>1. ASSUME NEW v \in Workers, pc[v] = "complete", CompletePlan(v)
                        PROVE  FALSE
                        <5>1. v = w
                              BY <2>1, <4>1
                        <5>2. QED
                              BY <3>1, <4>1, <5>1 DEF Holding, Claim
                  <4>2. QED
                        BY <2>5, <4>1, PlanStep DEF Core
            <3>3. CASE Holding(w)
                  BY <1>1, <2>5, <3>1, <3>2, <3>3 DEF Exclusive
            <3>4. CASE Claim(w)
                  BY <2>5, <3>1, <3>2, <3>4 DEF Claim, Claimable, Authorized
            <3>5. QED
                  BY <3>1, <3>3, <3>4
      <2>6. QED
            BY <1>2, <2>2, <2>3, <2>4, <2>5
<1>5. QED
      BY <1>3, <1>4

LEMMA CompletedStep ==
    ASSUME Core, Exclusive, BoundedUntilEnded, CompletedLeavesNothing, [Next]_vars
    PROVE  CompletedLeavesNothing'
<1> USE SameGiven
<1> SUFFICES ASSUME plan'.status = "completed", drops' = 0, NEW a \in Planned \cap Bounded,
                    device'[TargetOf[a]] = a
             PROVE  FALSE
    BY DEF CompletedLeavesNothing
<1>1. drops = 0
      BY ClockStep DEF Core, TypeOK
<1>2. a \in Openings /\ a # Rest /\ TargetOf[a] \in Targets
      BY GivenFacts, ExecutorAssumption DEF Core
<1>3. CASE plan.status = "completed"
      <2>1. device[TargetOf[a]] # a
            BY <1>1, <1>3 DEF CompletedLeavesNothing
      <2>2. PICK w \in Workers : Requests(w)
            BY <2>1, RequestStep DEF Core
      <2>3. PICK o \in Op : o = op[w]
            BY <2>2 DEF Requests, Holding, Core, Knows, Busy
      <2>4. device' = [device EXCEPT ![Target(o)] = IF o.ending THEN Rest ELSE o.of]
            BY <2>1, <2>2, <2>3 DEF Requests
      <2>5. o.of = a /\ ~o.ending
            BY <1>2, <2>1, <2>4 DEF Core, TypeOK
      <2>6. QED
            BY <1>1, <1>3, <2>2, <2>3, <2>5 DEF Requests, Exclusive
<1>4. CASE plan.status # "completed"
      <2>1. PICK w \in Workers : CompletePlan(w) /\ NothingPending
            BY <1>4, PlanStep DEF Core
      <2>2. device[TargetOf[a]] = a
            BY <2>1 DEF CompletePlan
      <2>3. PICK o \in Op : /\ o.of = a /\ ~o.ending
                           /\ row[EndingOf(o)].status \in Runnable \cup {"failed"}
            BY <2>2 DEF BoundedUntilEnded
      <2>4. PICK e \in Op : e = EndingOf(o) /\ e.ending /\ e.of = a
            BY <2>3, OpFacts
      <2>5. QED
            BY <2>1, <2>3, <2>4 DEF NothingPending, Runnable
<1>5. QED
      BY <1>3, <1>4

LEMMA InitInv == Init => Inv
<1> SUFFICES ASSUME Init PROVE Inv
    OBVIOUS
<1>1. TypeOK
      BY DEF Init, TypeOK, NoRow, Row, Statuses, Plan, Steps
<1>2. \A o \in Op : /\ row[o].status = "none" /\ ~row[o].attempt /\ asked[o] = 0
      BY DEF Init, NoRow
<1>3. RowsKnow
      BY <1>2 DEF RowsKnow
<1>4. \A w \in Workers : Knows(w) /\ Claiming(w)
      BY DEF Init, Knows, Claiming, Busy, Holding
<1>5. OneHolder /\ Exclusive
      BY DEF Init, OneHolder, Exclusive, Holding
<1>6. OneEffect
      BY <1>2 DEF Init, OneEffect, AtMostOneEffect, RetryOnce
<1>7. BoundedUntilEnded /\ CompletedLeavesNothing
      <2>1. \A a \in Bounded : a # Rest /\ TargetOf[a] \in Targets
            BY <1>1, GivenFacts, ExecutorAssumption
      <2>2. \A a \in Bounded : device[TargetOf[a]] # a
            BY <2>1 DEF Init
      <2>3. QED
            BY <2>2 DEF BoundedUntilEnded, CompletedLeavesNothing
<1>8. QED
      BY <1>1, <1>3, <1>4, <1>5, <1>6, <1>7 DEF Inv

THEOREM Invariant == Spec => []Inv
<1>1. Inv /\ [Next]_vars => Inv'
      <2> SUFFICES ASSUME Inv, [Next]_vars PROVE Inv'
          OBVIOUS
      <2>1. Core /\ RetryOnce
            BY DEF Inv, Core, OneEffect
      <2>2. Moves(row')
            BY RowStep DEF Inv
      <2>3. TypeOK' /\ RowsKnow' /\ OneHolder'
            BY <2>1, <2>2, TypeStep, RowsStep, OneHolderStep DEF Core
      <2>4. \A w \in Workers : Knows(w)' /\ Claiming(w)'
            BY <2>1, <2>2, KnowsStep, ClaimingStep DEF Core
      <2>5. OneEffect' /\ BoundedUntilEnded' /\ Exclusive' /\ CompletedLeavesNothing'
            BY <2>1, <2>2, OneEffectStep, EndedStep, ExclusiveStep, CompletedStep DEF Inv
      <2>6. QED
            BY <2>3, <2>4, <2>5 DEF Inv
<1>2. QED
      BY <1>1, InitInv, PTL DEF Spec

-----------------------------------------------------------------------------
(* Bounded operations on one target, while sweeps are exclusive.           *)

Openers == {o \in Op : ~o.ending /\ o.of \in Bounded}
Ended(p) == row[EndingOf(p)].status = "verified"

\* An opening that was claimed, or that a sweep may still claim.
InTheWay(p) == row[p].attempt \/ row[p].status = "scheduled"

\* A worker runs o and may claim it.
Running(o) ==
    \E w \in Workers : op[w] = o /\ pc[w] \in {"run", "redeem", "denied", "ask", "claim"}

\* What endings and claims say of each other.
EndingsKnow ==
    \A o \in Op :
        /\ row[o].attempt => row[o].due <= clock
        /\ o.ending /\ row[o].status # "none" =>
              /\ o.of \in Bounded /\ row[o].status \notin Stopped
              /\ o.of \notin Doors => row[o].due = Stop[o.of]
        /\ o.of \in Bounded /\ ~o.ending /\ row[o].attempt => row[EndingOf(o)].status # "none"

\* What was claimed is not stopped, and where a worker is says what its row says.
Placed ==
    /\ \A o \in Op : row[o].attempt => row[o].status \notin Stopped
    /\ \A w \in Workers :
        /\ pc[w] = "run" => seen[w].attempt = row[op[w]].attempt
        /\ pc[w] \in {"redeem", "denied", "ask"} => ~row[op[w]].attempt
        /\ pc[w] = "ask" => op[w].of \in Planned
        /\ pc[w] \in {"dispatch", "post", "posted"} => row[op[w]].status = "executing"
        /\ Busy(w) /\ pc[w] # "complete" => row[op[w]].status # "skipped"

\* Of two openings that may be in force on one target at once, one has ended.
Clear ==
    \A p, q \in Openers :
        InTheWay(p) /\ InTheWay(q) /\ Overlap(p.of, row[p].due, q.of, row[q].due)
            => Ended(p) \/ Ended(q)

\* No opening is run before what was to end by its start has been ended or has failed to.
Passed ==
    \A p, q \in Openers :
        /\ row[p].attempt /\ p.of \notin Doors /\ (row[q].attempt \/ Running(q))
        /\ Stop[p.of] <= row[q].due
        => row[EndingOf(p)].status \in {"verified", "failed"}

\* The plan was never scheduled: it is paused for nobody, and none of it runs.
Untouched ==
    /\ plan.status # "awaiting"
    /\ \A w \in Workers : Busy(w) => op[w].of \notin Planned
    /\ \A o \in Op : o.of \in Planned =>
          /\ ~row[o].attempt /\ row[o].status \in Stopped \cup {"none"}
          /\ o.retry \/ o.ending => row[o].status = "none"
    /\ plan.status = "approved" => \A a \in Planned : row[First(a)].status = "none"

\* Openings and retries of the plan that were scheduled, on hold or not, do not overlap.
Laid(o) == o.of \in Planned /\ ~o.ending /\ row[o].status \notin {"none", "skipped"}
Spread ==
    /\ \A a \in Planned : row[First(a)].status # "none"
    /\ \A p, q \in Op : Laid(p) /\ Laid(q) => ~Overlap(p.of, row[p].due, q.of, row[q].due)

\* A device holds an opening of its own.
OnItsDevice == \A t \in Targets : device[t] # Rest => TargetOf[device[t]] = t

Orderly == EndingsKnow /\ Placed /\ Clear /\ Passed /\ (Untouched \/ Spread) /\ OnItsDevice

\* How the row of o may change in a step, if t are the rows after it.
Same(t, o) ==
    t[o].status = row[o].status /\ t[o].attempt = row[o].attempt /\ t[o].due = row[o].due

Stops(t, o) ==
    /\ ~o.ending /\ ~row[o].attempt /\ ~t[o].attempt /\ t[o].status \in Stopped
    /\ row[o].status # "skipped"
    /\ row[o].status # "none" => t[o].due = row[o].due
    /\ row[o].status = "none" => plan'.status # "approved"
    /\ o.retry => row[o].status # "none"
    /\ row[o].status # "none" /\ t[o].status = "skipped" =>
          \E w \in Workers : op[w] = o /\ pc[w] = "run" /\ pc'[w] \in {"complete", "sweep"}

Reports(t, o) ==
    /\ t[o].attempt = row[o].attempt /\ t[o].due = row[o].due
    /\ t[o].status \in {"dispatched", "verified", "failed"}
    /\ \E w \in Workers :
          /\ op[w] = o /\ pc[w] \in {"dispatch", "posted", "outcome", "fail"} /\ pc'[w] # pc[w]
          /\ t[o].status = "dispatched" => pc[w] \in {"dispatch", "posted"}
          /\ t[o].status = "verified" => row[o].attempt

Claims(t, o) ==
    \E w \in Workers :
        /\ Claim(w) /\ op[w] = o /\ ~row[o].attempt /\ row[o].status = "scheduled"
        /\ t[o].attempt /\ t[o].status = "executing" /\ t[o].due = row[o].due

Begins(t, o) ==
    \E w \in Workers :
        /\ Claim(w) /\ o.ending /\ op[w] = Opening(o) /\ o.of \in Bounded
        /\ row[o].status = "none"
        /\ t[o].status = "scheduled" /\ ~t[o].attempt /\ t[o].due = EndingDue(Opening(o))

\* A new opening overlaps with nothing that is in the way; a retry starts later than
\* what it repeats.
Opens(t, o) ==
    /\ ~o.ending /\ row[o].status = "none" /\ t[o].status = "scheduled" /\ ~t[o].attempt
    /\ \A q \in Openers : /\ o.of \in Bounded /\ (t[q].attempt \/ t[q].status = "scheduled")
                          /\ Overlap(o.of, t[o].due, q.of, t[q].due)
                          => Ended(q)
    /\ ~o.retry => \/ o.of \notin Planned
                   \/ plan'.status = "approved" /\ \E w \in Workers : SchedulePlan(w)
    /\ o.retry => \E w \in Workers :
          /\ Busy(w) /\ op[w].of = o.of /\ ~op[w].ending /\ row[op[w]].status = "failed"
          /\ row[op[w]].due <= t[o].due

Resumes(t, o) ==
    /\ Resume /\ plan.status = "awaiting"
    /\ o.of \in Planned /\ ~o.ending /\ ~row[o].attempt /\ row[o].status = "held"
    /\ ~t[o].attempt /\ t[o].status = "scheduled" /\ t[o].due = row[o].due

Turns(t, o) ==
    \/ Same(t, o) \/ Stops(t, o) \/ Reports(t, o) \/ Claims(t, o) \/ Begins(t, o)
    \/ Opens(t, o) \/ Resumes(t, o)

-----------------------------------------------------------------------------
(* The row of an operation turns in one of these ways.                     *)

LEMMA PlaceFacts ==
    ASSUME Inv, Placed, NEW w \in Workers, Busy(w)
    PROVE  /\ op[w] \in Op /\ row[op[w]].status # "none"
           /\ pc[w] # "complete" => row[op[w]].status # "skipped"
           /\ pc[w] \in {"redeem", "denied", "ask"} => ~row[op[w]].attempt /\ ~op[w].ending
BY DEF Inv, Placed, Knows

LEMMA StopTurns ==
    ASSUME TypeOK, RowsKnow, NEW t \in [Op -> Row], NEW s \in {"held", "cancelled"},
           \A o \in Op : Same(t, o) \/ Stops(t, o), plan'.status # "approved", NEW o \in Op
    PROVE  Same(StopUnstarted(t, s), o) \/ Stops(StopUnstarted(t, s), o)
<1>1. PICK u : u = StopUnstarted(t, s)
      OBVIOUS
<1>2. /\ u[o].attempt = t[o].attempt /\ u[o].due = t[o].due
      /\ \/ u[o].status = t[o].status
         \/ /\ u[o].status = s /\ ~o.ending /\ ~t[o].attempt
            /\ o.of \in Planned /\ t[o].status # "skipped"
            /\ o.retry => t[o].status # "none"
      BY <1>1, StopFacts
<1>3. CASE Same(t, o)
      <2>1. Same(u, o) \/ Stops(u, o)
            BY <1>2, <1>3 DEF Same, Stops, Stopped
      <2>2. QED
            BY <1>1, <2>1
<1>4. CASE Stops(t, o)
      <2>1. Stops(u, o)
            BY <1>2, <1>4 DEF Stops, Stopped
      <2>2. QED
            BY <1>1, <2>1
<1>5. QED
      BY <1>3, <1>4

LEMMA HoldTurns ==
    ASSUME TypeOK, RowsKnow, NEW t \in [Op -> Row], NEW STATE x, Hold(x, t),
           \A o \in Op : Same(t, o) \/ Stops(t, o), NEW o \in Op
    PROVE  Same(row', o) \/ Stops(row', o)
<1>1. CASE row' = t
      BY <1>1
<1>2. CASE row' = StopUnstarted(t, "held") /\ plan' = Refreshing
      <2>1. plan'.status # "approved"
            BY <1>2 DEF Refreshing, TypeOK, Plan
      <2>2. QED
            BY <1>2, <2>1, StopTurns
<1>3. QED
      BY <1>1, <1>2 DEF Hold

LEMMA SameRow == \A o : Same(row, o)
BY DEF Same

\* A row is marked, and then perhaps the rest of the plan is held.
LEMMA SkipTurns ==
    ASSUME Inv, Placed, NEW w \in Workers, Busy(w), pc[w] # "complete",
           ~op[w].ending, ~row[op[w]].attempt, NEW s \in {"skipped", "held"},
           s = "skipped" => pc[w] = "run" /\ pc'[w] \in {"complete", "sweep"},
           NEW o \in Op
    PROVE  LET t == [row EXCEPT ![op[w]].status = s]
           IN  t \in [Op -> Row] /\ (Same(t, o) \/ Stops(t, o))
<1>1. /\ op[w] \in Op /\ row[op[w]].status # "none" /\ row[op[w]].status # "skipped"
      BY PlaceFacts
<1>2. s \in Statuses /\ TypeOK
      BY DEF Statuses, Stopped, Inv
<1>3. PICK t : t = [row EXCEPT ![op[w]].status = s]
      OBVIOUS
<1>4. /\ t \in [Op -> Row]
      /\ t[op[w]].status = s /\ t[op[w]].attempt = row[op[w]].attempt
      /\ t[op[w]].due = row[op[w]].due
      /\ \A p \in Op : p # op[w] => t[p] = row[p]
      BY <1>1, <1>2, <1>3, MarkFacts
<1>5. Same(t, o) \/ Stops(t, o)
      BY <1>1, <1>4 DEF Same, Stops, Stopped
<1>6. QED
      BY <1>3, <1>4, <1>5

LEMMA ReportTurns ==
    ASSUME Inv, NEW w \in Workers, NEW s \in {"dispatched", "verified", "failed"},
           row' = [row EXCEPT ![op[w]].status = s],
           pc[w] \in {"dispatch", "posted", "outcome", "fail"}, pc'[w] # pc[w],
           s = "dispatched" => pc[w] \in {"dispatch", "posted"},
           s = "verified" => row[op[w]].attempt, NEW o \in Op
    PROVE  Same(row', o) \/ Reports(row', o)
<1>1. op[w] \in Op
      BY DEF Inv, Knows, Busy
<1>2. s \in Statuses /\ TypeOK
      BY DEF Statuses, Runnable, Inv
<1>3. PICK t : t = [row EXCEPT ![op[w]].status = s]
      OBVIOUS
<1>4. /\ t[op[w]].status = s /\ t[op[w]].attempt = row[op[w]].attempt
      /\ t[op[w]].due = row[op[w]].due
      /\ \A p \in Op : p # op[w] => t[p] = row[p]
      BY <1>1, <1>2, <1>3, MarkFacts
<1>5. Same(t, o) \/ Reports(t, o)
      BY <1>4 DEF Same, Reports
<1>6. QED
      BY <1>3, <1>5

LEMMA ClaimTurns ==
    ASSUME Inv, NEW w \in Workers, Claim(w), NEW o \in Op
    PROVE  Same(row', o) \/ Claims(row', o) \/ Begins(row', o)
<1>1. PICK p \in Op : p = op[w]
      BY DEF Inv, Knows, Busy, Claim
<1>2. /\ row[p].status = "scheduled" /\ ~row[p].attempt /\ row' = Claimed(p)
      BY <1>1 DEF Claim, Claimable
<1>3. PICK t : t = row'
      OBVIOUS
<1>4. /\ t[p].attempt /\ t[p].status = "executing" /\ t[p].due = row[p].due
      /\ p.of \in Bounded /\ ~p.ending =>
            /\ t[EndingOf(p)].status = "scheduled" /\ ~t[EndingOf(p)].attempt
            /\ t[EndingOf(p)].due = EndingDue(p)
      /\ \A q \in Op : q # p /\ ~(p.of \in Bounded /\ ~p.ending /\ q = EndingOf(p))
            => t[q] = row[q]
      BY <1>2, <1>3, ClaimFacts DEF Inv
<1>5. CASE o = p
      <2>1. Claims(t, o)
            BY <1>1, <1>2, <1>4, <1>5 DEF Claims
      <2>2. QED
            BY <1>3, <2>1
<1>6. CASE o # p /\ p.of \in Bounded /\ ~p.ending /\ o = EndingOf(p)
      <2>1. o.ending /\ Opening(o) = p /\ o.of = p.of
            BY <1>6, OpFacts
      <2>2. row[o].status = "none"
            BY <1>2, <2>1 DEF Inv, RowsKnow
      <2>3. Begins(t, o)
            BY <1>1, <1>4, <1>6, <2>1, <2>2 DEF Begins
      <2>4. QED
            BY <1>3, <2>3
<1>7. CASE o # p /\ ~(p.of \in Bounded /\ ~p.ending /\ o = EndingOf(p))
      <2>1. Same(t, o)
            BY <1>4, <1>7 DEF Same
      <2>2. QED
            BY <1>3, <2>1
<1>8. QED
      BY <1>5, <1>6, <1>7

\* check_overlaps, asked before an opening is queued, looks at all that is in the way.
LEMMA FreeOf ==
    ASSUME Inv, Placed, NEW a, NEW s, NoOverlap(a, s), NEW q \in Openers,
           row[q].attempt \/ row[q].status = "scheduled", Overlap(a, s, q.of, row[q].due)
    PROVE  Ended(q)
<1>1. q \in Op /\ ~q.ending
      BY DEF Openers
<1>2. row[q].status \notin Stopped \cup {"none"}
      BY <1>1 DEF Placed, Inv, RowsKnow, Stopped
<1>3. QED
      BY <1>1, <1>2 DEF NoOverlap, Ended

LEMMA EnqueueTurns ==
    ASSUME Inv, Placed, NEW a \in Openings, Enqueue(a), NEW o \in Op
    PROVE  Same(row', o) \/ Opens(row', o)
<1>1. First(a) \in Op /\ First(a).of = a /\ ~First(a).ending /\ ~First(a).retry
      BY FirstFacts
<1>2. /\ Queued(Start[a]) \in Row /\ ~Queued(Start[a]).attempt
      /\ Queued(Start[a]).status = "scheduled" /\ Queued(Start[a]).due = Start[a]
      BY GivenFacts, QueuedFacts DEF Inv
<1>3. PICK t : t = row'
      OBVIOUS
<1>4. /\ t[First(a)] = Queued(Start[a])
      /\ \A p \in Op : p # First(a) => t[p] = row[p]
      BY <1>1, <1>2, <1>3 DEF Enqueue, Inv, TypeOK
<1>5. CASE o # First(a)
      <2>1. Same(t, o)
            BY <1>4, <1>5 DEF Same
      <2>2. QED
            BY <1>3, <2>1
<1>6. CASE o = First(a)
      <2>1. ASSUME NEW q \in Openers, t[q].attempt \/ t[q].status = "scheduled",
                   Overlap(a, Start[a], q.of, t[q].due)
            PROVE  Ended(q)
            <3>1. q \in Op /\ q # First(a)
                  BY <1>1, <2>1 DEF Openers, Overlap
            <3>2. t[q] = row[q]
                  BY <1>4, <3>1
            <3>3. NoOverlap(a, Start[a])
                  BY DEF Enqueue
            <3>4. QED
                  BY <2>1, <3>2, <3>3, FreeOf
      <2>2. row[o].status = "none" /\ a \notin Planned
            BY <1>6 DEF Enqueue
      <2>3. t[o].due = Start[a] /\ t[o].status = "scheduled" /\ ~t[o].attempt
            BY <1>2, <1>4, <1>6, <1>1
      <2>4. Opens(t, o)
            BY <1>1, <1>6, <2>1, <2>2, <2>3 DEF Opens
      <2>5. QED
            BY <1>3, <2>4
<1>7. QED
      BY <1>5, <1>6

LEMMA RetryTurns ==
    ASSUME Inv, Placed, NEW w \in Workers, Retry(w), NEW o \in Op
    PROVE  Same(row', o) \/ Opens(row', o)
<1>1. PICK p \in Op : /\ p = op[w] /\ ~p.ending /\ ~p.retry /\ Busy(w) /\ row[p].due <= clock
      BY DEF Inv, Knows, Busy, Retry
<1>2. CASE row' = row
      BY <1>2, SameRow
<1>3. CASE /\ MayRetry(p) /\ NoOverlap(p.of, clock)
           /\ row' = [row EXCEPT ![RetryOf(p)] = Queued(clock)]
      <2>1. /\ RetryOf(p) \in Op /\ RetryOf(p).retry /\ ~RetryOf(p).ending
            /\ RetryOf(p).of = p.of
            BY <1>1, OpFacts
      <2>2. row[p].status = "failed" /\ row[RetryOf(p)].status = "none"
            BY <1>3, <2>1 DEF MayRetry, RowsKnow, Inv
      <2>3. /\ Queued(clock) \in Row /\ ~Queued(clock).attempt
            /\ Queued(clock).status = "scheduled" /\ Queued(clock).due = clock
            BY QueuedFacts DEF TypeOK, Inv
      <2>4. PICK t : t = row'
            OBVIOUS
      <2>5. /\ t[RetryOf(p)] = Queued(clock)
            /\ \A q \in Op : q # RetryOf(p) => t[q] = row[q]
            BY <1>3, <2>1, <2>3, <2>4 DEF TypeOK, Inv
      <2>6. CASE o # RetryOf(p)
            <3>1. Same(t, o)
                  BY <2>5, <2>6 DEF Same
            <3>2. QED
                  BY <2>4, <3>1
      <2>7. CASE o = RetryOf(p)
            <3>1. ASSUME NEW q \in Openers, t[q].attempt \/ t[q].status = "scheduled",
                         Overlap(p.of, clock, q.of, t[q].due)
                  PROVE  Ended(q)
                  <4>1. q \in Op /\ q # RetryOf(p)
                        BY <2>1, <3>1 DEF Openers, Overlap
                  <4>2. t[q] = row[q]
                        BY <2>5, <4>1
                  <4>3. QED
                        BY <1>3, <3>1, <4>2, FreeOf
            <3>2. t[o].due = clock /\ t[o].status = "scheduled" /\ ~t[o].attempt
                  BY <2>3, <2>5, <2>7
            <3>3. \E v \in Workers :
                     /\ Busy(v) /\ op[v].of = o.of /\ ~op[v].ending
                     /\ row[op[v]].status = "failed" /\ row[op[v]].due <= t[o].due
                  BY <1>1, <2>1, <2>2, <2>7, <3>2
            <3>4. Opens(t, o)
                  BY <2>1, <2>2, <2>7, <3>1, <3>2, <3>3 DEF Opens
            <3>5. QED
                  BY <2>4, <3>4
      <2>8. QED
            BY <2>6, <2>7
<1>4. QED
      BY <1>1, <1>2, <1>3 DEF Retry

LEMMA ScheduleTurns ==
    ASSUME Inv, Placed, NEW w \in Workers, SchedulePlan(w), NEW o \in Op
    PROVE  Same(row', o) \/ Opens(row', o) \/ Stops(row', o)
<1> DEFINE todo == {a \in Planned : row[First(a)].status = "none"}
           late == {a \in todo : Expired(First(a))}
           table == [p \in Op |-> IF p \notin {First(a) : a \in todo} THEN row[p]
                                 ELSE IF p.of \in late
                                      THEN [row[p] EXCEPT !.status = "skipped"]
                                      ELSE Queued(Start[p.of])]
<1>1. /\ plan.status = "approved"
      /\ \A a \in todo \ late :
            /\ NoOverlap(a, Start[a])
            /\ \A b \in todo \ late : ~Overlap(a, Start[a], b, Start[b])
      /\ \/ late = {} /\ row' = table /\ plan' = plan
         \/ late # {} /\ row' = StopUnstarted(table, "held") /\ plan' = Refreshing
      BY DEF SchedulePlan
<1>2. PICK t : t = table
      OBVIOUS
<1>3. \A p \in Op : p \notin {First(a) : a \in todo} => t[p] = row[p]
      BY <1>2
<1>4. ASSUME NEW a \in todo
      PROVE  /\ First(a) \in Op /\ First(a).of = a /\ ~First(a).ending /\ ~First(a).retry
             /\ a \in Openings /\ a \in Planned /\ row[First(a)].status = "none"
             /\ ~row[First(a)].attempt
      <2>1. a \in Openings /\ a \in Planned
            BY GivenFacts DEF Inv
      <2>2. First(a) \in Op /\ First(a).of = a /\ ~First(a).ending /\ ~First(a).retry
            BY <2>1, FirstFacts
      <2>3. QED
            BY <2>1, <2>2 DEF Inv, RowsKnow
<1>5. ASSUME NEW a \in todo, a \notin late
      PROVE  t[First(a)] \in Row /\ t[First(a)].status = "scheduled" /\ ~t[First(a)].attempt
             /\ t[First(a)].due = Start[a]
      <2>1. t[First(a)] = Queued(Start[a])
            BY <1>2, <1>4, <1>5
      <2>2. Start[a] \in Nat
            BY <1>4, GivenFacts DEF Inv
      <2>3. QED
            BY <2>1, <2>2, QueuedFacts
<1>6. ASSUME NEW a \in late
      PROVE  t[First(a)] \in Row /\ t[First(a)].status = "skipped" /\ ~t[First(a)].attempt
      <2>1. t[First(a)] = [row[First(a)] EXCEPT !.status = "skipped"]
            BY <1>2, <1>4
      <2>2. row[First(a)] \in Row /\ ~row[First(a)].attempt
            BY <1>4 DEF Inv, TypeOK
      <2>3. QED
            BY <2>1, <2>2 DEF Row, Statuses, Stopped
<1>7. t \in [Op -> Row]
      <2>1. \A p \in Op : t[p] \in Row
            BY <1>3, <1>5, <1>6 DEF Inv, TypeOK
      <2>2. QED
            BY <1>2, <2>1
<1> HIDE DEF table
<1>8. CASE late = {}
      <2>1. row' = t /\ plan'.status = "approved"
            BY <1>1, <1>2, <1>8
      <2>2. CASE o \notin {First(a) : a \in todo}
            BY <1>3, <2>1, <2>2 DEF Same
      <2>3. CASE o \in {First(a) : a \in todo}
            <3>1. PICK a \in todo : o = First(a)
                  BY <2>3
            <3>2. ASSUME NEW q \in Openers, t[q].attempt \/ t[q].status = "scheduled",
                         Overlap(a, Start[a], q.of, t[q].due)
                  PROVE  Ended(q)
                  <4>1. CASE q \in {First(b) : b \in todo}
                        <5>1. PICK b \in todo : q = First(b)
                              BY <4>1
                        <5>2. t[q].due = Start[b] /\ q.of = b
                              BY <1>4, <1>5, <1>8, <5>1
                        <5>3. QED
                              BY <1>1, <1>8, <3>2, <5>2
                  <4>2. CASE q \notin {First(b) : b \in todo}
                        <5>1. t[q] = row[q]
                              BY <1>3, <4>2 DEF Openers
                        <5>2. NoOverlap(a, Start[a])
                              BY <1>1, <1>8
                        <5>3. QED
                              BY <3>2, <5>1, <5>2, FreeOf
                  <4>3. QED
                        BY <4>1, <4>2
            <3>3. /\ ~o.ending /\ ~o.retry /\ o.of = a /\ row[o].status = "none"
                  /\ t[o].status = "scheduled" /\ ~t[o].attempt /\ t[o].due = Start[a]
                  BY <1>4, <1>5, <1>8, <3>1
            <3>4. Opens(t, o)
                  BY <2>1, <3>2, <3>3 DEF Opens
            <3>5. QED
                  BY <2>1, <3>4
      <2>4. QED
            BY <2>2, <2>3
<1>9. CASE late # {}
      <2>1. row' = StopUnstarted(t, "held") /\ plan'.status # "approved"
            BY <1>1, <1>2, <1>9 DEF Refreshing, Inv, TypeOK, Plan
      <2>2. PICK u : u = row'
            OBVIOUS
      <2>3. /\ u[o].attempt = t[o].attempt /\ u[o].due = t[o].due
            /\ \/ u[o].status = t[o].status
               \/ /\ u[o].status = "held" /\ ~o.ending /\ ~t[o].attempt
                  /\ o.of \in Planned /\ t[o].status # "skipped"
                  /\ o.retry => t[o].status # "none"
            BY <1>7, <2>1, <2>2, StopFacts
      <2>4. CASE o \notin {First(a) : a \in todo}
            <3>1. t[o] = row[o]
                  BY <1>3, <2>4
            <3>2. Same(u, o) \/ Stops(u, o)
                  BY <2>1, <2>3, <3>1 DEF Same, Stops, Stopped
            <3>3. QED
                  BY <2>2, <3>2
      <2>5. CASE o \in {First(a) : a \in todo}
            <3>1. PICK a \in todo : o = First(a)
                  BY <2>5
            <3>2. /\ ~o.ending /\ ~o.retry /\ o.of \in Planned /\ row[o].status = "none"
                  /\ ~row[o].attempt /\ ~t[o].attempt
                  BY <1>4, <1>5, <1>6, <3>1
            <3>3. u[o].status \in {"held", "skipped"}
                  <4>1. CASE a \in late
                        BY <1>6, <2>3, <3>1, <4>1
                  <4>2. CASE a \notin late
                        <5>1. t[o].status = "scheduled"
                              BY <1>5, <3>1, <4>2
                        <5>2. Unstarted(t, o)
                              BY <3>2, <5>1 DEF Unstarted
                        <5>3. u[o] = [t[o] EXCEPT !.status = "held"]
                              BY <2>1, <2>2, <5>2 DEF StopUnstarted
                        <5>4. QED
                              BY <1>7, <5>3 DEF Row
                  <4>3. QED
                        BY <4>1, <4>2
            <3>4. Stops(u, o)
                  BY <2>1, <2>3, <3>2, <3>3 DEF Stops, Stopped
            <3>5. QED
                  BY <2>2, <3>4
      <2>6. QED
            BY <2>4, <2>5
<1>10. QED
      BY <1>8, <1>9

LEMMA ResumeTurns ==
    ASSUME Inv, Resume, NEW o \in Op
    PROVE  Same(row', o) \/ Stops(row', o) \/ Resumes(row', o)
<1>1. CASE Hold(asking, row)
      <2>1. row \in [Op -> Row] /\ TypeOK /\ RowsKnow
            BY DEF Inv, TypeOK
      <2>2. QED
            BY <1>1, <2>1, HoldTurns, SameRow
<1>2. CASE row' = [p \in Op |-> IF /\ p.of \in Planned /\ ~p.ending
                                  /\ row[p].status = "held" /\ ~row[p].attempt
                               THEN [row[p] EXCEPT !.status = "scheduled"] ELSE row[p]]
      <2>1. PICK t : t = row'
            OBVIOUS
      <2>2. CASE /\ o.of \in Planned /\ ~o.ending
                 /\ row[o].status = "held" /\ ~row[o].attempt
            <3>1. t[o] = [row[o] EXCEPT !.status = "scheduled"]
                  BY <1>2, <2>1, <2>2
            <3>2. /\ t[o].status = "scheduled" /\ t[o].attempt = row[o].attempt
                  /\ t[o].due = row[o].due
                  BY <3>1 DEF Inv, TypeOK, Row
            <3>3. plan.status = "awaiting"
                  BY DEF Resume
            <3>4. Resumes(t, o)
                  BY <2>2, <3>2, <3>3 DEF Resumes
            <3>5. QED
                  BY <2>1, <3>4
      <2>3. CASE ~ /\ o.of \in Planned /\ ~o.ending
                   /\ row[o].status = "held" /\ ~row[o].attempt
            <3>1. t[o] = row[o]
                  BY <1>2, <2>1, <2>3
            <3>2. Same(t, o)
                  BY <3>1 DEF Same
            <3>3. QED
                  BY <2>1, <3>2
      <2>4. QED
            BY <2>2, <2>3
<1>3. QED
      BY <1>1, <1>2 DEF Resume

\* What a worker's step does to the rows.
LEMMA WorkerTurns ==
    ASSUME Inv, Placed, NEW w \in Workers, Step(w), NEW o \in Op
    PROVE  Turns(row', o)
<1> DEFINE x == op[w]
<1> USE DEF Steps
<1>1. TypeOK /\ RowsKnow /\ row \in [Op -> Row]
      BY DEF Inv, TypeOK
<1>2. CASE StartSweep(w) \/ EndSweep(w) \/ ClaimRefused(w) \/ Unavailable(w) \/ Post(w)
           \/ Recheck(w) \/ ReadActual(w) \/ CompletePlan(w)
           \/ \E p \in Op : PickEnding(w, p) \/ PickOpening(w, p)
      <2>1. row' = row
            BY <1>2 DEF StartSweep, EndSweep, ClaimRefused, Unavailable, Post, Recheck, ReadActual,
                        CompletePlan, PickEnding, PickOpening, Pick
      <2>2. QED
            BY <2>1, SameRow DEF Turns
<1>3. CASE Run(w)
      <2>1. CASE row' = row
            BY <2>1, SameRow DEF Turns
      <2>2. CASE /\ ~seen[w].attempt /\ ~x.ending
                 /\ Hold(x, [row EXCEPT ![x].status = "skipped"]) /\ Finish(w)
            <3>1. Busy(w) /\ pc[w] = "run" /\ pc[w] # "complete"
                  BY <1>3 DEF Run, Busy
            <3>2. pc'[w] \in {"complete", "sweep"}
                  <4>1. PICK step \in {"complete", "sweep"} : Goto(w, step)
                        BY <2>2, FinishFacts
                  <4>2. QED
                        BY <1>1, <4>1, GotoIn
            <3>3. ~row[x].attempt
                  BY <2>2, <3>1 DEF Placed
            <3>4. PICK t : t = [row EXCEPT ![x].status = "skipped"]
                  OBVIOUS
            <3>5. t \in [Op -> Row] /\ \A p \in Op : Same(t, p) \/ Stops(t, p)
                  BY <2>2, <3>1, <3>2, <3>3, <3>4, SkipTurns
            <3>6. Same(row', o) \/ Stops(row', o)
                  BY <1>1, <2>2, <3>4, <3>5, HoldTurns
            <3>7. QED
                  BY <3>6 DEF Turns
      <2>3. QED
            BY <1>3, <2>1, <2>2 DEF Run
<1>4. CASE Denied(w) \/ AwaitApproval(w)
      <2>1. Busy(w) /\ pc[w] \in {"denied", "ask"} /\ pc[w] # "complete"
            BY <1>4 DEF Denied, AwaitApproval, Busy
      <2>2. ~x.ending /\ ~row[x].attempt
            BY <2>1, PlaceFacts
      <2>3. PICK t : t = [row EXCEPT ![x].status = "held"]
            OBVIOUS
      <2>4. t \in [Op -> Row] /\ \A p \in Op : Same(t, p) \/ Stops(t, p)
            BY <2>1, <2>2, <2>3, SkipTurns
      <2>5. CASE Denied(w)
            BY <1>1, <2>3, <2>4, <2>5, HoldTurns DEF Denied, Turns
      <2>6. CASE AwaitApproval(w)
            <3>1. plan'.status # "approved" /\ row' = StopUnstarted(t, "held")
                  BY <1>1, <2>3, <2>6 DEF AwaitApproval, TypeOK, Plan
            <3>2. QED
                  BY <1>1, <2>4, <3>1, StopTurns DEF Turns
      <2>7. QED
            BY <1>4, <2>5, <2>6
<1>5. CASE Redeem(w)
      <2>1. CASE row' = row
            BY <2>1, SameRow DEF Turns
      <2>2. CASE row' = [row EXCEPT ![x].granted = TRUE]
            <3>1. PICK t : t = row'
                  OBVIOUS
            <3>2. PICK y : y = [row[x] EXCEPT !.granted = TRUE]
                  OBVIOUS
            <3>3. x \in Op
                  BY <1>5 DEF Redeem, Inv, Knows, Busy
            <3>4. y.status = row[x].status /\ y.attempt = row[x].attempt /\ y.due = row[x].due
                  BY <1>1, <3>2, <3>3 DEF Row
            <3>5. t = [row EXCEPT ![x] = y]
                  BY <2>2, <3>1, <3>2
            <3>6. Same(t, o)
                  BY <1>1, <3>3, <3>4, <3>5 DEF Same
            <3>7. QED
                  BY <3>1, <3>6 DEF Turns
      <2>3. QED
            BY <1>5, <2>1, <2>2 DEF Redeem
<1>6. CASE Dispatch(w) \/ Posted(w)
      <2>1. /\ row' = [row EXCEPT ![x].status = "dispatched"] /\ Goto(w, "outcome")
            /\ pc[w] \in {"dispatch", "posted"}
            BY <1>6 DEF Dispatch, Posted, SetStatus
      <2>2. pc'[w] # pc[w]
            BY <1>1, <2>1, GotoIn
      <2>3. QED
            BY <2>1, <2>2, ReportTurns DEF Turns
<1>7. CASE Outcome(w)
      <2>1. PICK step \in {"complete", "sweep", "recheck"} : Goto(w, step)
            BY <1>7, FinishFacts DEF Outcome
      <2>2. pc[w] = "outcome" /\ pc'[w] # pc[w]
            BY <1>1, <1>7, <2>1, GotoIn DEF Outcome
      <2>3. row[x].attempt
            BY <2>2 DEF Inv, Knows
      <2>4. \E s \in {"verified", "failed"} : row' = [row EXCEPT ![x].status = s]
            BY <1>7 DEF Outcome, SetStatus
      <2>5. QED
            BY <2>2, <2>3, <2>4, ReportTurns DEF Turns
<1>8. CASE Fail(w)
      <2>1. pc[w] = "fail" /\ Goto(w, "read")
            BY <1>8 DEF Fail
      <2>2. pc'[w] # pc[w]
            BY <1>1, <2>1, GotoIn
      <2>3. row' = row \/ row' = [row EXCEPT ![x].status = "failed"]
            BY <1>8 DEF Fail, SetStatus
      <2>4. QED
            BY <2>1, <2>2, <2>3, SameRow, ReportTurns DEF Turns
<1>9. CASE HoldPlan(w)
      BY <1>1, <1>9, SameRow, HoldTurns DEF HoldPlan, Turns
<1>10. QED
       BY <1>2, <1>3, <1>4, <1>5, <1>6, <1>7, <1>8, <1>9,
          ClaimTurns, RetryTurns, ScheduleTurns DEF Step, Turns

LEMMA TurnStep ==
    ASSUME Inv, Placed, [Next]_vars, NEW o \in Op
    PROVE  Turns(row', o)
<1>1. CASE \E w \in Workers : Step(w)
      BY <1>1, WorkerTurns
<1>2. CASE \E a \in Openings : Enqueue(a)
      BY <1>2, EnqueueTurns DEF Turns
<1>3. CASE CancelPlan \/ QueueRefresh
      <2>1. row \in [Op -> Row] /\ TypeOK /\ RowsKnow
            BY DEF Inv, TypeOK
      <2>2. PICK s \in {"held", "cancelled"} : row' = StopUnstarted(row, s)
            BY <1>3 DEF CancelPlan, QueueRefresh
      <2>3. plan'.status # "approved"
            BY <1>3, <2>1 DEF CancelPlan, QueueRefresh, Refreshing, TypeOK, Plan
      <2>4. QED
            BY <2>1, <2>2, <2>3, StopTurns, SameRow DEF Turns
<1>4. CASE Resume
      BY <1>4, ResumeTurns DEF Turns
<1>5. CASE (\E w \in Workers : Crash(w) \/ Drop(w)) \/ Drift \/ Tick \/ UNCHANGED vars
      BY <1>5, SameRow DEF Crash, Drop, Drift, Tick, vars, Turns
<1>6. QED
      BY <1>1, <1>2, <1>3, <1>4, <1>5 DEF Next

\* What is known at a step of the exclusive sweeper.
LEMMA CoreFacts == ASSUME Inv PROVE Core /\ Exclusive /\ TypeOK /\ RowsKnow
BY DEF Inv, Core

\* An attempt is made by the worker that claims.
LEMMA AttemptStep ==
    ASSUME Inv, Placed, [Next]_vars, NEW o \in Op
    PROVE  /\ row'[o].attempt = row[o].attempt \/ Claims(row', o)
           /\ Claims(row', o) => \E w \in Workers : pc[w] = "claim" /\ op[w] = o /\ Claim(w)
<1>1. row[o].status = "none" => ~row[o].attempt
      BY DEF Inv, RowsKnow
<1>2. row[o].attempt \in BOOLEAN /\ row'[o].attempt \in BOOLEAN
      <2>1. Moves(row')
            BY RowStep DEF Inv
      <2>2. QED
            BY <2>1 DEF Moves, Inv, TypeOK, Row
<1>3. QED
      BY <1>1, <1>2, TurnStep
      DEF Turns, Same, Stops, Reports, Claims, Begins, Opens, Resumes, Claim

LEMMA EndingsKnowStep ==
    ASSUME Inv, Placed, EndingsKnow, [Next]_vars
    PROVE  EndingsKnow'
<1> USE SameGiven
<1>1. clock \in Nat /\ clock' \in Nat /\ clock' >= clock /\ Moves(row')
      BY ClockStep, RowStep DEF Inv, TypeOK
<1>2. \A o \in Op : row[o].due \in Nat /\ row'[o].due \in Nat
      BY <1>1 DEF Inv, TypeOK, Moves, Row
<1>3. ASSUME NEW o \in Op, row'[o].attempt
      PROVE  row'[o].due <= clock'
      <2>1. CASE row[o].attempt
            <3>1. row'[o].due = row[o].due /\ row[o].due <= clock
                  BY <1>1, <2>1 DEF Moves, EndingsKnow, Inv, RowsKnow
            <3>2. QED
                  BY <1>1, <1>2, <3>1
      <2>2. CASE ~row[o].attempt
            <3>1. PICK w \in Workers : op[w] = o /\ Claim(w) /\ row'[o].due = row[o].due
                  BY <1>3, <2>2, AttemptStep DEF Claims
            <3>2. row[o].due <= clock
                  BY <3>1 DEF Claim, Claimable
            <3>3. QED
                  BY <1>1, <1>2, <3>1, <3>2
      <2>3. QED
            BY <2>1, <2>2
<1>4. ASSUME NEW o \in Op, o.ending, row'[o].status # "none"
      PROVE  /\ o.of \in Bounded /\ row'[o].status \notin Stopped
             /\ o.of \notin Doors => row'[o].due = Stop[o.of]
      <2>1. CASE row[o].status # "none"
            <3>1. row'[o].due = row[o].due
                  BY <1>1, <2>1 DEF Moves
            <3>2. row'[o].status \notin Stopped
                  BY <1>4, <2>1, TurnStep
                  DEF Turns, Same, Stops, Reports, Claims, Begins, Opens, Resumes, EndingsKnow,
                      Stopped
            <3>3. QED
                  BY <1>4, <2>1, <3>1, <3>2 DEF EndingsKnow
      <2>2. CASE row[o].status = "none"
            <3>1. Begins(row', o)
                  <4>1. ~\E w \in Workers : op[w] = o /\ Busy(w)
                        BY <2>2, PlaceFacts
                  <4>2. ~Reports(row', o)
                        BY <4>1 DEF Reports, Busy
                  <4>3. QED
                        BY <1>4, <2>2, <4>2, TurnStep
                        DEF Turns, Same, Stops, Claims, Opens, Resumes
            <3>2. Opening(o).of = o.of
                  BY OpFacts
            <3>3. QED
                  BY <3>1, <3>2 DEF Begins, EndingDue, Stopped
      <2>3. QED
            BY <2>1, <2>2
<1>5. ASSUME NEW o \in Op, o.of \in Bounded, ~o.ending, row'[o].attempt
      PROVE  row'[EndingOf(o)].status # "none"
      <2>1. CASE row[o].attempt
            BY <1>1, <1>5, <2>1, OpFacts DEF EndingsKnow, Moves
      <2>2. CASE ~row[o].attempt
            <3>1. PICK w \in Workers : op[w] = o /\ Claim(w)
                  BY <1>5, <2>2, AttemptStep
            <3>2. row[o].status = "scheduled" /\ row' = Claimed(o)
                  BY <3>1 DEF Claim, Claimable
            <3>3. QED
                  BY <1>5, <3>2, ClaimFacts DEF Inv
      <2>3. QED
            BY <2>1, <2>2
<1>6. QED
      BY <1>3, <1>4, <1>5 DEF EndingsKnow, EndingOf

LEMMA PlacedStep ==
    ASSUME Inv, Placed, drops = 0, drops' = 0, [Next]_vars
    PROVE  Placed'
<1> USE SameGiven
<1>1. Core /\ Exclusive
      BY CoreFacts
<1>2. ASSUME NEW o \in Op, row'[o].attempt
      PROVE  row'[o].status \notin Stopped
      BY <1>2, TurnStep
      DEF Turns, Same, Stops, Reports, Claims, Begins, Opens, Resumes, Placed, Stopped
<1>3. ASSUME NEW w \in Workers, pc[w] # "idle"
      PROVE  /\ pc'[w] = "run" => seen'[w].attempt = row'[op'[w]].attempt
             /\ pc'[w] \in {"redeem", "denied", "ask"} => ~row'[op'[w]].attempt
             /\ pc'[w] = "ask" => op'[w].of \in Planned
             /\ pc'[w] \in {"dispatch", "post", "posted"} => row'[op'[w]].status = "executing"
             /\ Busy(w)' /\ pc'[w] # "complete" => row'[op'[w]].status # "skipped"
      <2>1. /\ Acts(w) \/ Rests
            /\ \A v \in Workers : v # w => pc[v] = "idle"
            /\ lock = w
            BY <1>1, <1>3, Alone DEF Exclusive
      <2>2. CASE Picks(w)
            BY <2>1, <2>2 DEF Picks, Busy, Runnable
      <2>3. CASE Sweeps(w)
            BY <2>3 DEF Sweeps, Busy
      <2>4. CASE Busy(w) /\ Busy(w)' /\ (MovesOn(w) \/ Rests)
            <3>1. PICK o \in Op : /\ o = op[w] /\ op'[w] = o /\ row[o].status # "none"
                                  /\ pc[w] # "complete" => row[o].status # "skipped"
                  BY <2>4, PlaceFacts DEF MovesOn, Rests
            <3>2. Claims(row', o) => pc[w] = "claim" /\ pc'[w] \in {"dispatch", "post"}
                  <4>1. ASSUME Claims(row', o)
                        PROVE  pc[w] = "claim" /\ pc'[w] \in {"dispatch", "post"}
                        <5>1. PICK v \in Workers : pc[v] = "claim" /\ Claim(v)
                              BY <4>1, AttemptStep
                        <5>2. v = w
                              BY <2>1, <5>1
                        <5>3. PICK step \in {"dispatch", "post"} : Goto(w, step)
                              BY <5>1, <5>2 DEF Claim
                        <5>4. QED
                              BY <5>1, <5>2, <5>3, GotoIn DEF Steps, Inv
                  <4>2. QED
                        BY <4>1
            <3>3. pc'[w] \notin {"dispatch", "post"} => row'[o].attempt = row[o].attempt
                  BY <3>2, AttemptStep
            <3>4. pc'[w] = "run" => seen'[w].attempt = row'[o].attempt
                  BY <2>4, <3>1, <3>3 DEF MovesOn, Rests, Placed
            <3>5. pc'[w] \in {"redeem", "denied", "ask"} => ~row'[o].attempt
                  BY <2>4, <3>1, <3>3 DEF MovesOn, Rests, Placed
            <3>6. pc'[w] = "ask" => o.of \in Planned
                  BY <2>4, <3>1 DEF MovesOn, Rests, Placed
            <3>7. ASSUME Reports(row', o)
                  PROVE  pc[w] \in {"dispatch", "posted", "outcome", "fail"} /\ pc'[w] # pc[w]
                  BY <2>1, <3>7 DEF Reports
            <3>8. pc'[w] \in {"dispatch", "post", "posted"} => row'[o].status = "executing"
                  <4>1. CASE Claim(w)
                        <5>1. row[o].status = "scheduled" /\ row' = Claimed(o)
                              BY <3>1, <4>1 DEF Claim, Claimable
                        <5>2. QED
                              BY <5>1, ClaimFacts DEF Inv
                  <4>2. CASE pc'[w] \in {"dispatch", "post", "posted"} /\ ~Claim(w)
                        <5>1. \/ pc'[w] = pc[w]
                              \/ pc[w] = "post" /\ pc'[w] = "posted"
                              BY <2>4, <4>2 DEF MovesOn, Rests
                        <5>2. row[o].status = "executing" /\ row[o].attempt
                              BY <3>1, <4>2, <5>1, <1>1 DEF Placed, Core, Knows, Claiming, Holding
                        <5>3. ~Reports(row', o) /\ ~Claims(row', o)
                              BY <3>2, <3>7, <4>2, <5>1
                        <5>4. QED
                              BY <5>2, <5>3, TurnStep
                              DEF Turns, Same, Stops, Begins, Opens, Resumes
                  <4>3. QED
                        BY <4>1, <4>2
            <3>9. pc'[w] # "complete" => row'[o].status # "skipped"
                  <4>1. ASSUME pc'[w] # "complete", row'[o].status = "skipped"
                        PROVE  FALSE
                        <5>1. Same(row', o) \/ Stops(row', o)
                              BY <4>1, TurnStep
                              DEF Turns, Reports, Claims, Begins, Opens, Resumes
                        <5>2. CASE Same(row', o)
                              BY <2>4, <3>1, <4>1, <5>2 DEF Same, MovesOn, Rests
                        <5>3. CASE Stops(row', o)
                              <6>1. PICK v \in Workers : /\ pc[v] = "run"
                                                         /\ pc'[v] \in {"complete", "sweep"}
                                    BY <3>1, <4>1, <5>3 DEF Stops
                              <6>2. v = w
                                    BY <2>1, <6>1
                              <6>3. QED
                                    BY <2>4, <4>1, <6>1, <6>2 DEF Busy
                        <5>4. QED
                              BY <5>1, <5>2, <5>3
                  <4>2. QED
                        BY <4>1
            <3>10. QED
                  BY <3>1, <3>4, <3>5, <3>6, <3>8, <3>9
      <2>5. CASE ~Busy(w)'
            BY <2>5 DEF Busy
      <2>6. QED
            BY <2>1, <2>2, <2>3, <2>4, <2>5 DEF Acts, MovesOn, Rests, Busy
<1>4. ASSUME NEW w \in Workers, pc[w] = "idle"
      PROVE  pc'[w] \in {"idle", "sweep"}
      <2>1. CASE \E v \in Workers : Acts(v)
            BY <1>4, <2>1 DEF Acts, MovesOn, Picks, Sweeps, Busy
      <2>2. CASE Rests
            BY <1>4, <2>2 DEF Rests
      <2>3. QED
            BY <1>1, <2>1, <2>2, LocalStep DEF Core
<1>5. QED
      BY <1>2, <1>3, <1>4 DEF Placed, Busy

\* Evidence that an opening ended stays.
LEMMA EndedStays ==
    ASSUME Inv, drops = 0, [Next]_vars, NEW p \in Op, Ended(p)
    PROVE  row'[EndingOf(p)].status = "verified"
<1>1. EndingOf(p) \in Op /\ Moves(row')
      BY OpFacts, RowStep DEF Inv
<1>2. QED
      BY <1>1 DEF Moves, Ended

\* What is in the way was in the way before, or is queued or resumed now.
LEMMA WayStep ==
    ASSUME Inv, Placed, [Next]_vars, NEW p \in Openers,
           row'[p].attempt \/ row'[p].status = "scheduled"
    PROVE  \/ InTheWay(p) /\ row'[p].due = row[p].due
           \/ Opens(row', p)
           \/ Resumes(row', p)
BY TurnStep DEF Turns, Same, Stops, Reports, Claims, Begins, Openers, InTheWay, Stopped

\* Until then, what resume() schedules again is in the way of nothing.
LEMMA ResumedClear ==
    ASSUME Inv, Placed, ~overlapped', [Next]_vars, NEW p \in Openers, NEW q \in Openers,
           Resumes(row', p), InTheWay(q), Overlap(p.of, row'[p].due, q.of, row[q].due)
    PROVE  Ended(q)
<1>1. /\ p \in Op /\ ~p.ending /\ p.of \in Planned
      /\ row[p].status = "held" /\ ~row[p].attempt /\ row'[p].due = row[p].due
      BY DEF Resumes, Openers
<1>2. NoOverlap(p.of, row[p].due)
      <2>1. CASE Hold(asking, row)
            <3>1. row' = row \/ row' = StopUnstarted(row, "held")
                  BY <2>1 DEF Hold
            <3>2. row'[p].status = "scheduled" /\ row \in [Op -> Row]
                  BY DEF Resumes, Inv, TypeOK
            <3>3. QED
                  BY <1>1, <3>1, <3>2 DEF StopUnstarted, Row
      <2>2. CASE overlapped' = (overlapped \/ \E x \in {x \in Op :
                      /\ x.of \in Planned /\ ~x.ending
                      /\ row[x].status = "held" /\ ~row[x].attempt} : ~NoOverlap(x.of, row[x].due))
            BY <1>1, <2>2
      <2>3. QED
            BY <2>1, <2>2 DEF Resumes, Resume
<1>3. q \in Op /\ ~q.ending /\ row[q].status \notin Stopped \cup {"none"}
      BY DEF Openers, InTheWay, Placed, Inv, RowsKnow, Stopped
<1>4. QED
      BY <1>1, <1>2, <1>3 DEF NoOverlap, Ended

LEMMA ClearStep ==
    ASSUME Inv, Placed, Clear, Untouched \/ Spread, drops = 0, ~overlapped', [Next]_vars
    PROVE  Clear'
<1> USE SameGiven
<1> DEFINE Way(p) == row'[p].attempt \/ row'[p].status = "scheduled"
<1>1. ASSUME NEW p \in Openers, NEW q \in Openers, Way(p), Way(q),
             Overlap(p.of, row'[p].due, q.of, row'[q].due)
      PROVE  Ended(p) \/ Ended(q)
      <2>1. p \in Op /\ q \in Op /\ ~p.ending /\ ~q.ending
            BY DEF Openers
      <2>2. CASE Opens(row', p)
            BY <1>1, <2>2 DEF Opens, Openers
      <2>3. CASE Opens(row', q)
            <3>1. Overlap(q.of, row'[q].due, p.of, row'[p].due)
                  BY <1>1 DEF Overlap
            <3>2. QED
                  BY <1>1, <2>3, <3>1 DEF Opens, Openers
      <2>4. CASE /\ InTheWay(p) /\ row'[p].due = row[p].due
                 /\ InTheWay(q) /\ row'[q].due = row[q].due
            BY <1>1, <2>4 DEF Clear
      <2>5. CASE Resumes(row', p) /\ Resumes(row', q)
            <3>1. Spread
                  BY <2>5 DEF Resumes, Untouched
            <3>2. Laid(p) /\ Laid(q) /\ row'[p].due = row[p].due /\ row'[q].due = row[q].due
                  BY <2>1, <2>5 DEF Resumes, Laid
            <3>3. QED
                  BY <1>1, <2>1, <3>1, <3>2 DEF Spread
      <2>6. CASE Resumes(row', p) /\ InTheWay(q) /\ row'[q].due = row[q].due
            BY <1>1, <2>1, <2>6, ResumedClear
      <2>7. CASE Resumes(row', q) /\ InTheWay(p) /\ row'[p].due = row[p].due
            <3>1. Overlap(q.of, row'[q].due, p.of, row'[p].due)
                  BY <1>1 DEF Overlap
            <3>2. QED
                  BY <2>1, <2>7, <3>1, ResumedClear
      <2>8. QED
            BY <1>1, <2>2, <2>3, <2>4, <2>5, <2>6, <2>7, WayStep
<1>2. ASSUME NEW p \in Openers, Ended(p)
      PROVE  row'[EndingOf(p)].status = "verified"
      BY <1>2, EndedStays DEF Openers
<1>3. Openers' = Openers
      BY DEF Openers
<1>4. ASSUME NEW p \in Openers, NEW q \in Openers, InTheWay(p)', InTheWay(q)',
             Overlap(p.of, row[p].due, q.of, row[q].due)'
      PROVE  row'[EndingOf(p)].status = "verified" \/ row'[EndingOf(q)].status = "verified"
      <2>1. Way(p) /\ Way(q)
            BY <1>4 DEF InTheWay
      <2>2. Overlap(p.of, row'[p].due, q.of, row'[q].due)
            BY <1>4 DEF Overlap
      <2>3. QED
            BY <1>1, <1>2, <2>1, <2>2
<1>5. QED
      BY <1>3, <1>4 DEF Clear, Ended, EndingOf

LEMMA PassedStep ==
    ASSUME Inv, Placed, EndingsKnow, Passed, drops = 0, drops' = 0, [Next]_vars
    PROVE  Passed'
<1> USE SameGiven
<1>1. /\ Core /\ Exclusive /\ Moves(row') /\ EndingsKnow' /\ \A w \in Workers : Knows(w)'
      BY CoreFacts, RowStep, EndingsKnowStep, KnowsStep DEF Inv
<1>2. \A o \in Op : row[o].due \in Nat /\ row'[o].due \in Nat
      BY <1>1 DEF Inv, TypeOK, Moves, Row
<1> SUFFICES ASSUME NEW p \in Openers, NEW q \in Openers, row'[p].attempt, p.of \notin Doors,
                    row'[q].attempt \/ Running(q)', Stop[p.of] <= row'[q].due
             PROVE  row'[EndingOf(p)].status \in {"verified", "failed"}
    <2>1. Openers' = Openers
          BY DEF Openers
    <2>2. QED
          BY <2>1 DEF Passed, EndingOf
<1>3. /\ p \in Op /\ q \in Op /\ ~p.ending /\ ~q.ending /\ p.of \in Bounded
      /\ Stop[p.of] \in Nat /\ Deadline[p.of] \in Nat /\ Deadline[p.of] <= Stop[p.of]
      BY GivenFacts, OpFacts DEF Openers, Inv
<1>4. PICK e \in Op : e = EndingOf(p) /\ e.ending /\ e.of = p.of
      BY <1>3, OpFacts
<1>5. row'[q].due <= clock'
      <2>1. CASE row'[q].attempt
            BY <1>1, <1>3, <2>1 DEF EndingsKnow
      <2>2. CASE Running(q)'
            BY <1>1, <2>2 DEF Running, Knows, Busy
      <2>3. QED
            BY <2>1, <2>2
<1>6. row[p].attempt
      <2>1. ASSUME ~row[p].attempt
            PROVE  FALSE
            <3>1. PICK w \in Workers : op[w] = p /\ Claim(w)
                  BY <1>3, <2>1, AttemptStep
            <3>2. clock < Deadline[p.of] /\ clock' = clock /\ clock \in Nat
                  BY <1>3, <3>1 DEF Claim, Claimable, Expired, Inv, TypeOK
            <3>3. QED
                  BY <1>1, <1>2, <1>3, <1>5, <3>2
      <2>2. QED
            BY <2>1
<1>7. CASE row[q].attempt \/ Running(q)
      <2>1. row[q].status # "none"
            BY <1>1, <1>3, <1>7 DEF Running, Knows, Core, Busy, RowsKnow
      <2>2. row[e].status \in {"verified", "failed"}
            BY <1>1, <1>3, <1>4, <1>6, <1>7, <2>1 DEF Passed, Moves
      <2>3. CASE row[e].status = "verified"
            BY <1>1, <1>4, <2>3 DEF Moves
      <2>4. CASE row[e].status = "failed"
            <3>1. ~(Reports(row', e) /\ row'[e].status = "dispatched")
                  BY <2>4 DEF Reports, Placed
            <3>2. QED
                  BY <1>4, <2>4, <3>1, TurnStep
                  DEF Turns, Same, Stops, Reports, Claims, Begins, Opens, Resumes
      <2>5. QED
            BY <2>2, <2>3, <2>4
<1>8. CASE ~row[q].attempt /\ ~Running(q)
      <2>1. ~row'[q].attempt
            BY <1>3, <1>8, AttemptStep DEF Running
      <2>2. PICK w \in Workers : /\ op'[w] = q
                                /\ pc'[w] \in {"run", "redeem", "denied", "ask", "claim"}
            BY <2>1 DEF Running
      <2>3. Picks(w)
            <3>1. ~Rests
                  BY <1>8, <2>2 DEF Rests, Running
            <3>2. Acts(w)
                  BY <1>1, <1>8, <2>2, <3>1, LocalStep DEF Acts, Running, Core
            <3>3. ~MovesOn(w)
                  BY <1>8, <2>2 DEF MovesOn, Running, Busy
            <3>4. QED
                  BY <2>2, <3>2, <3>3 DEF Acts, Sweeps
      <2>4. /\ row' = row /\ lock = w /\ row[q].due <= asof[w] /\ EndingsFirst(w)
            /\ asof[w] \in Nat
            BY <1>1, <1>3, <2>2, <2>3 DEF Picks, Exclusive, Inv, TypeOK
      <2>5. row[e].status # "none" /\ row[e].due = Stop[p.of] /\ row[e].status \notin Stopped
            BY <1>3, <1>4, <1>6 DEF EndingsKnow
      <2>6. row[e].due <= asof[w]
            BY <1>2, <1>3, <2>4, <2>5
      <2>7. row[e].status \notin Runnable
            BY <1>4, <2>4, <2>6 DEF EndingsFirst
      <2>8. row[e].status \in Statuses
            BY DEF Inv, TypeOK, Row
      <2>9. QED
            BY <1>4, <2>4, <2>5, <2>7, <2>8 DEF Statuses
<1>9. QED
      BY <1>7, <1>8

\* A part of the plan that is laid was laid before, or repeats a part that was.
LEMMA LaidStep ==
    ASSUME Inv, Placed, Spread, [Next]_vars, NEW p \in Op, Laid(p)'
    PROVE  \E x \in Op : Laid(x) /\ x.of = p.of /\ row[x].due <= row'[p].due
<1> USE SameGiven
<1>1. /\ p.of \in Planned /\ ~p.ending
      /\ row'[p].status # "none" /\ row'[p].status # "skipped"
      BY DEF Laid
<1>2. row[p].due \in Nat /\ row'[p].due \in Nat /\ Moves(row')
      BY RowStep DEF Inv, TypeOK, Moves, Row
<1>3. row[p].status = "none" => p.retry
      <2>1. ~p.retry => p = First(p.of)
            BY <1>1 DEF Op, First
      <2>2. QED
            BY <1>1, <2>1 DEF Spread
<1>4. CASE Opens(row', p)
      <2>1. PICK w \in Workers : /\ Busy(w) /\ op[w].of = p.of /\ ~op[w].ending
                                /\ row[op[w]].status = "failed"
                                /\ row[op[w]].due <= row'[p].due
            BY <1>3, <1>4 DEF Opens
      <2>2. op[w] \in Op
            BY <2>1, PlaceFacts
      <2>3. Laid(op[w])
            BY <1>1, <2>1 DEF Laid
      <2>4. QED
            BY <2>1, <2>2, <2>3
<1>5. CASE ~Opens(row', p)
      <2>1. row[p].status # "none"
            <3>1. Reports(row', p) => row[p].status # "none"
                  BY PlaceFacts DEF Reports, Busy
            <3>2. QED
                  BY <1>1, <1>3, <1>5, <3>1, TurnStep
                  DEF Turns, Same, Stops, Claims, Begins, Resumes
      <2>2. row[p].status # "skipped"
            <3>1. Reports(row', p) => row[p].status # "skipped"
                  BY PlaceFacts DEF Reports, Busy
            <3>2. QED
                  BY <1>1, <1>5, <3>1, TurnStep
                  DEF Turns, Same, Stops, Claims, Begins, Resumes
      <2>3. row'[p].due = row[p].due
            BY <1>2, <2>1 DEF Moves
      <2>4. QED
            BY <1>1, <1>2, <2>1, <2>2, <2>3 DEF Laid
<1>6. QED
      BY <1>4, <1>5

LEMMA SpreadStep ==
    ASSUME Inv, Placed, Spread, [Next]_vars
    PROVE  Spread'
<1> USE SameGiven
<1>1. Moves(row') /\ TypeOK
      BY RowStep DEF Inv
<1>2. ASSUME NEW a \in Planned
      PROVE  row'[First(a)].status # "none"
      BY <1>1, <1>2, GivenFacts, FirstFacts DEF Spread, Moves
<1>3. ASSUME NEW p \in Op, NEW q \in Op, Laid(p)', Laid(q)',
             Overlap(p.of, row'[p].due, q.of, row'[q].due)
      PROVE  FALSE
      <2>1. PICK x \in Op : Laid(x) /\ x.of = p.of /\ row[x].due <= row'[p].due
            BY <1>3, LaidStep
      <2>2. PICK y \in Op : Laid(y) /\ y.of = q.of /\ row[y].due <= row'[q].due
            BY <1>3, LaidStep
      <2>3. /\ row[x].due \in Nat /\ row[y].due \in Nat
            /\ row'[p].due \in Nat /\ row'[q].due \in Nat
            /\ Stop[p.of] \in Nat /\ Stop[q.of] \in Nat
            BY <1>1, GivenFacts, OpFacts DEF TypeOK, Moves, Row
      <2>4. Overlap(x.of, row[x].due, y.of, row[y].due)
            BY <1>3, <2>1, <2>2, <2>3 DEF Overlap
      <2>5. QED
            BY <2>1, <2>2, <2>4 DEF Spread
<1>4. ASSUME NEW p \in Op, NEW q \in Op, Laid(p)', Laid(q)'
      PROVE  ~Overlap(p.of, row[p].due, q.of, row[q].due)'
      <2>1. ~Overlap(p.of, row'[p].due, q.of, row'[q].due)
            BY <1>3, <1>4
      <2>2. QED
            BY <2>1 DEF Overlap
<1>5. QED
      BY <1>2, <1>4 DEF Spread, First

LEMMA PlanTurn ==
    ASSUME TypeOK, [Next]_vars
    PROVE  \/ plan'.status = plan.status
           \/ plan'.status \in {"refreshing", "completed", "abandoned"}
           \/ \E w \in Workers : AwaitApproval(w)
           \/ Resume
<1> DEFINE Turned == \/ plan'.status = plan.status
                     \/ plan'.status \in {"refreshing", "completed", "abandoned"}
<1>1. plan' = Refreshing => Turned
      BY DEF Refreshing, TypeOK, Plan
<1>2. \A o, t : Hold(o, t) => plan' = plan \/ plan' = Refreshing
      BY DEF Hold
<1>3. ASSUME NEW w \in Workers, Step(w), ~AwaitApproval(w)
      PROVE  Turned
      <2>1. CASE StartSweep(w) \/ SchedulePlan(w) \/ EndSweep(w)
                 \/ \E o \in Op : PickEnding(w, o) \/ PickOpening(w, o)
            BY <1>1, <2>1 DEF StartSweep, SchedulePlan, EndSweep, PickEnding, PickOpening, Pick
      <2>2. CASE Run(w) \/ Denied(w) \/ HoldPlan(w)
            BY <1>1, <1>2, <2>2 DEF Run, Denied, HoldPlan
      <2>3. CASE Redeem(w) \/ Claim(w) \/ ClaimRefused(w) \/ Unavailable(w)
            BY <2>3 DEF Redeem, Claim, ClaimRefused, Unavailable
      <2>4. CASE Dispatch(w) \/ Post(w) \/ Posted(w) \/ Outcome(w) \/ Recheck(w) \/ Fail(w)
                 \/ ReadActual(w) \/ Retry(w)
            BY <2>4 DEF Dispatch, Post, Posted, Outcome, Recheck, Fail, ReadActual, Retry
      <2>5. CASE CompletePlan(w)
            BY <2>5 DEF CompletePlan, TypeOK, Plan
      <2>6. QED
            BY <1>3, <2>1, <2>2, <2>3, <2>4, <2>5 DEF Step
<1>4. CASE CancelPlan \/ Drift \/ QueueRefresh
      BY <1>1, <1>4 DEF CancelPlan, Drift, QueueRefresh, TypeOK, Plan
<1>5. CASE (\E w \in Workers : Crash(w) \/ Drop(w)) \/ (\E a \in Openings : Enqueue(a)) \/ Tick
           \/ UNCHANGED vars
      BY <1>5 DEF Crash, Drop, Enqueue, Tick, vars
<1>6. QED
      BY <1>3, <1>4, <1>5 DEF Next

\* schedule_approved queues the whole plan, or none of it.
LEMMA ScheduleSpreads ==
    ASSUME Inv, Untouched, NEW w \in Workers, SchedulePlan(w), plan'.status = "approved",
           [Next]_vars
    PROVE  Spread'
<1> USE SameGiven
<1> DEFINE todo == {a \in Planned : row[First(a)].status = "none"}
           late == {a \in todo : Expired(First(a))}
           table == [o \in Op |-> IF o \notin {First(a) : a \in todo} THEN row[o]
                                 ELSE IF o.of \in late
                                      THEN [row[o] EXCEPT !.status = "skipped"]
                                      ELSE Queued(Start[o.of])]
<1>1. /\ plan.status = "approved" /\ late = {} /\ row' = table
      /\ \A a, b \in todo \ late : ~Overlap(a, Start[a], b, Start[b])
      <2>1. plan' = Refreshing => plan'.status # "approved"
            BY DEF Refreshing, Inv, TypeOK, Plan
      <2>2. QED
            BY <2>1 DEF SchedulePlan
<1>2. todo = Planned
      BY <1>1 DEF Untouched
<1>3. PICK t : t = row'
      OBVIOUS
<1>4. ASSUME NEW a \in Planned
      PROVE  /\ First(a) \in Op /\ First(a).of = a
             /\ t[First(a)].status = "scheduled" /\ t[First(a)].due = Start[a]
      <2>1. First(a) \in Op /\ First(a).of = a /\ Start[a] \in Nat
            BY GivenFacts, FirstFacts DEF Inv
      <2>2. t[First(a)] = Queued(Start[a])
            BY <1>1, <1>2, <1>3, <2>1
      <2>3. QED
            BY <2>1, <2>2, QueuedFacts
<1>5. ASSUME NEW p \in Op, Laid(p)'
      PROVE  p.of \in Planned /\ t[p].due = Start[p.of]
      <2>1. p.of \in Planned /\ ~p.ending /\ t[p].status # "none"
            BY <1>3, <1>5 DEF Laid
      <2>2. CASE p.retry
            <3>1. p \notin {First(a) : a \in todo}
                  <4>1. \A a : ~First(a).retry
                        BY DEF First
                  <4>2. QED
                        BY <2>2, <4>1
            <3>2. t[p] = row[p]
                  BY <1>1, <1>3, <3>1
            <3>3. QED
                  BY <2>1, <2>2, <3>2 DEF Untouched
      <2>3. CASE ~p.retry
            <3>1. p = First(p.of)
                  BY <2>1, <2>3 DEF First, Op
            <3>2. QED
                  BY <1>4, <2>1, <3>1
      <2>4. QED
            BY <2>2, <2>3
<1> HIDE DEF table
<1>6. ASSUME NEW p \in Op, NEW q \in Op, Laid(p)', Laid(q)'
      PROVE  ~Overlap(p.of, row[p].due, q.of, row[q].due)'
      <2>1. ~Overlap(p.of, Start[p.of], q.of, Start[q.of])
            BY <1>1, <1>2, <1>5, <1>6
      <2>2. row'[p].due = Start[p.of] /\ row'[q].due = Start[q.of]
            BY <1>3, <1>5, <1>6
      <2>3. QED
            BY <2>1, <2>2 DEF Overlap
<1>7. \A a \in Planned : row'[First(a)].status # "none"
      BY <1>3, <1>4
<1>8. QED
      BY <1>6, <1>7 DEF Spread, First

LEMMA UntouchedStep ==
    ASSUME Inv, Placed, Untouched, drops = 0, [Next]_vars
    PROVE  Untouched' \/ Spread'
<1> USE SameGiven
<1>1. Core /\ Exclusive /\ TypeOK
      BY CoreFacts
<1>2. CASE plan'.status = "approved" /\ \E w \in Workers : SchedulePlan(w)
      BY <1>2, ScheduleSpreads
<1>3. CASE ~(plan'.status = "approved" /\ \E w \in Workers : SchedulePlan(w))
      <2>1. plan'.status # "awaiting" /\ (plan'.status = "approved" => plan.status = "approved")
            <3>1. ~\E w \in Workers : AwaitApproval(w)
                  BY DEF AwaitApproval, Busy, Placed, Untouched
            <3>2. ~Resume
                  BY DEF Resume, Untouched
            <3>3. QED
                  BY <1>1, <3>1, <3>2, PlanTurn DEF Untouched
      <2>2. ASSUME NEW w \in Workers, Busy(w)'
            PROVE  op'[w].of \notin Planned
            <3>1. CASE Busy(w) /\ op'[w] = op[w]
                  BY <3>1 DEF Untouched
            <3>2. CASE Picks(w)
                  <4>1. PICK o \in Op : op'[w] = o /\ (lock = w => row[o].status \in Runnable)
                        BY <3>2 DEF Picks
                  <4>2. lock = w
                        BY <1>1, <3>2 DEF Picks, Exclusive
                  <4>3. QED
                        BY <4>1, <4>2 DEF Untouched, Runnable, Stopped
            <3>3. QED
                  BY <1>1, <2>2, <3>1, <3>2, LocalStep
                  DEF Acts, MovesOn, Sweeps, Rests, Core, Busy
      <2>3. ASSUME NEW o \in Op, o.of \in Planned
            PROVE  Same(row', o) \/ Stops(row', o)
            <3>1. ~Reports(row', o)
                  BY <2>3 DEF Reports, Busy, Untouched
            <3>2. ~Claims(row', o)
                  BY <2>3 DEF Claims, Claim, Busy, Untouched
            <3>3. ~Begins(row', o)
                  <4>1. Opening(o).of = o.of
                        BY OpFacts
                  <4>2. QED
                        BY <2>3, <4>1 DEF Begins, Claim, Busy, Untouched
            <3>4. ~Opens(row', o)
                  BY <1>3, <2>3 DEF Opens, Untouched
            <3>5. ~Resumes(row', o)
                  BY DEF Resumes, Untouched
            <3>6. QED
                  BY <3>1, <3>2, <3>3, <3>4, <3>5, TurnStep DEF Turns
      <2>4. ASSUME NEW o \in Op, o.of \in Planned
            PROVE  /\ ~row'[o].attempt /\ row'[o].status \in Stopped \cup {"none"}
                   /\ o.retry \/ o.ending => row'[o].status = "none"
            BY <2>3, <2>4 DEF Same, Stops, Untouched
      <2>5. ASSUME plan'.status = "approved", NEW a \in Planned
            PROVE  row'[First(a)].status = "none"
            <3>1. First(a) \in Op /\ First(a).of = a
                  BY <1>1, GivenFacts, FirstFacts
            <3>2. row[First(a)].status = "none"
                  BY <2>1, <2>5 DEF Untouched
            <3>3. Same(row', First(a))
                  BY <2>3, <2>5, <3>1, <3>2 DEF Stops
            <3>4. QED
                  BY <3>2, <3>3 DEF Same
      <2>6. Untouched'
            BY <2>1, <2>2, <2>4, <2>5 DEF Untouched, First
      <2>7. QED
            BY <2>6
<1>4. QED
      BY <1>2, <1>3

LEMMA OnItsDeviceStep ==
    ASSUME Inv, OnItsDevice, [Next]_vars
    PROVE  OnItsDevice'
<1> USE SameGiven
<1>1. Core
      BY CoreFacts
<1>2. CASE device' = device
      BY <1>2 DEF OnItsDevice
<1>3. CASE \E w \in Workers : Requests(w)
      <2>1. PICK w \in Workers : Requests(w)
            BY <1>3
      <2>2. PICK o \in Op : o = op[w] /\ o.of \in Openings
            BY <2>1, OpFacts DEF Requests, Holding, Inv, Knows, Busy
      <2>3. ASSUME NEW t \in Targets, device'[t] # Rest
            PROVE  TargetOf[device'[t]] = t
            BY <2>1, <2>2, <2>3 DEF Requests, OnItsDevice, Target, Inv, TypeOK
      <2>4. QED
            BY <2>3 DEF OnItsDevice
<1>4. QED
      BY <1>1, <1>2, <1>3, RequestStep DEF Core

LEMMA InitOrderly == Init => Orderly
<1> SUFFICES ASSUME Init PROVE Orderly
    OBVIOUS
<1>1. \A o \in Op : row[o].status = "none" /\ ~row[o].attempt
      BY DEF Init, NoRow
<1>2. \A w \in Workers : ~Busy(w) /\ pc[w] = "idle"
      BY DEF Init, Busy
<1>3. EndingsKnow /\ Placed
      <2>1. \A o \in Op : EndingOf(o) \in Op
            BY OpFacts
      <2>2. QED
            BY <1>1, <1>2, <2>1 DEF EndingsKnow, Placed
<1>4. Clear /\ Passed
      BY <1>1 DEF Clear, Passed, InTheWay, Openers
<1>5. Untouched
      <2>1. TypeOK
            BY InitInv DEF Inv
      <2>2. \A a \in Planned : First(a) \in Op
            BY <2>1, GivenFacts, FirstFacts
      <2>3. plan.status = "approved"
            BY DEF Init
      <2>4. QED
            BY <1>1, <1>2, <2>2, <2>3 DEF Untouched
<1>6. OnItsDevice
      BY DEF Init, OnItsDevice
<1>7. QED
      BY <1>3, <1>4, <1>5, <1>6 DEF Orderly

\* While sweeps are exclusive, openings and their endings keep their order, until
\* resume() schedules one in the way of another.
THEOREM OrderKept == Spec => [](drops = 0 /\ ~overlapped => Orderly)
<1>1. Init => (drops = 0 /\ ~overlapped => Orderly)
      BY InitOrderly
<1>2. Inv /\ (drops = 0 /\ ~overlapped => Orderly) /\ [Next]_vars
        => (drops = 0 /\ ~overlapped => Orderly)'
      <2> SUFFICES ASSUME Inv, drops = 0 /\ ~overlapped => Orderly, [Next]_vars,
                          drops' = 0, ~overlapped'
                   PROVE  Orderly'
          OBVIOUS
      <2>1. drops = 0 /\ ~overlapped
            BY ClockStep, OverlapStep DEF Inv, TypeOK
      <2>2. /\ EndingsKnow /\ Placed /\ Clear /\ Passed /\ (Untouched \/ Spread) /\ OnItsDevice
            BY <2>1 DEF Orderly
      <2>3. EndingsKnow' /\ Placed'
            BY <2>1, <2>2, EndingsKnowStep, PlacedStep
      <2>4. Clear' /\ Passed'
            BY <2>1, <2>2, ClearStep, PassedStep
      <2>5. Untouched' \/ Spread'
            BY <2>1, <2>2, UntouchedStep, SpreadStep
      <2>6. OnItsDevice'
            BY <2>2, OnItsDeviceStep
      <2>7. QED
            BY <2>3, <2>4, <2>5, <2>6 DEF Orderly
<1>3. QED
      BY <1>1, <1>2, Invariant, PTL DEF Spec

-----------------------------------------------------------------------------
(* Theorems.                                                               *)

\* The actions table, the devices and what workers remember stay well typed.
THEOREM TypeCorrect == Spec => []TypeOK
<1>1. Inv => TypeOK
      BY DEF Inv
<1>2. QED
      BY <1>1, Invariant, PTL

\* claim_execution and retry: no device is asked twice for an operation, and no
\* opening has two retries, whichever sweeps lost their lock or died.
THEOREM EffectIsSingle == Spec => []OneEffect
<1>1. Inv => OneEffect
      BY DEF Inv
<1>2. QED
      BY <1>1, Invariant, PTL

\* The ending is committed with the claim: no bounded effect is in force without
\* an ending that is still to run or was reported as failed.
THEOREM EffectHasEnding == Spec => []BoundedUntilEnded
<1>1. Inv => BoundedUntilEnded
      BY DEF Inv
<1>2. QED
      BY <1>1, Invariant, PTL

\* complete_plan: a plan reported completed left nothing in force that it was to
\* end, unless a sweep lost its session.
THEOREM CompletionIsClean == Spec => []CompletedLeavesNothing
<1>1. Inv => CompletedLeavesNothing
      BY DEF Inv
<1>2. QED
      BY <1>1, Invariant, PTL

\* expired(), asked in the claim: no opening reaches its device after its window.
THEOREM DispatchedInTime == Spec => NoLateDispatch
<1>1. Inv /\ [Next]_vars
        => [\A o \in Op : ~o.ending /\ asked'[o] # asked[o] => ~Expired(o)]_vars
      <2> SUFFICES ASSUME Inv, [Next]_vars, NEW o \in Op, ~o.ending, asked'[o] # asked[o]
                   PROVE  ~Expired(o)
          OBVIOUS
      <2>1. PICK w \in Workers : Requests(w) /\ op[w] = o
            BY AskedOnce DEF Inv, Core
      <2>2. QED
            BY <2>1 DEF Requests, Inv, Claiming
<1>2. QED
      BY <1>1, Invariant, PTL DEF Spec, NoLateDispatch

\* stop_unstarted, hold and failure: nothing stops an ending that is scheduled.
THEOREM EndingIsRun == Spec => EndingNeverStopped
<1>1. Inv /\ [Next]_vars
        => [\A e \in Op : e.ending /\ row[e].status = "scheduled"
                        => row'[e].status \notin Stopped \cup {"none"}]_vars
      <2> SUFFICES ASSUME Inv, [Next]_vars, NEW e \in Op, e.ending, row[e].status = "scheduled"
                   PROVE  row'[e].status \notin Stopped \cup {"none"}
          OBVIOUS
      <2>1. Moves(row')
            BY RowStep DEF Inv
      <2>2. QED
            BY <2>1 DEF Moves, Runnable, Stopped
<1>2. QED
      BY <1>1, Invariant, PTL DEF Spec, EndingNeverStopped

\* failure: unless a sweep lost its session, evidence of a verified effect stays.
THEOREM EvidenceStays == Spec => VerifiedIsFinal
<1>1. Inv /\ [Next]_vars
        => [\A o \in Op : row[o].status = "verified" /\ drops = 0
                        => row'[o].status = "verified"]_vars
      <2> SUFFICES ASSUME Inv, [Next]_vars, NEW o \in Op, row[o].status = "verified", drops = 0
                   PROVE  row'[o].status = "verified"
          OBVIOUS
      <2>1. Moves(row')
            BY RowStep DEF Inv
      <2>2. QED
            BY <2>1 DEF Moves
<1>2. QED
      BY <1>1, Invariant, PTL DEF Spec, VerifiedIsFinal

\* inverse(): unless a sweep lost its session, a door is unlocked from locked.
THEOREM UnlockedFromLocked == Spec => DoorOpenedFromLocked
<1>1. Inv /\ [Next]_vars
        => [\A o \in Op : ~o.ending /\ o.of \in Doors /\ asked'[o] # asked[o] /\ drops = 0
                        => device[Target(o)] = Rest]_vars
      <2> SUFFICES ASSUME Inv, [Next]_vars, NEW o \in Op, ~o.ending, o.of \in Doors,
                          asked'[o] # asked[o], drops = 0
                   PROVE  device[Target(o)] = Rest
          OBVIOUS
      <2>1. PICK w \in Workers : Requests(w) /\ op[w] = o
            BY AskedOnce DEF Inv, Core
      <2>2. o.of \in Twin
            BY GivenFacts DEF Inv
      <2>3. pc[w] = "dispatch"
            BY <2>1, <2>2 DEF Requests, Holding, Inv, Knows
      <2>4. QED
            BY <2>1, <2>3 DEF Inv, Exclusive
<1>2. QED
      BY <1>1, Invariant, PTL DEF Spec, DoorOpenedFromLocked

\* check_overlaps and the order of a sweep: unless a sweep lost its session or resume()
\* scheduled an opening over what was queued in its way, the ending of one bounded
\* operation never cuts short another one on its device.
THEOREM NextIsKept == Spec => NextOperationKept
<1>1. Inv /\ (drops = 0 /\ ~overlapped => Orderly) /\ [Next]_vars
        => [\A e \in Op : e.ending /\ asked'[e] # asked[e] /\ drops = 0 /\ ~overlapped
              => device[Target(e)] \notin {b \in Bounded \ (Doors \cup {e.of}) : clock < Stop[b]}]_vars
      <2> SUFFICES ASSUME Inv, Orderly, [Next]_vars, NEW e \in Op, e.ending,
                          asked'[e] # asked[e], drops = 0, ~overlapped,
                          NEW b \in Bounded, b \notin Doors, b # e.of, clock < Stop[b],
                          device[Target(e)] = b
                   PROVE  FALSE
          OBVIOUS
      <2>1. PICK w \in Workers : Requests(w) /\ op[w] = e
            BY AskedOnce DEF Inv, Core
      <2>2. pc[w] \in {"dispatch", "post"}
            BY <2>1 DEF Requests, Holding, Inv, Exclusive
      <2>3. row[e].status = "executing"
            BY <2>1, <2>2 DEF Orderly, Placed
      <2>4. PICK p \in Op : /\ p = Opening(e) /\ p.of = e.of /\ ~p.ending /\ e = EndingOf(p)
                            /\ row[p].attempt
            BY <2>3, OpFacts DEF Inv, RowsKnow
      <2>5. e.of \in Bounded
            BY <2>3 DEF Orderly, EndingsKnow
      <2>6. PICK q \in Op : /\ q.of = b /\ ~q.ending /\ row[q].attempt
                            /\ row[EndingOf(q)].status # "verified"
            <3>1. /\ TargetOf[b] = Target(e)
                  /\ b # Rest /\ Target(e) \in Targets
                  BY GivenFacts, OpFacts, ExecutorAssumption DEF Orderly, OnItsDevice, Target, Inv
            <3>2. QED
                  BY <3>1 DEF Inv, BoundedUntilEnded, Runnable
      <2>7. TargetOf[b] = TargetOf[e.of]
            BY GivenFacts, OpFacts, ExecutorAssumption DEF Orderly, OnItsDevice, Target, Inv
      <2>8. e.of \notin Doors
            <3>1. given \in Situations
                  BY DEF Inv, TypeOK
            <3>2. QED
                  BY <2>5, <2>7, <3>1, ExecutorAssumption DEF Bounded, TargetOf, Doors
      <2>9. ~Overlap(p.of, row[p].due, q.of, row[q].due)
            BY <2>3, <2>4, <2>5, <2>6 DEF Orderly, Clear, Openers, InTheWay, Ended
      <2>10. /\ row[p].due \in Nat /\ row[q].due \in Nat /\ clock \in Nat
             /\ Stop[p.of] \in Nat /\ Stop[b] \in Nat /\ row[p].due <= clock
            BY <2>4, GivenFacts, OpFacts DEF Orderly, EndingsKnow, Inv, TypeOK, Row
      <2>11. Stop[p.of] <= row[q].due
            BY <2>4, <2>5, <2>6, <2>7, <2>9, <2>10 DEF Overlap
      <2>12. row[EndingOf(p)].status \in {"verified", "failed"}
            BY <2>4, <2>5, <2>6, <2>8, <2>11 DEF Orderly, Passed, Openers
      <2>13. QED
            BY <2>3, <2>4, <2>12
<1>2. QED
      BY <1>1, Invariant, OrderKept, PTL DEF Spec, NextOperationKept

\* What one operation's step never does to another operation, all of it at once.
THEOREM OthersAreKept == Spec => StepsKeep
BY NextIsKept, DispatchedInTime, UnlockedFromLocked, EndingIsRun, EvidenceStays DEF StepsKeep

\* "Overlapping bounded operations are refused": unless a sweep lost its session or
\* resume() scheduled an opening over what was queued in its way, and where nothing
\* opens a door, of two that were claimed on one device one begins when the other
\* must have ended, or did end.
THEOREM OverlapsAreRefused ==
    Spec => [](drops = 0 /\ ~overlapped /\ Doors = {} => OverlapsRefused)
<1>1. Inv /\ (drops = 0 /\ ~overlapped => Orderly)
        => (drops = 0 /\ ~overlapped /\ Doors = {} => OverlapsRefused)
      <2> SUFFICES ASSUME Inv, Orderly, Doors = {}, NEW p \in Op, NEW q \in Op,
                          ~p.ending, ~q.ending, p.of # q.of, {p.of, q.of} \subseteq Bounded,
                          Target(p) = Target(q), row[p].attempt, row[q].attempt
                   PROVE  \/ row[EndingOf(p)].due <= row[q].due
                          \/ row[EndingOf(q)].due <= row[p].due
                          \/ "verified" \in {row[EndingOf(p)].status, row[EndingOf(q)].status}
          BY DEF OverlapsRefused
      <2>1. CASE Ended(p) \/ Ended(q)
            BY <2>1 DEF Ended
      <2>2. CASE ~Overlap(p.of, row[p].due, q.of, row[q].due)
            <3>1. ASSUME NEW x \in {p, q}
                  PROVE  row[EndingOf(x)].due = Stop[x.of] /\ Stop[x.of] \in Nat
                         /\ row[x].due \in Nat
                  <4>1. PICK e \in Op : e = EndingOf(x) /\ e.ending /\ e.of = x.of
                        BY OpFacts
                  <4>2. row[e].status # "none"
                        BY <4>1 DEF Orderly, EndingsKnow
                  <4>3. QED
                        BY <4>1, <4>2, GivenFacts, OpFacts
                        DEF Orderly, EndingsKnow, Inv, TypeOK, Row
            <3>2. QED
                  BY <2>2, <3>1 DEF Overlap, Target
      <2>3. QED
            BY <2>1, <2>2 DEF Orderly, Clear, Openers, InTheWay
<1>2. QED
      BY <1>1, Invariant, OrderKept, PTL
=============================================================================
