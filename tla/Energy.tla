------------------------------- MODULE Energy -------------------------------
(***************************************************************************)
(* A plan carried out on the twin: the members ask, change and withdraw    *)
(* (planner/coordinator.py), the planner publishes its commands, the       *)
(* executor runs each when it is due, anyone reads the world at any time,  *)
(* and the process may stop and resume from its last checkpoint            *)
(* (executor/twin.py, planner/service.py, twin/world.py, twin/clock.py).   *)
(*                                                                         *)
(* A command is four steps, as in execute: its effect is computed on a     *)
(* read of the world, its attempt is claimed and its ending authorized,    *)
(* its record and checkpoint are committed, and then the computed state is *)
(* published, as of the world's last read.  What a stop or an error leaves *)
(* halfway has failed: it is retried once, or the plan is held.  A sweep   *)
(* carries out all that is due, with the simulated clock stopped.          *)
(***************************************************************************)
EXTENDS Coordinator

CONSTANTS
    Inputs,     \* the planner inputs; the world opens with their devices; one whose
                \* `talk' is set is talked over, and its plan not carried out
    Device,     \* a device with a transition under way
    Talk,       \* ticks the members talk before the plan is made
    MaxSaid,    \* requests and withdrawals of the members
    Tolerance,  \* how far a temperature may be from its prediction
    MaxCrashes

VARIABLES
    clock,      \* simulated time
    world,      \* state and the instant it stands for
    last,       \* the world's last read
    records,    \* the members' requests: the current rows of constraints
    said,
    input, result,
    todo,       \* rows of commands and endings not yet carried out
    missed,     \* rows that failed, or that a hold stopped
    job,        \* the row under way and the state computed for it (Free: it
                \* failed), or Free
    row,        \* the committed checkpoint, or Free
    signed,     \* instant of the latest signed record
    applied,    \* the verified commands and the instants of their records
    crashes

ASSUME EnergyAssumption ==
    /\ Inputs \subseteq PlannerInputs /\ Device \in Devices
    /\ {Talk, MaxSaid, Tolerance, MaxCrashes} \subseteq Nat

asked == <<records, said, input, result>>
energyVars == <<clock, world, last, asked, todo, missed, job, row, signed, applied, crashes>>

Fresh(p) ==
    [s |-> Events([ev |-> p.ev, battery |-> p.battery, zone |-> p.zone,
                   appliance |-> p.appliance, device |-> Device,
                   presence |-> [present |-> TRUE, asleep |-> FALSE], events |-> <<>>], 0),
     at |-> 0]

EnergyInit ==
    /\ input \in {p \in Inputs : consistency(p)}
    /\ world = Fresh(input)
    /\ clock = (IF input.talk THEN -Talk ELSE 0) /\ last = 0
    /\ records = {} /\ said = 0 /\ signed = 0 /\ crashes = 0
    /\ result = Free /\ todo = {} /\ missed = {} /\ job = Free /\ row = Free /\ applied = {}

\* A row of the table actions: a command, whether it is the retry of another, and
\* its execution_status until it is verified or has failed.
Row(c, again) == [command |-> c, again |-> again, stage |-> "scheduled"]

Due == {r \in todo : r.command.at <= clock}

----------------------------------------------------------------------------
(* The members talk, and a plan is made.                                   *)

Talking == result = Free /\ input.talk /\ said < MaxSaid

\* A request of member m, recorded in one transaction with the end of those it
\* stands for.
Intake(previous, new) ==
    /\ Closable(previous, clock)
    /\ records' = commit_constraint(records, previous, new, clock)
    /\ said' = said + 1
    /\ UNCHANGED <<clock, world, last, input, result, todo, missed, job, row, signed, applied, crashes>>

\* What m asks for now: entered in a form, or said.
Asked(m) ==
    {spec \in Specs[m] : Fits(spec, clock)} \cup UNION {parse(f, clock) : f \in Phrases[m]}

Say(m) == Talking /\ \E spec \in Asked(m) : Intake({}, {Record(m, spec, clock)})

Change(m) ==
    /\ Talking
    /\ \E spec \in UNION {parse(f, clock) : f \in Phrases[m]}, r \in records :
         Own(records, m, spec, clock) = {r} /\ Intake({r}, {Record(m, spec, clock)})

\* An explicit replacement, of any kind.
Replace(m) ==
    /\ Talking
    /\ \E spec \in Asked(m), r \in records :
         MayEnd(m, r) /\ Intake({r}, {Record(m, spec, clock)})

Withdraw(m) == Talking /\ \E r \in records : MayEnd(m, r) /\ Intake({r}, {})

\* The thermostat is turned by hand: the hold is renewed.
Turn(m) ==
    /\ Talking
    /\ \E target \in Range(input.lower) \cup Range(input.upper) :
         Intake(Holds(records, clock), {Hold(m, target, clock)})

Release == Talking /\ \E r \in records : Holds(records, clock) = {r} /\ Intake({r}, {})

\* Time passes from slot to slot while they talk.
Talks ==
    /\ result = Free /\ clock < 0
    /\ clock' = Least(0, clock + SlotTicks)
    /\ UNCHANGED <<world, last, asked, todo, missed, job, row, signed, applied, crashes>>

Plan ==
    /\ result = Free /\ clock = 0
    /\ \E rows \in {explicit(records)} : \E q \in {coordinated(input, rows)} :
         /\ input' = q
         /\ \E r \in coordinate(input, q, rows) :
              /\ result' = r
              /\ todo' = IF r.schedule = Free \/ input.talk THEN {}
                         ELSE {Row(c, FALSE) : c \in actions(q, r.schedule)}
    /\ UNCHANGED <<clock, world, last, records, said, missed, job, row, signed, applied, crashes>>

----------------------------------------------------------------------------
(* The plan is carried out.                                                *)

Carried == result # Free /\ ~input.talk

\* (mutant) The clock runs on while a command is under way.
TickThawed ==
    /\ Carried /\ clock < End
    /\ \A r \in Due : job # Free /\ job.of = r
    /\ clock' = clock + 1
    /\ UNCHANGED <<world, last, asked, todo, missed, job, row, signed, applied, crashes>>

\* The clock stands still during a sweep, which carries out all that is due.
TimePasses ==
    /\ Carried /\ clock < End /\ Due = {} /\ job = Free
    /\ clock' = clock + 1
    /\ UNCHANGED <<world, last, asked, todo, missed, job, row, signed, applied, crashes>>

\* A poll by an adapter.
Read ==
    /\ Carried
    /\ world' = AdvanceTo(world, clock).world
    /\ last' = clock
    /\ UNCHANGED <<clock, asked, todo, missed, job, row, signed, applied, crashes>>

\* member_event: an input makes the instant of its read a boundary.
MemberEvent(kind) ==
    /\ Carried /\ job = Free
    /\ \A e \in ToSet(world.s.events) : e.kind # "member"
    /\ LET now == AdvanceTo(world, clock).view IN
       /\ kind = "sleep" => now.presence.present
       /\ world' = [at |-> clock,
                    s |-> [now EXCEPT !.presence = PresenceChange(@, kind),
                             !.events = Append(@, [at |-> clock, kind |-> "member"])]]
    /\ last' = clock
    /\ UNCHANGED <<clock, asked, todo, missed, job, row, signed, applied, crashes>>

\* The sweep's order: endings first, then by the instant each fell due.
IsEnding(r) == r.command.until = 0
First(r) == \A d \in Due : \/ IsEnding(r) /\ ~IsEnding(d)
                           \/ IsEnding(r) = IsEnding(d) /\ r.command.at <= d.command.at

\* The record VERIFY_FAILED: r is past, and what follows from it is open.
Fails(r) ==
    /\ todo' = todo \ {r} /\ missed' = missed \cup {r}
    /\ job' = [of |-> r, state |-> Free]
    /\ signed' = clock

\* effect: on the state as read now, or refused; an opening's inverse and its
\* redeemed decision are on record by then.
Compute ==
    /\ job = Free
    /\ \E r \in Due :
         /\ First(r) /\ r.stage = "scheduled"
         /\ LET now == AdvanceTo(world, clock) IN
            IF Refused(now.view, r.command) THEN Fails(r)
            ELSE /\ job' = [of |-> r, state |-> Effect(now.view, r.command)]
                 /\ signed' = IF IsEnding(r) THEN signed ELSE clock
                 /\ UNCHANGED <<todo, missed>>
    /\ world' = AdvanceTo(world, clock).world /\ last' = clock
    /\ UNCHANGED <<clock, asked, row, applied, crashes>>

Doing(stage) == job # Free /\ job.state # Free /\ job.of.stage = stage

\* claim_execution: the attempt, and with it the ending.
Claim ==
    /\ Doing("scheduled")
    /\ job' = [job EXCEPT !.of = [job.of EXCEPT !.stage = "executing"]]
    /\ LET c == job.of.command
           ending == [device |-> c.device, at |-> c.until, until |-> 0, params |-> Ending(c)]
       IN todo' = (todo \ {job.of}) \cup {job'.of}
                  \cup IF Ending(c) = Free THEN {} ELSE {Row(ending, job.of.again)}
    /\ signed' = clock
    /\ UNCHANGED <<clock, world, last, asked, missed, row, applied, crashes>>

\* transition and checkpoint, in one transaction.
Commit ==
    /\ Doing("executing")
    /\ job' = [job EXCEPT !.of = [job.of EXCEPT !.stage = "dispatched"]]
    /\ todo' = (todo \ {job.of}) \cup {job'.of}
    /\ row' = [s |-> job.state, at |-> last]
    /\ signed' = clock
    /\ UNCHANGED <<clock, world, last, asked, missed, applied, crashes>>

\* The record VERIFIED of the command under way; of two at one instant on one
\* device, the later one counts (commands on two devices commute).
Verified(at) ==
    LET c == job.of.command
        before == {d \in applied : d.at = at /\ d.command.device = c.device}
    IN (applied \ before) \cup
       {[at |-> at, command |-> [c EXCEPT !.params =
            IF before = {} THEN @ ELSE @ @@ (CHOOSE d \in before : TRUE).command.params]]}

\* Publication and the outcome of the comparison that follows it: between the two
\* nothing is kept that a stop would not lose.  A retry stands for its original.
Publish ==
    /\ Doing("dispatched")
    /\ LET now == AdvanceTo([s |-> job.state, at |-> last], clock)
       IN world' = now.world
    /\ last' = clock /\ signed' = clock /\ job' = Free
    /\ applied' = Verified(clock)
    /\ todo' = todo \ {job.of}
    /\ missed' = {m \in missed : ~(/\ job.of.again /\ ~m.again
                                   /\ m.command.device = job.of.command.device
                                   /\ m.command.until = job.of.command.until)}
    /\ UNCHANGED <<clock, asked, row, crashes>>

\* (mutant) What was dispatched is taken for done.
UncertainDone ==
    /\ job = Free
    /\ \E r \in Due : First(r) /\ r.stage # "scheduled" /\ todo' = todo \ {r}
    /\ UNCHANGED <<clock, world, last, asked, missed, job, row, signed, applied, crashes>>

\* A row whose attempt a stop left without an outcome: dispatch_uncertain.
Uncertain ==
    /\ job = Free
    /\ \E r \in Due : First(r) /\ r.stage # "scheduled" /\ Fails(r)
    /\ UNCHANGED <<clock, world, last, asked, row, applied, crashes>>

\* An error on the way, or a command that takes too long.
Falter ==
    /\ crashes < MaxCrashes
    /\ job # Free /\ job.state # Free
    /\ crashes' = crashes + 1
    /\ Fails(job.of)
    /\ UNCHANGED <<clock, world, last, asked, row, applied>>

\* The rest of failure: the controls as they now are decide whether it is worth
\* a retry, which has to be assessed anew; otherwise the plan is held, and only
\* what was begun goes on.
Unmet(s, c) == \E k \in DOMAIN c.params : s[c.device][k] # c.params[k]

Retriable(s, r) ==
    /\ Unmet(s, r.command) /\ ~r.again
    /\ r.command.device # "appliance" /\ ~IsEnding(r)
    /\ clock < r.command.until

Settle ==
    /\ job # Free /\ job.state = Free
    /\ LET r == job.of
           now == AdvanceTo(world, clock)
       IN /\ world' = now.world
          /\ \/ /\ Retriable(now.view, r)
                /\ todo' = todo \cup {Row([r.command EXCEPT !.at = clock], TRUE)}
                /\ UNCHANGED missed
             \/ /\ todo' = {d \in todo : IsEnding(d) \/ d.stage # "scheduled"}
                /\ missed' = missed \cup (todo \ todo')
    /\ last' = clock /\ signed' = clock /\ job' = Free
    /\ UNCHANGED <<clock, asked, row, applied, crashes>>

\* A stop and restart: the last checkpoint, at the last signed instant.
Restore ==
    /\ crashes < MaxCrashes /\ Carried
    /\ crashes' = crashes + 1
    /\ IF row = Free
       THEN world' = Fresh(input) /\ clock' = 0 /\ last' = 0
       ELSE /\ clock' = Most(row.at, signed)
            /\ world' = AdvanceTo(row, clock').world /\ last' = clock'
    /\ job' = Free
    /\ UNCHANGED <<asked, todo, missed, row, signed, applied>>

----------------------------------------------------------------------------
(* What the household should read by now (executor/runtime.py, predicted):  *)
(* the plan's own input, moved on by the verified commands alone.           *)

\* (mutant) A write at the plan's own instant is taken for an earlier one.
HeededInside(d, at) == 0 < d.at /\ d.at < at

\* A same-instant observation predates the write.
Heeded(d, at) == d.at < at

Obey(d, s) ==
    IF d.command.device = "appliance" /\ Running(s.appliance) THEN s
    ELSE Effect(s, d.command)

predicted(p, at, done) ==
    LET heeded == {d \in done : Heeded(d, at)}
        edges == SetToSortSeq({0, at} \cup {d.at : d \in heeded}
                    \cup {t \in {Finish(i) : i \in Slots} : t < at}, <)
        Through(w, edge) ==
            [s |-> FoldSet(Obey, Step(w.s, edge - w.at), {d \in heeded : d.at = edge}),
             at |-> edge]
    IN FoldLeft(Through, Fresh(p), edges).s

Draw(s) ==
    [ev |-> IF s.ev.charging /\ s.ev.soc < s.ev.limit THEN Charger ELSE 0,
     battery |-> IF Stored(s.battery, 1) = 0 THEN 0 ELSE s.battery.rate]

deviates(actual, expected) ==
    \/ Abs(actual.zone.temp - expected.zone.temp) > Tolerance
    \/ actual.ev.soc # expected.ev.soc \/ actual.battery.soc # expected.battery.soc
    \/ Draw(actual) # Draw(expected)

EnergyNext ==
    \/ \E m \in Residents : Say(m) \/ Change(m) \/ Replace(m) \/ Withdraw(m) \/ Turn(m)
    \/ Release \/ Talks \/ Plan \/ TimePasses \/ Read \/ Compute \/ Claim
    \/ Commit \/ Publish \/ Uncertain \/ Falter \/ Settle \/ Restore
    \/ \E kind \in {"arrive", "leave", "sleep", "wake"} : MemberEvent(kind)

EnergySpec == EnergyInit /\ [][EnergyNext]_energyVars

----------------------------------------------------------------------------
(* Properties.                                                             *)

\* A plan that is reported completed has delivered: nothing of it is pending
\* or failed without a verified retry (complete_plan, executor/service.py:429),
\* and with reads, errors, restarts and retries in between, it leaves the car at
\* its target, the battery at its opening energy and one more appliance cycle
\* done (replay.py's promise, kept by the commands of service.actions).
PlanDelivers ==
    (result # Free /\ clock = End /\ todo = {} /\ missed = {} /\ job = Free)
    => \/ result.schedule = Free
       \/ LET view == AdvanceTo(world, clock).view IN
          /\ view.ev.soc = effective(input).target
          /\ view.battery.soc = input.battery.soc
          /\ view.appliance.done = input.appliance.done + 1

\* Two formulations agree: what the solver's rows admit and it calls optimal,
\* the replay on the twin's physics accepts, and a plan is published; unless
\* a thermostat's step changed the schedule after the solver.
OptimalIsPublished ==
    (result # Free /\ result.status = "optimal" /\ input.step = 0)
    => result.schedule # Free

\* An optimal plan for cost never costs more than a baseline it is compared
\* with, beyond the gap the solver may stop at: a loss reported to the household
\* is within the gap, and where none is allowed there is none.
LossWithinGap ==
    (/\ result # Free /\ result.status = "optimal" /\ result.schedule # Free
     /\ input.step = 0 /\ stages(input)[1] = "cost")
    => LET cost == ReplayCost(replay(input, result.schedule)) IN
       \A m \in Methods :
         \/ result.savings[m] = Free
         \/ 1000 * result.savings[m] + mip_rel_gap(input, "cost") * Abs(cost) >= 0

\* What the solver calls optimal is carried out, and worth carrying out.
OptimalIsBest == OptimalIsPublished /\ LossWithinGap

\* No request is lost on the way: whatever the members asked for, changed or
\* withdrew, a plan that is proposed honours every hard request still on
\* record, on the twin's own physics (planner/coordinator.py:778).
Honours(r, x, course) ==
    LET mine == {i \in Slots : active(r, Start(i), Finish(i))}
        charging == {i \in Slots : x.ev[i] > 0}
    IN CASE r.kind = "ev_target" -> /\ course[N].ev.soc = r.at
                                    /\ \A i \in charging : Finish(i) <= r.to
         [] r.kind = "ev_ceiling" -> \A i \in mine : course[i].ev.soc <= r.at
         [] r.kind = "ev_not_before" -> \A i \in charging : Start(i) >= Least(r.at, r.to)
         [] r.kind = "ev_deadline" -> \A i \in charging : Finish(i) <= r.at
         [] r.kind = "appliance_not_before" ->
              x.start # 0 => Start(x.start) >= Least(r.at, r.to)
         [] r.kind = "appliance_deadline" ->
              \A i \in Slots : Finish(i) >= r.at => course[i].appliance.left = 0
         [] r.kind = "temperature_band" ->
              \A i \in mine : {course[i - 1].zone.temp, course[i].zone.temp} \subseteq r.at..r.upper
         [] r.kind = "manual_hold" -> \A i \in mine : x.targets[i] = r.at
         [] r.kind = "temperature" -> TRUE

RequestsHonoured ==
    (result # Free /\ result.schedule # Free)
    => LET course == Course(input, result.schedule)
       IN \A r \in explicit(records) : Honours(r, result.schedule, course)

\* A plan is not recomputed because of its own effects: what the household
\* reads after its commands is what the refresh predicts from their records,
\* although reads, boundaries and restarts cut the physics elsewhere, and
\* attempts come to nothing and are retried; a command of which the checkpoint
\* was written and the outcome was not stays uncertain, and the household may
\* differ (executor/runtime.py:199, executor/refresh.py:262, 299).
OwnEffectsPredicted ==
    (/\ result # Free /\ job = Free /\ Due = {}
     /\ \A m \in missed : m.stage # "dispatched"
     /\ \A d \in applied : d.at < clock)
    => ~deviates(AdvanceTo(world, clock).view, predicted(input, clock, applied))

\* Every scheduled transition of the member happens once, in order, when the
\* world passes it, whoever reads and whenever the process restarts.
TimetableKept ==
    LET events == world.s.events
        kept == {i \in DOMAIN events : events[i] \in Timetable}
    IN /\ {events[i] : i \in kept} = {e \in Timetable : e.at <= world.at}
       /\ \A i, j \in kept : i < j => events[i] # events[j] /\ events[i].at <= events[j].at
=============================================================================
