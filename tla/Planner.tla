------------------------------- MODULE Planner -------------------------------
(***************************************************************************)
(* The energy planner (src/hirz/planner): the solver's program, the        *)
(* baselines it is compared with, the replay that checks every schedule    *)
(* against the twin's own physics, and the commands a plan consists of.    *)
(*                                                                         *)
(* The solver is untrusted: `solve' is every answer it may give.  Slots    *)
(* are of one length, SlotTicks.  An input p has the opening devices (ev,  *)
(* battery, zone, appliance), the car's target and deadline, the           *)
(* appliance's release and deadline, the comfort band per slot and at the  *)
(* end, targets and preferences per slot, the members' constraints in the  *)
(* order recorded ([kind, at, from, to], `at' a time or a charge), the     *)
(* controls a replan may not change (Free where it may), the thermostat's  *)
(* step (0: any) and the objective.                                        *)
(***************************************************************************)
EXTENDS Twin, SequencesExt

CONSTANTS
    N, SlotTicks,       \* slots of the horizon and their length
    Price, Solar, Outside, Night,   \* per slot; Night: the slots after 21:00
    BaseLoad, ApplianceLoad,        \* per tick
    Wear,               \* cost of a unit through the battery
    Rates,              \* the battery rates of a schedule, per tick
    Gap,                \* thousandths of the cost the solver may stop short of the best
    Free                \* no commitment, no hold, no preference

Slots == 1..N
Maybe(S) == S \cup {Free}

\* The figures of the horizon; a battery may always rest.
ASSUME PlannerAssumption ==
    /\ N \in Nat \ {0} /\ SlotTicks \in Nat \ {0}
    /\ Price \in [Slots -> Int] /\ Solar \in [Slots -> Int] /\ Outside \in [Slots -> Int]
    /\ Night \subseteq Slots
    /\ BaseLoad \in Int /\ ApplianceLoad \in Int /\ Wear \in Int
    /\ IsFiniteSet(Rates) /\ Rates \subseteq Int /\ 0 \in Rates
    /\ Gap \in Nat
    /\ Free \notin Int

Start(i) == (i - 1) * SlotTicks
Finish(i) == i * SlotTicks
Upto(f, i) ==
    LET Sum[k \in 0..N] == IF k = 0 THEN 0 ELSE Sum[k - 1] + f[k]
    IN Sum[i]
Total(f) == Upto(f, N)

\* The day's end, 21:00, that the timer baseline is anchored to.
TimerStart == IF Night = {} THEN Finish(N) ELSE Start(Min(Night))

----------------------------------------------------------------------------
(* Constraints.                                                            *)

\* The last target recorded counts; of several earliest times, the latest.
effective(p) ==
    LET targets == {k \in DOMAIN p.constraints : p.constraints[k].kind = "ev_target"}
        Times(kind) == {c.at : c \in {x \in ToSet(p.constraints) : x.kind = kind}}
    IN [target  |-> IF targets = {} THEN p.target ELSE p.constraints[Max(targets)].at,
        evStart |-> Max({0} \cup Times("ev_not_before")),
        release |-> Max({p.release} \cup Times("appliance_not_before"))]

\* A ceiling counts in the slots that begin in its window.
Covered(c) == {i \in Slots : c.from <= Start(i) /\ Start(i) < c.to}
Limits(p) == {c \in ToSet(p.constraints) : c.kind = "ev_ceiling"}
Ceilings(p, i) == {c.at : c \in {x \in Limits(p) : i \in Covered(x)}}

Chargeable(p, i) ==
    Start(i) >= effective(p).evStart /\ Finish(i) <= p.deadline

appliance_windows(p) ==
    IF Running(p.appliance) THEN {}
    ELSE {i \in Slots : /\ Start(i) >= effective(p).release
                        /\ Start(i) + Cycle <= Least(p.applianceDeadline, End)}

\* Energy of a cycle begun at slot `start', or of the one under way, in slot i.
CycleLoad(p, start, i) ==
    LET from == IF Running(p.appliance) THEN 0 ELSE Start(start)
        to == from + IF Running(p.appliance) THEN p.appliance.left ELSE Cycle
    IN IF start = 0 /\ ~Running(p.appliance) THEN 0
       ELSE ApplianceLoad * Most(0, Least(Finish(i), to) - Most(Start(i), from))

----------------------------------------------------------------------------
(* Replay: a schedule on the twin's physics, slot by slot, with the        *)
(* reasons it is refused for.                                              *)

Opening(p) ==
    [ev |-> p.ev, battery |-> p.battery, zone |-> p.zone,
     appliance |-> p.appliance, reasons |-> {}, cost |-> 0, through |-> 0,
     exports |-> <<>>]

Reasons == {"hold changed", "EV commitment", "battery commitment", "EV window", "EV power",
            "EV ceiling", "appliance start", "appliance deadline", "comfort",
            "battery power", "battery bounds", "battery to grid"}

\* The devices as the schedule sets them for slot i.
Charging(x, i, r) == [r.ev EXCEPT !.charging = x.ev[i] > 0,
                                  !.limit = Least(Full, r.ev.soc + x.ev[i])]
Begun(p, x, i, r) ==
    IF x.start = i /\ Start(i) >= effective(p).release /\ ~Running(r.appliance)
    THEN [r.appliance EXCEPT !.left = Cycle] ELSE r.appliance
Heated(x, i, r) == [r.zone EXCEPT !.target = x.targets[i], !.mode = x.modes[i]]
Rated(x, i, r) == [r.battery EXCEPT !.rate = x.battery[i]]

\* And after it.
Slotted(p, x, i, r) ==
    [ev |-> EVAdvance(Charging(x, i, r), SlotTicks),
     battery |-> BatteryAdvance(Rated(x, i, r), SlotTicks),
     zone |-> ZoneAdvance(Heated(x, i, r), SlotTicks),
     appliance |-> ApplianceAdvance(Begun(p, x, i, r), SlotTicks)]

Net(p, x, i, r) ==
    LET n == Slotted(p, x, i, r)
        load == BaseLoad * SlotTicks + (n.ev.soc - r.ev.soc)
                + ApplianceLoad * (Begun(p, x, i, r).left - n.appliance.left)
                + Abs(Heat(Heated(x, i, r), SlotTicks))
    IN load - Outgoing(Rated(x, i, r), SlotTicks) - Solar[i] * SlotTicks

\* What n, the devices after slot i, and the schedule are refused for.
Refusals(p, x, i, r, n) ==
    LET out == Outgoing(Rated(x, i, r), SlotTicks) IN
    {why \in Reasons :
       \/ why = "hold changed" /\ p.held[i] # Free
          /\ (x.targets[i] # p.held[i] \/ x.modes[i] # p.zone.mode)
       \/ why = "EV commitment" /\ p.fixedEv[i] \notin {Free, x.ev[i]}
       \/ why = "battery commitment" /\ p.fixedBattery[i] \notin {Free, x.battery[i]}
       \/ why = "EV window" /\ x.ev[i] > 0 /\ ~Chargeable(p, i)
       \/ why = "EV power" /\ n.ev.soc - r.ev.soc # x.ev[i]
       \/ why = "EV ceiling" /\ \E c \in Ceilings(p, i) : n.ev.soc > c
       \/ why = "appliance start" /\ x.start = i
          /\ (Start(i) < effective(p).release \/ Running(r.appliance))
       \/ why = "appliance deadline" /\ Finish(i) >= p.applianceDeadline
          /\ (Running(n.appliance) \/ n.appliance.done # p.appliance.done + 1)
       \/ why = "comfort" /\ \/ Least(r.zone.temp, n.zone.temp) < p.lower[i]
                             \/ Most(r.zone.temp, n.zone.temp) > p.upper[i]
       \/ why = "battery power" /\ Abs(x.battery[i]) > Power
       \/ why = "battery bounds" /\ out # x.battery[i] * SlotTicks
       \/ why = "battery to grid" /\ out > 0 /\ Net(p, x, i, r) < 0}

ReplaySlot(p, x, i, r) ==
    LET n == Slotted(p, x, i, r)
        net == Net(p, x, i, r)
    IN [ev |-> n.ev, battery |-> n.battery, zone |-> n.zone, appliance |-> n.appliance,
        cost |-> r.cost + Most(0, net) * Price[i],
        through |-> r.through + Abs(Stored(Rated(x, i, r), SlotTicks)),
        exports |-> Append(r.exports, Most(0, -net)),
        reasons |-> r.reasons \cup Refusals(p, x, i, r, n)]

Course(p, x) ==
    LET Through[i \in 0..N] ==
            IF i = 0 THEN Opening(p) ELSE ReplaySlot(p, x, i, Through[i - 1])
    IN Through

\* What must hold in the end.
Judged(p, r) ==
    [r EXCEPT !.reasons = @ \cup
       {why \in {"EV delivery", "ending energy", "ending comfort", "workload"} :
          \/ why = "EV delivery" /\ r.ev.soc # effective(p).target
          \/ why = "ending energy" /\ r.battery.soc # p.battery.soc
          \/ why = "ending comfort" /\ r.zone.temp \notin p.lower[N + 1]..p.upper[N + 1]
          \/ why = "workload" /\ r.appliance.done # p.appliance.done + 1}]

replay(p, x) == Judged(p, Course(p, x)[N])

Valid(r) == r.reasons = {}
ReplayCost(r) == r.cost + Wear * r.through

----------------------------------------------------------------------------
(* The solver's program, row by row, over whole units.                     *)

Warmed(p, temp, heat) == temp + heat + Passive([p.zone EXCEPT !.temp = temp], SlotTicks)

Temp(p, heat, i) ==
    LET T[k \in 0..N] == IF k = 0 THEN p.zone.temp ELSE Warmed(p, T[k - 1], heat[k])
    IN T[i]

\* The heat a manual hold leads to, from the opening temperature on.
Held(p, i) ==
    LET Z[k \in 0..N] ==
          IF k = 0 \/ p.held[k] = Free THEN p.zone
          ELSE ZoneAdvance([Z[k - 1] EXCEPT !.target = p.held[k]], SlotTicks)
    IN Heat([Z[i - 1] EXCEPT !.target = p.held[i]], SlotTicks)

HeatRows(p) ==
    {h \in [Slots -> {-Hvac * SlotTicks, 0, Hvac * SlotTicks}] :
       /\ Temp(p, h, N) \in p.lower[N + 1]..p.upper[N + 1]
       /\ \A i \in Slots :
         /\ {Temp(p, h, i - 1), Temp(p, h, i)} \subseteq p.lower[i]..p.upper[i]
         /\ p.held[i] # Free => h[i] = Held(p, i)}

EVRows(p) ==
    {e \in [Slots -> {0, Charger, Charger * SlotTicks}] :
       /\ Total(e) = effective(p).target - p.ev.soc
       /\ \A c \in ToSet(p.constraints) :
            c.kind = "ev_target" => Total(e) = c.at - p.ev.soc
       /\ \A i \in Slots : /\ e[i] > 0 => Chargeable(p, i)
                           /\ p.fixedEv[i] \in {Free, e[i]}
                           /\ \A c \in Ceilings(p, i) : Upto(e, i) + p.ev.soc <= c}

EnergyAt(p, b, i) ==
    p.battery.soc + Upto([k \in Slots |-> IF b[k] > 0 THEN -b[k] * SlotTicks * Loss
                                          ELSE (-b[k] * SlotTicks) \div Loss], i)

BatteryRows(p) ==
    {b \in [Slots -> Rates] :
       /\ \A i \in Slots : /\ EnergyAt(p, b, i) \in Reserve..Capacity
                           /\ p.fixedBattery[i] \in {Free, b[i]}
       /\ EnergyAt(p, b, N) = p.battery.soc}

\* Household energy balance: what the grid gives (negative: takes) in slot i.
Grid(p, y, i) ==
    (BaseLoad - Solar[i] - y.battery[i]) * SlotTicks + y.ev[i] + Abs(y.heat[i])
    + CycleLoad(p, y.start, i)

\* (mutant) Only what is beyond the sun's share is held back.
SolarExportOnly(p, y) == \A i \in Slots : Grid(p, y, i) >= -Solar[i] * SlotTicks
NoBatteryToGrid(p, y) == \A i \in Slots : y.battery[i] > 0 => Grid(p, y, i) >= 0

feasible(p) ==
    {y \in [ev : EVRows(p), battery : BatteryRows(p), heat : HeatRows(p),
            start : IF Running(p.appliance) THEN {0} ELSE appliance_windows(p)] :
       NoBatteryToGrid(p, y)}

----------------------------------------------------------------------------
(* Objectives, in stages: each keeps the optimum of those before it.       *)

CostOf(p, y) ==
    LET each == [i \in Slots |-> Price[i] * Most(0, Grid(p, y, i))
                   + Wear * Abs(EnergyAt(p, y.battery, i) - EnergyAt(p, y.battery, i - 1))]
    IN Total(each)

ImportOf(p, y) == Total([i \in Slots |-> Most(0, Grid(p, y, i))])

Preferred(p, i) ==
    IF p.objective = "none" THEN p.preferences[i]
    ELSE IF i \notin p.occupied THEN Free
    ELSE IF p.preferences[i] # Free THEN p.preferences[i] ELSE p.targets[i]

DiscomfortOf(p, y) ==
    Total([i \in Slots |-> IF Preferred(p, i) = Free THEN 0
                           ELSE Abs(Temp(p, y.heat, i) - Preferred(p, i))])

stages(p) ==
    LET comfort == IF \A i \in Slots : Preferred(p, i) = Free THEN <<>>
                   ELSE <<"comfort">>
    IN CASE p.objective = "none"             -> comfort \o <<"cost">>
         [] p.objective = "cheapest"         -> <<"cost">> \o comfort
         [] p.objective = "most_comfortable" -> comfort \o <<"cost">>
         [] p.objective = "greenest" -> <<"import">> \o comfort \o <<"cost">>

Value(p, stage, y) ==
    CASE stage = "cost"    -> CostOf(p, y)
      [] stage = "import"  -> ImportOf(p, y)
      [] stage = "comfort" -> DiscomfortOf(p, y)

\* A stage is exact, but for the cost where no objective is chosen.
mip_rel_gap(p, stage) == IF p.objective = "none" /\ stage = "cost" THEN Gap ELSE 0

Best(p, all) ==
    LET order == stages(p)
        Optimal(stage, ys) ==
          LET worth == {<<Value(p, stage, y), y>> : y \in ys}
              least == Min({w[1] : w \in worth})
              Enough(v) == 1000 * (v - least) <= mip_rel_gap(p, stage) * Abs(v)
          IN {w[2] : w \in {v \in worth : Enough(v[1])}}
        Kept[k \in 0..Len(order)] ==
          IF k = 0 THEN all ELSE LET ys == Kept[k - 1] IN Optimal(order[k], ys)
    IN Kept[Len(order)]

\* Temperatures become thermostat targets; the mode follows the heat.
Controls(p, y) ==
    [ev |-> y.ev, battery |-> y.battery, start |-> y.start,
     targets |-> [i \in Slots |-> IF p.held[i] # Free THEN p.held[i]
                                  ELSE Temp(p, y.heat, i)],
     modes |-> [i \in Slots |->
                  IF p.held[i] # Free THEN p.zone.mode
                  ELSE IF y.heat[i] > 0 THEN "heat"
                  ELSE IF y.heat[i] < 0 THEN "cool"
                  ELSE IF Outside[i] < Temp(p, y.heat, i) THEN "heat" ELSE "cool"]]

\* Every answer of the solver: out of time with nothing or, in whatever stage,
\* with what it has; infeasible; or optimal in every stage, within the gap.
solve(p) ==
    LET all == feasible(p)
        With(status, ys) == {[status |-> status, x |-> Controls(p, y)] : y \in ys}
    IN {[status |-> "timeout", x |-> Free]} \cup
       IF all = {} THEN {[status |-> "infeasible", x |-> Free]}
       ELSE With("timeout", all) \cup With("optimal", Best(p, all))

----------------------------------------------------------------------------
(* The timer, immediate and cheapest-slot schedules.                       *)

\* The slots the car may charge in, and the order the method prefers.
BaselineSlots(p, method) ==
    {i \in Slots : /\ p.fixedEv[i] = Free /\ Chargeable(p, i)
                   /\ method = "timer" => Start(i) >= TimerStart}

Preference(open, method) ==
    SetToSortSeq(open, LAMBDA a, b : IF method = "greedy" /\ Price[a] # Price[b]
                                     THEN Price[a] < Price[b] ELSE a < b)

\* The car's energy, slot after slot in that order.
BaselineEV(p, method) ==
    LET open == BaselineSlots(p, method)
        order == Preference(open, method)
        fixed == [i \in Slots |-> IF p.fixedEv[i] = Free THEN 0 ELSE p.fixedEv[i]]
        Give(e, i) ==
          LET given == Total(e)
              amount == Clamp(0, Charger * SlotTicks,
                              effective(p).target - p.ev.soc - given)
              room == {Most(0, c.at - p.ev.soc - Upto(e, Max(Covered(c)))) :
                         c \in {x \in Limits(p) : \E k \in Covered(x) : k >= i}}
          IN [e EXCEPT ![i] = Min({amount} \cup room)]
        Given[k \in 0..Cardinality(open)] ==
          IF k = 0 THEN fixed ELSE Give(Given[k - 1], order[k])
    IN Given[Cardinality(open)]

BaselineStart(p, method) ==
    LET windows == appliance_windows(p)
        Bill(i) == Total([k \in Slots |-> Price[k] * CycleLoad(p, i, k)])
        cheap == {i \in windows : method = "greedy" =>
                                    \A k \in windows : Bill(i) <= Bill(k)}
    IN IF windows = {} THEN 0 ELSE Min(cheap)

\* The temperatures from which every later band can still be reached at full
\* power; a band that tightens is entered at its target.
comfort_envelope(p) ==
    LET temps == Min(Range(p.lower))..Max(Range(p.upper))
        tightens == {t \in 2..N : p.lower[t] > p.lower[t - 1] \/ p.upper[t] < p.upper[t - 1]}
        Band(t) == {v \in temps : IF t \in tightens THEN v = p.targets[t]
                                   ELSE p.lower[t] <= v /\ v <= p.upper[t]}
        Left(v) == v + Passive([p.zone EXCEPT !.temp = v], SlotTicks)
        E[t \in 1..N + 1] ==
          IF t = N + 1 THEN Band(t)
          ELSE LET next == E[t + 1]
               IN {v \in Band(t) : \E w \in next : Abs(w - Left(v)) <= Hvac * SlotTicks}
    IN E

\* The zone held at its target, in the mode that reaches it.
BaselineZone(p, i, z) ==
    LET reach == comfort_envelope(p)[i + 1]
        low == IF reach = {} THEN p.upper[i + 1] + 1 ELSE Min(reach)
        high == IF reach = {} THEN p.lower[i + 1] - 1 ELSE Max(reach)
        target == Min({high, p.upper[i], Max({low, p.lower[i], p.targets[i]})})
        mode == IF z.temp + Passive(z, SlotTicks) < target THEN "heat" ELSE "cool"
    IN IF p.held[i] # Free THEN [z EXCEPT !.target = p.held[i], !.mode = p.zone.mode]
       ELSE [z EXCEPT !.target = target, !.mode = mode]

\* The battery takes what the sun leaves and serves the day, and is back at
\* its opening energy in the end; rates are rounded down to Rates.
BaselineRate(p, i, net, soc, ceiling) ==
    LET Charge(n) == Min({r \in Rates : -r <= n})
        Discharge(n) == Max({r \in Rates : r <= n})
        opening == p.battery.soc
        day == Start(i) < TimerStart
        restore == i \in Night \/ (~day /\ soc < opening)
    IN IF p.fixedBattery[i] # Free THEN p.fixedBattery[i]
       ELSE IF net < 0
       THEN Charge(Min({-net, Power, (Most(0, ceiling - soc) * Loss) \div SlotTicks}))
       ELSE IF restore
       THEN Charge(Least(Power, (Most(0, opening - soc) * Loss) \div SlotTicks))
       ELSE Discharge(Min({net, Power, Most(0, soc - IF day THEN Reserve ELSE opening)
                                         \div (Loss * SlotTicks)}))

baseline(p, method) ==
    LET ev == BaselineEV(p, method)
        start == BaselineStart(p, method)
        Z[i \in 0..N] == IF i = 0 THEN p.zone
                         ELSE ZoneAdvance(BaselineZone(p, i, Z[i - 1]), SlotTicks)
        set == [i \in Slots |-> BaselineZone(p, i, Z[i - 1])]
        net == [i \in Slots |-> BaseLoad - Solar[i] +
                  (ev[i] + CycleLoad(p, start, i) + Abs(Heat(set[i], SlotTicks)))
                    \div SlotTicks]
        Ceiling[i \in 1..N + 1] ==
          IF i = N + 1 THEN p.battery.soc
          ELSE Least(Capacity, Ceiling[i + 1] +
                 IF i \in Night THEN 0
                 ELSE Clamp(0, Power, net[i]) * SlotTicks * Loss)
        B[i \in 0..N] ==
          IF i = 0 THEN p.battery
          ELSE LET b == BatteryAdvance(B[i - 1], SlotTicks)
                   soc == IF i = 1 THEN p.battery.soc ELSE b.soc
               IN [soc |-> soc,
                   rate |-> BaselineRate(p, i, net[i], soc, Ceiling[i + 1])]
    IN [ev |-> ev, start |-> start, battery |-> [i \in Slots |-> B[i].rate],
        targets |-> [i \in Slots |-> set[i].target],
        modes |-> [i \in Slots |-> set[i].mode]]

----------------------------------------------------------------------------
(* From a schedule to a plan (planner/service.py).                         *)

\* No discharge that is exported, and as much less charging, last slot first.
Trimmed(p, x, exports) ==
    LET cut == [i \in Slots |-> IF x.battery[i] > 0 /\ p.fixedBattery[i] = Free
                                THEN Least(exports[i], x.battery[i] * SlotTicks)
                                ELSE 0]
        Back(a, i) ==
          LET can == IF x.battery[i] < 0 /\ p.fixedBattery[i] = Free
                     THEN Least(a.left, -x.battery[i] * SlotTicks) ELSE 0
          IN [left |-> a.left - can,
              rate |-> [a.rate EXCEPT ![i] = @ + can \div SlotTicks]]
        Trim[k \in 0..N] ==
          IF k = 0 THEN [left |-> Total(cut) * Loss * Loss,
                         rate |-> [i \in Slots |-> x.battery[i] - cut[i] \div SlotTicks]]
          ELSE Back(Trim[k - 1], N + 1 - k)
    IN Trim[N].rate

\* Targets rounded to the thermostat's step, half to even; the battery then
\* makes up for what the rounding turned into export.
Rounded(p, x) ==
    LET Round(t) == LET q == t \div p.step
                        r == 2 * (t % p.step)
                    IN p.step * IF r < p.step \/ (r = p.step /\ q % 2 = 0)
                                THEN q ELSE q + 1
    IN [x EXCEPT !.targets = [i \in Slots |-> Round(@[i])]]

quantized(p, x) ==
    IF p.step = 0 THEN x
    ELSE [Rounded(p, x) EXCEPT !.battery = Trimmed(p, x, replay(p, Rounded(p, x)).exports)]

\* What `b' costs more than `a', where the two are comparable.
compare(a, b) ==
    IF Valid(a) /\ Valid(b) /\ a.ev.soc = b.ev.soc /\ a.battery.soc = b.battery.soc
    THEN ReplayCost(b) - ReplayCost(a) ELSE Free

\* The constraints whose removal alone lets a plan through.
Passes(p) == \E a \in solve(p) : a.status = "optimal" /\ Valid(replay(p, a.x))
blocking(p) == {k \in DOMAIN p.constraints : Passes([p EXCEPT !.constraints = RemoveAt(@, k)])}

Methods == {"timer", "immediate", "greedy"}

\* The baselines on the twin's physics.
Baselines(p) == [m \in Methods |-> replay(p, quantized(p, baseline(p, m)))]

\* The solver's schedule, or without one the cheapest-slot baseline.
Candidate(p, answer) ==
    IF answer.x # Free THEN quantized(p, answer.x)
    ELSE IF answer.status = "infeasible" THEN Free
    ELSE quantized(p, baseline(p, "greedy"))

Proposed(status, bases, x, r) ==
    [status |-> status, schedule |-> x,
     savings |-> [m \in Methods |-> compare(r, bases[m])]]

Checked(p, status, bases, x) ==
    IF x # Free /\ Valid(replay(p, x)) THEN Proposed(status, bases, x, replay(p, x))
    ELSE [status |-> status, schedule |-> Free,
          blocking |-> IF status = "infeasible" THEN blocking(p) ELSE {}]

plan(p, answer, bases) == Checked(p, answer.status, bases, Candidate(p, answer))

\* The commands of a schedule: one where a device's setting changes, in force
\* until its next; charging and dispatching carry their own ending.
Setting(p, x, device, i) ==
    CASE device = "ev" -> [charging |-> x.ev[i] > 0,
           limit |-> Min({Full, effective(p).target, p.ev.soc + Upto(x.ev, i)})]
      [] device = "battery" -> [rate |-> x.battery[i]]
      [] device = "zone" -> [target |-> x.targets[i], mode |-> x.modes[i]]
      [] device = "appliance" -> <<>>

Emitted(p, x, device, i) ==
    CASE device = "appliance" -> x.start = i
      [] device = "zone" /\ p.held[i] # Free -> FALSE
      [] OTHER -> \/ i = 1
                  \/ device = "zone" /\ p.held[i - 1] # Free
                  \/ Setting(p, x, device, i) # Setting(p, x, device, i - 1)

Ending(c) ==  CASE c.device = "ev" /\ c.params.charging -> [charging |-> FALSE]
                [] c.device = "battery" /\ c.params.rate # 0 -> [rate |-> 0]
                [] OTHER -> Free

actions(p, x) ==
    LET At(device) == {i \in Slots : Emitted(p, x, device, i)}
        Next(device, i) == Min({Start(k) : k \in {j \in At(device) : j > i}}
                               \cup {Finish(N)})
        Of(device) == {[device |-> device, at |-> Start(i), until |-> Next(device, i),
                        params |-> Setting(p, x, device, i)] : i \in At(device)}
    IN UNION {Of(device) : device \in {"ev", "battery", "zone", "appliance"}}
=============================================================================
