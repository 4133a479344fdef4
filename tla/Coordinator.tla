---------------------------- MODULE Coordinator ----------------------------
(***************************************************************************)
(* What the members ask for and the planner input it leads to              *)
(* (planner/coordinator.py, planner/preferences.py).                       *)
(*                                                                         *)
(* A request is a row of table constraints: [member, kind, at, upper,      *)
(* from, to, said].  `at' is its time or its value, [from, to) its window, *)
(* `said' the instant it was recorded, also its version in the graph.  A   *)
(* row that was withdrawn or replaced is closed: it leaves the snapshot.   *)
(* Times and windows are on slot boundaries, so no slot is split.  An      *)
(* input p also has, per member, an accepted temperature preference        *)
(* (taste), a fresh presence report (presence: here, until) and an         *)
(* expected arrival (from, to), or Free, and the device settings the       *)
(* constitution prohibits.                                                 *)
(***************************************************************************)
EXTENDS Planner

CONSTANTS
    Residents, Role,      \* who lives here: "owner", "adult", ...
    Specs,              \* what each member may enter: [kind, at, upper, from, to]
    Phrases,            \* and say: [kind, at, upper, by, until], times on the wall clock
    Local,              \* per instant: [day, hour] on the wall, which may repeat
    HoldTicks           \* how long a manual hold lasts

Kinds == {"ev_target", "ev_ceiling", "ev_not_before", "ev_deadline",
          "appliance_not_before", "appliance_deadline",
          "temperature", "temperature_band", "manual_hold"}

\* PlannerInput, with what the household's graph knows of the members.
PlannerInputs ==
    [ev : EVs, battery : Batteries, zone : Zones, appliance : Appliances,
     target : Int, deadline : Int, release : Int, applianceDeadline : Int,
     lower : [1..N + 1 -> Int], upper : [1..N + 1 -> Int], targets : [Slots -> Int],
     preferences : [Slots -> Maybe(Int)], occupied : SUBSET Slots,
     constraints : Seq([kind : Kinds, at : Int, from : Int, to : Int]),
     held : [Slots -> Maybe(Int)], fixedEv : [Slots -> Maybe(Int)],
     fixedBattery : [Slots -> Maybe(Int)], step : Nat,
     objective : {"none", "cheapest", "most_comfortable", "greenest"}, talk : BOOLEAN,
     taste : [Residents -> Maybe(Int)],
     presence : [Residents -> Maybe([here : BOOLEAN, until : Int])],
     arrival : [Residents -> Maybe([from : Int, to : Int])],
     forbidden : SUBSET ({"ev", "zone"} \X Int)]

\* No slot is split at t.
OnBoundary(t) == \A i \in Slots : t <= Start(i) \/ Finish(i) <= t

\* ConstraintSpec: a positive window; a band in order; a charge the car holds.
Specified(s) ==
    /\ s.kind \in Kinds \ {"manual_hold"} /\ s.from < s.to
    /\ s.kind = "temperature_band" => s.at <= s.upper
    /\ s.kind \in {"ev_target", "ev_ceiling"} => s.at \in 0..Full

ASSUME SpecsAssumption ==
    /\ Specs \in [Residents -> SUBSET [kind : Kinds, at : Int, upper : Maybe(Int),
                                       from : Int, to : Int]]
    /\ \A m \in Residents : \A s \in Specs[m] :
         /\ Specified(s) /\ OnBoundary(s.from)
         /\ s.kind = "temperature_band" => s.upper \in Int

ASSUME PhrasesAssumption ==
    /\ Phrases \in [Residents -> SUBSET [kind : Kinds, at : Maybe(Int), upper : Maybe(Int),
                                         by : Maybe(Int), until : Maybe(Int)]]
    /\ \A m \in Residents : \A f \in Phrases[m] : f.kind = "temperature_band" => f.upper \in Int
    /\ DOMAIN Local \subseteq Int /\ HoldTicks \in Int

\* PlannerInput.consistency: what an input must satisfy to be planned for.
consistency(p) ==
    /\ \A i \in Slots : p.lower[i] <= p.targets[i] /\ p.targets[i] <= p.upper[i]
    /\ \A i, j \in Slots : i < j /\ p.held[j] # Free => p.held[i] # Free
    /\ p.ev.soc <= p.target /\ p.battery.soc >= Reserve

----------------------------------------------------------------------------
(* Intake: which rows a request ends, and the rows afterwards.             *)

active(r, a, b) == r.from < b /\ a < r.to

\* The requests a plan for the horizon is about.
explicit(rows) == {r \in rows : active(r, 0, End)}

Holds(rows, t) == {r \in rows : r.kind = "manual_hold" /\ active(r, t, t + 1)}

\* time_at(): the one instant of [t, end] at which the wall shows the hour; a
\* time that repeats that day, or occurs on two days, has to be clarified.
time_at(hour, t, end) ==
    LET Shown(u) == Local[u].hour = hour
        days == {Local[u].day : u \in {v \in t..end : Shown(v)}}
        instants == {u \in DOMAIN Local : Shown(u) /\ Local[u].day \in days}
    IN IF Cardinality(instants) = 1 THEN instants ELSE {}

\* parse(): what a phrase said at t asks for, or nothing that is clear.  It holds
\* from now on, until its end, or, for a charge, until it is due.
parse(phrase, t) ==
    LET Ends == IF phrase.until = Free THEN {End} ELSE time_at(phrase.until, t, End)
        Times(end) == IF phrase.by = Free THEN {end} ELSE time_at(phrase.by, t, end)
        Spec(end, time) ==
          [kind |-> phrase.kind, upper |-> phrase.upper, from |-> t,
           at |-> IF phrase.at = Free THEN time ELSE phrase.at,
           to |-> IF phrase.kind = "ev_target" THEN time ELSE end]
    IN {s \in UNION {{Spec(end, time) : time \in Times(end)} : end \in Ends} : Specified(s)}

\* "Change ...": the member's one request of that kind.
Own(rows, m, spec, t) ==
    {r \in rows : r.member = m /\ r.kind = spec.kind /\ active(r, t, End)}

\* A hold is anyone's to end, a request its member's or an owner's.
MayEnd(m, r) == r.kind = "manual_hold" \/ r.member = m \/ Role[m] = "owner"

\* A spec that is entered must fit the planning window that is still ahead.
Fits(spec, t) == spec.from >= t /\ spec.to <= End

Record(m, spec, t) ==
    [member |-> m, kind |-> spec.kind, at |-> spec.at, upper |-> spec.upper,
     from |-> spec.from, to |-> spec.to, said |-> t]

\* The thermostat was turned by hand; the reporting account carries the row.
Hold(m, target, t) ==
    [member |-> m, kind |-> "manual_hold", at |-> target, upper |-> Free,
     from |-> t, to |-> t + HoldTicks, said |-> t]

\* _write(): no row is closed at the instant it was recorded.
Closable(rows, t) == \A r \in rows : r.said < t

\* commit_constraint: expired rows are closed along with those the request
\* ends, and its own row is put.
commit_constraint(rows, previous, new, t) ==
    {r \in rows \ previous : r.to > t} \cup new

----------------------------------------------------------------------------
(* Comfort: whose temperature counts in a room.                            *)

\* windows(): a member's accepted preference, while a fresh report has them in
\* the room, or without any report while they are expected there.
Located(p, m, t) ==
    LET here == p.presence[m]
        due == p.arrival[m]
    IN IF here # Free /\ t < here.until
       THEN IF here.here THEN {<<0, 0>>} ELSE {}
       ELSE IF due # Free /\ due.from <= t /\ t < due.to THEN {<<1, due.from>>} ELSE {}

windows(p, rows) ==
    {[member |-> w[1], at |-> p.taste[w[1]], slot |-> w[2], rank |-> w[3]] :
       w \in
         {w \in Residents \X Slots \X ({<<0, 0>>} \cup ({1} \X (0..End))) :
            /\ p.taste[w[1]] # Free
            /\ w[3] \in Located(p, w[1], Start(w[2]))
            /\ ~\E r \in rows : /\ r.member = w[1]
                                /\ r.kind \in {"temperature", "temperature_band"}
                                /\ active(r, Start(w[2]), Finish(w[2]))}}

\* A request for comfort: present members first, then the next to arrive.
comfort_rank(p, r) ==
    LET here == p.presence[r.member]
        due == p.arrival[r.member]
    IN IF here # Free /\ here.here /\ here.until >= 0 THEN <<0, 0>>
       ELSE IF due # Free /\ Most(r.from, 0) <= due.from /\ due.from < r.to
       THEN <<1, due.from>> ELSE <<2, 0>>

In(rows, kind) == {r \in rows : r.kind = kind}
Of(rows, device) ==
    LET kinds == CASE device = "ev" -> {"ev_target", "ev_ceiling", "ev_not_before", "ev_deadline"}
                   [] device = "appliance" -> {"appliance_not_before", "appliance_deadline"}
                   [] device = "zone" -> {"temperature", "temperature_band", "manual_hold"}
    IN {r \in rows : r.kind \in kinds}
InSlot(rows, kind, i) == {r \in In(rows, kind) : active(r, Start(i), Finish(i))}

\* The temperatures of the best rank in slot i, and the requests for them.
Ranked(p, rows, i) ==
    LET soft == {[at |-> r.at, rank |-> comfort_rank(p, r), by |-> {r}] :
                   r \in InSlot(rows, "temperature", i)}
                \cup {[at |-> w.at, rank |-> w.rank, by |-> {}] :
                        w \in {v \in windows(p, rows) : v.slot = i}}
        Before(a, b) == a[1] < b[1] \/ (a[1] = b[1] /\ a[2] <= b[2])
    IN {v \in soft : \A u \in soft : Before(v.rank, u.rank)}

Wanted(p, rows, i) == {w.at : w \in Ranked(p, rows, i)}

----------------------------------------------------------------------------
(* The input the requests lead to.                                         *)

Targets(rows) == {r.at : r \in In(rows, "ev_target")}

\* (mutant) A target's window is taken for its start alone.
DeadlineTimed(p, rows) ==
    Min({p.deadline, End} \cup {r.at : r \in In(rows, "ev_deadline")})

\* A target is due when its window ends.
Deadline(p, rows) ==
    Min({p.deadline, End} \cup {r.to : r \in In(rows, "ev_target")}
                          \cup {r.at : r \in In(rows, "ev_deadline")})

\* What the solver and the replay are told of the rows.
Mapped(rows) ==
    LET told == {[kind |-> r.kind, from |-> r.from, to |-> r.to,
                  at |-> IF r.kind \in {"ev_not_before", "appliance_not_before"}
                         THEN Least(r.at, r.to) ELSE r.at] : r \in rows}
    IN SetToSeq(told)

coordinated(p, rows) ==
    LET Low(i) == Max({p.lower[i]} \cup {r.at : r \in InSlot(rows, "temperature_band", i)})
        High(i) == Min({p.upper[i]} \cup {r.upper : r \in InSlot(rows, "temperature_band", i)})
        Only(set, otherwise) == IF Cardinality(set) = 1 THEN CHOOSE v \in set : TRUE ELSE otherwise
        wanted == [i \in Slots |-> Only(Wanted(p, rows, i), Free)]
        held == [i \in Slots |-> {r.at : r \in InSlot(rows, "manual_hold", i)}]
    IN [p EXCEPT
          !.target = Only(Targets(rows), p.target),
          !.deadline = Deadline(p, rows),
          !.applianceDeadline = Min({@} \cup {r.at : r \in In(rows, "appliance_deadline")}),
          !.constraints = @ \o Mapped(rows),
          !.lower = Updated(@, [i \in Slots |-> Low(i)]),
          !.upper = Updated(@, [i \in Slots |-> High(i)]),
          !.targets = [i \in Slots |-> Clamp(Low(i), High(i),
                         IF wanted[i] = Free THEN @[i] ELSE wanted[i])],
          !.preferences = wanted,
          !.held = [i \in Slots |-> Only(held[i], @[i])]]

----------------------------------------------------------------------------
(* Conflicts: [why, of], `of' the requests that have to give way.          *)

Because(why, of, condition) == IF condition THEN {[why |-> why, of |-> of]} ELSE {}

CarConflicts(p, q, rows) ==
    LET asked == In(rows, "ev_target")
        possible == Charger * SlotTicks * Cardinality({i \in Slots : Chargeable(q, i)})
    IN Because("targets disagree", asked, Cardinality(Targets(rows)) > 1)
       \cup Because("below the charge", asked, q.target < p.ev.soc)
       \cup Because("deadline unreachable", Of(rows, "ev"), p.ev.soc + possible < q.target)
       \cup UNION {Because("ceiling", asked \cup {r},
                     \/ p.ev.soc > r.at
                     \/ r.from <= q.deadline /\ q.deadline <= r.to /\ q.target > r.at)
                   : r \in In(rows, "ev_ceiling")}

SlotConflicts(p, q, rows, i) ==
    LET held == InSlot(rows, "manual_hold", i)
    IN Because("bands", InSlot(rows, "temperature_band", i), q.lower[i] > q.upper[i])
       \cup Because("comfort", UNION {w.by : w \in Ranked(p, rows, i)},
                    Cardinality(Wanted(p, rows, i)) > 1)
       \cup Because("holds", held, Cardinality(held) > 1)
       \cup Because("bounded operation", held,
                    p.held[i] # Free /\ \E r \in held : r.at # p.held[i])

RoomConflicts(p, q, rows) == UNION {SlotConflicts(p, q, rows, i) : i \in Slots}

ApplianceConflicts(q, rows) ==
    Because("appliance", Of(rows, "appliance"),
            ~Running(q.appliance) /\ appliance_windows(q) = {})

\* The settings the written rules prohibit, known before any plan.
Settings(q) ==
    {<<"ev", q.target>>} \cup {<<"zone", q.targets[i]>> : i \in Slots}
    \cup {<<"zone", q.held[i]>> : i \in {j \in Slots : q.held[j] # Free}}

Prohibited(p, settings, rows) ==
    UNION {Because("constitution", Of(rows, s[1]), TRUE) : s \in settings \cap p.forbidden}

conflicts(p, q, rows) ==
    CarConflicts(p, q, rows) \cup RoomConflicts(p, q, rows) \cup ApplianceConflicts(q, rows)
    \cup Prohibited(p, Settings(q), rows)

\* The settings a proposed plan would command.
Refuses(p, x, rows) == Prohibited(p, {<<"zone", x.targets[i]>> : i \in Slots}, rows)

\* A coordination that would be planned, as the probe finds out.
Plannable(p, q, rows) ==
    /\ conflicts(p, q, rows) = {}
    /\ \E answer \in solve(q) :
         /\ answer.status = "optimal"
         /\ \E x \in {quantized(q, answer.x)} : Valid(replay(q, x)) /\ Refuses(p, x, rows) = {}

\* The requests whose withdrawal alone would do, or all of them.  A member's
\* preference is withdrawn likewise: no request has to give way for it.
Probed(p, rows) ==
    LET Does(p1, kept) == \E q \in {coordinated(p1, kept)} : Plannable(p1, q, kept)
        tastes == {w.member : w \in windows(p, rows)}
        culprits == {{r} : r \in {r \in rows : Does(p, rows \ {r})}}
                    \cup {{} : m \in {m \in tastes : Does([p EXCEPT !.taste[m] = Free], rows)}}
    IN IF culprits = {} THEN {[why |-> "infeasible", of |-> rows]}
       ELSE {[why |-> "together", of |-> of] : of \in culprits}

\* The end of coordinate(), once plan() has made what it could.
Outcome(p, rows, made) ==
    LET None(status, why) == [status |-> status, schedule |-> Free, conflicts |-> why]
    IN CASE made.schedule # Free /\ Refuses(p, made.schedule, rows) # {}
              -> None("infeasible", Refuses(p, made.schedule, rows))
         [] made.schedule = Free /\ made.status = "infeasible"
              -> None("infeasible", Probed(p, rows))
         [] made.schedule = Free /\ made.status # "infeasible" -> None(made.status, {})
         [] OTHER -> [status |-> made.status, schedule |-> made.schedule,
                      savings |-> made.savings, conflicts |-> {}]

\* coordinate(): what it may come to with the coordinated input q, for any
\* answer of the solver or none (a cold start): a plan, or conflicts.
coordinate(p, q, rows) ==
    LET found == conflicts(p, q, rows)
        bases == Baselines(q)
    IN IF found # {}
       THEN {[status |-> "infeasible", schedule |-> Free, conflicts |-> found]}
       ELSE {Outcome(p, rows, plan(q, answer, bases)) :
               answer \in solve(q) \cup {[status |-> "cold_start", x |-> Free]}}
=============================================================================
