-------------------------------- MODULE Twin --------------------------------
(***************************************************************************)
(* The physics of the household's digital twin and its lazily advanced     *)
(* world (twin/physics.py, twin/people.py, twin/world.py).                 *)
(*                                                                         *)
(* Time is in ticks, half a world minute.  Energy is in whole units drawn  *)
(* from the grid, so that the charging efficiency of the car is a change   *)
(* of unit; the battery keeps its losses, Loss = 1 / sqrt(efficiency).     *)
(* The taper of the charger above 80% and the meters, which no transition  *)
(* reads back, are left out; Full is the 80% mark.                         *)
(***************************************************************************)
EXTENDS Integers, Sequences, FiniteSets, FiniteSetsExt, TLC

CONSTANTS
    Minute,         \* ticks between two minute boundaries
    End,            \* end of the simulation, in ticks
    Full, Charger,  \* car: most energy, energy drawn per tick
    Capacity, Reserve, Power, Loss,     \* home battery
    Hvac, Outdoor, Resistance,          \* heating zone of thermal mass 1
    Cycle,          \* ticks of an appliance cycle
    Timetable       \* scheduled [at, kind] transitions of the member

Comings == {"arrive", "leave"}
Sleeps == {"sleep", "wake"}

\* The horizon and the devices' figures; of the member's transitions one at
\* most of each sort is at an instant, which _schedule checks.
ASSUME TwinAssumption ==
    /\ End \in Nat
    /\ \A n \in {Minute, Charger, Power, Loss, Resistance, Cycle} : n \in Nat \ {0}
    /\ \A n \in {Full, Capacity, Reserve, Hvac, Outdoor} : n \in Int
    /\ Timetable \subseteq [at : 0..End, kind : Comings \cup Sleeps]
    /\ \A a, b \in Timetable :
         a.at = b.at /\ (a.kind \in Comings <=> b.kind \in Comings) => a = b

Abs(n) == IF n < 0 THEN -n ELSE n
Ceil(a, b) == (a + b - 1) \div b
Least(a, b) == IF a < b THEN a ELSE b
Most(a, b) == IF a > b THEN a ELSE b
Clamp(lo, hi, v) == Most(lo, Least(hi, v))

\* f with the values of g where g has one.
Updated(f, g) == [x \in DOMAIN f |-> IF x \in DOMAIN g THEN g[x] ELSE f[x]]

EVs == [soc : Int, charging : BOOLEAN, limit : Int]
Batteries == [soc : Int, rate : Int]
Zones == [temp : Int, target : Int, mode : {"heat", "cool", "off"}]
Appliances == [left : Int, done : Int]
Devices == [on : BOOLEAN, due : Int, fails : BOOLEAN]

----------------------------------------------------------------------------
(* The devices over d ticks.                                               *)

EVAdvance(e, d) ==
    IF ~e.charging \/ e.soc >= e.limit THEN e
    ELSE [e EXCEPT !.soc = Least(e.limit, e.soc + Charger * d)]

\* Energy leaving the store (negative: entering it), and what the house sees.
Stored(b, d) ==
    LET requested == Least(Abs(b.rate), Power) * d IN
    IF b.rate >= 0 THEN Least(requested * Loss, Most(0, b.soc - Reserve))
    ELSE -Least(requested \div Loss, Capacity - b.soc)

Outgoing(b, d) ==
    LET s == Stored(b, d) IN IF s >= 0 THEN s \div Loss ELSE s * Loss

BatteryAdvance(b, d) == [b EXCEPT !.soc = @ - Stored(b, d)]

Passive(z, d) == ((Outdoor - z.temp) * d) \div Resistance

Heat(z, d) ==
    LET needed == z.target - z.temp - Passive(z, d) IN
    CASE z.mode = "heat" -> Least(Hvac * d, Most(0, needed))
      [] z.mode = "cool" -> Most(-Hvac * d, Least(0, needed))
      [] OTHER -> 0

ZoneAdvance(z, d) == [z EXCEPT !.temp = @ + Passive(z, d) + Heat(z, d)]

Running(a) == a.left > 0

ApplianceAdvance(a, d) ==
    [left |-> Most(0, a.left - d),
     done |-> a.done + IF Running(a) /\ a.left <= d THEN 1 ELSE 0]

\* A device transition under way is made, or fails once, when it falls due.
DeviceAdvance(v, t) ==
    IF v.due = 0 \/ t < v.due THEN v
    ELSE [on |-> IF v.fails THEN v.on ELSE ~v.on, due |-> 0, fails |-> FALSE]

PresenceChange(p, kind) ==
    CASE kind = "leave"  -> [present |-> FALSE, asleep |-> FALSE]
      [] kind = "arrive" -> [present |-> TRUE, asleep |-> FALSE]
      [] kind = "wake"   -> [p EXCEPT !.asleep = FALSE]
      [] kind = "sleep"  -> [p EXCEPT !.asleep = p.present]

----------------------------------------------------------------------------
(* The world: its state s as of the instant at.  A read between two        *)
(* boundaries is a projection; only a boundary moves the state.            *)

ToLimit(s) ==
    LET e == s.ev
        b == s.battery
        room == IF b.rate > 0 THEN Most(0, b.soc - Reserve) \div Loss
                ELSE (Capacity - b.soc) * Loss
    IN (IF e.charging /\ e.soc < e.limit
          THEN {Ceil(e.limit - e.soc, Charger)} ELSE {})
       \cup (IF b.rate # 0 /\ room > 0
               THEN {Ceil(room, Least(Abs(b.rate), Power))} ELSE {})

Scheduled == {e.at : e \in Timetable}

Boundary(w) ==
    Min({t \in {(w.at \div Minute + 1) * Minute, End, w.s.device.due}
               \cup Scheduled
               \cup {w.at + d : d \in ToLimit(w.s)}
               \cup (IF Running(w.s.appliance)
                       THEN {w.at + w.s.appliance.left} ELSE {}) : t > w.at})

Step(s, d) ==
    [s EXCEPT !.ev = EVAdvance(@, d), !.battery = BatteryAdvance(@, d),
              !.zone = ZoneAdvance(@, d), !.appliance = ApplianceAdvance(@, d)]

\* The transition of one sort that the timetable has at t, if any.
Moved(s, t, kinds) ==
    LET due == {e \in Timetable : e.at = t /\ e.kind \in kinds}
        e == CHOOSE e \in due : TRUE
    IN IF due = {} THEN s
       ELSE [s EXCEPT !.presence = PresenceChange(@, e.kind), !.events = Append(@, e)]

\* Members' transitions first, in the order of their names, then the devices'.
Events(s, t) ==
    LET moved == Moved(Moved(s, t, Comings), t, Sleeps)
        after == DeviceAdvance(s.device, t)
    IN IF after = s.device THEN moved
       ELSE [moved EXCEPT !.device = after,
               !.events = Append(@, [at |-> t, kind |->
                            IF after.on = s.device.on THEN "failed"
                            ELSE "changed"])]

\* The world w at the instants up to t: it moves from boundary to boundary.
Passage(w, t) ==
    LET World[u \in w.at..t] ==
          IF u = w.at THEN w
          ELSE LET v == World[u - 1] IN
               IF Boundary(v) = u
               THEN [s |-> Events(Step(v.s, u - v.at), u), at |-> u] ELSE v
    IN World

\* advance_to: the world after a read at t, and the state the read shows.
AdvanceTo(w, t) ==
    LET v == IF w.at >= t THEN w ELSE Passage(w, t)[t]
    IN [world |-> v, view |-> IF v.at >= t THEN v.s ELSE Step(v.s, t - v.at)]

----------------------------------------------------------------------------
(* What a command does to the state (executor/twin.py, effect), and when   *)
(* it is refused.  That a car is not plugged in is no case here: nothing    *)
(* unplugs it in the twin, and the planner's input requires it.            *)

Refused(s, c) ==
    \/ c.device = "battery" /\ Abs(c.params.rate) > Power
    \/ c.device = "appliance" /\ Running(s.appliance)

Effect(s, c) ==
    IF c.device = "appliance"
    THEN [s EXCEPT !.appliance.left = Cycle]
    ELSE [s EXCEPT ![c.device] = Updated(@, c.params)]
=============================================================================
