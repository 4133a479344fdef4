------------------------------ MODULE MCEnergy ------------------------------
(* Three slots of two ticks: a sunny cheap one, a cheap one, a dear night.  *)
EXTENDS Energy

MCPrice == <<2, 2, 20>>
MCSolar == <<12, 6, 0>>
MCRates == {-8, -4, 0, 2}
MCOutside == <<0, 0, 0>>
MCTimetable == {[at |-> 0, kind |-> "wake"], [at |-> 1, kind |-> "leave"],
                [at |-> 4, kind |-> "arrive"], [at |-> 4, kind |-> "sleep"]}
MCDevice == [on |-> FALSE, due |-> 3, fails |-> FALSE]

MCResidents == {"owner", "adult"}
MCRole == [m \in MCResidents |-> m]

\* The clocks go back between instants -1 and 0: hours 1 and 2 repeat.
MCLocal == [t \in -2..6 |-> [day |-> 1, hour |-> IF t < 0 THEN t + 3 ELSE t + 1]]

Entered(kind, at, from, to) ==
    [kind |-> kind, at |-> at, upper |-> Free, from |-> from, to |-> to]
Phrase(kind, at, upper, by, until) ==
    [kind |-> kind, at |-> at, upper |-> upper, by |-> by, until |-> until]
MCSpecs ==
    [m \in MCResidents |->
       IF m = "owner" THEN {Entered("ev_ceiling", 4, 0, 2), Entered("temperature", 62, 2, 4)}
       ELSE {}]
MCPhrases ==
    [m \in MCResidents |->
       IF m = "owner"
       THEN {Phrase("ev_target", 8, Free, Free, Free),
             Phrase("ev_not_before", Free, Free, 3, Free),
             Phrase("ev_deadline", Free, Free, 1, Free),
             Phrase("appliance_deadline", Free, Free, 5, Free)}
       ELSE {Phrase("ev_target", 4, Free, 5, Free),
             Phrase("ev_deadline", Free, Free, 5, Free),
             Phrase("appliance_not_before", Free, Free, 3, Free),
             Phrase("temperature_band", 61, 64, Free, 5)}]

C(kind, at) == [kind |-> kind, at |-> at, from |-> 0, to |-> 6]
None == [i \in Slots |-> Free]
Plain ==
    [ev |-> [soc |-> 0, charging |-> FALSE, limit |-> 16], target |-> 12,
     deadline |-> 6, battery |-> [soc |-> 4, rate |-> 0],
     zone |-> [temp |-> 64, target |-> 64, mode |-> "heat"],
     appliance |-> [left |-> 0, done |-> 0], release |-> 0,
     applianceDeadline |-> 6, lower |-> [i \in 1..N + 1 |-> 60],
     upper |-> [i \in 1..N + 1 |-> 64],
     targets |-> [i \in Slots |-> 64], preferences |-> None, occupied |-> {2},
     constraints |-> <<>>, held |-> None, fixedEv |-> None, fixedBattery |-> None,
     step |-> 0, objective |-> "none", talk |-> FALSE,
     taste |-> [m \in Residents |-> Free], presence |-> [m \in Residents |-> Free],
     arrival |-> [m \in Residents |-> Free], forbidden |-> {}]

\* One family's evening: the owner is in, the adult expected.
Talked ==
    [Plain EXCEPT !.talk = TRUE, !.fixedBattery = [i \in Slots |-> 0],
       !.taste = [m \in Residents |-> IF m = "owner" THEN 64 ELSE 62],
       !.presence["owner"] = [here |-> TRUE, until |-> 3],
       !.arrival["adult"] = [from |-> 2, to |-> 5], !.forbidden = {<<"zone", 60>>}]

\* Warm until the last slot.
Warm == [Plain EXCEPT !.lower = [i \in 1..N + 1 |-> IF i <= N THEN 64 ELSE 60]]

\* The car late; the least import; comfort first under a ceiling; a running
\* appliance, a hold and commitments; a preference that cannot be kept; a coarse
\* thermostat; requests in conflict; and one talked over.
MCInputs ==
    {[Warm EXCEPT !.applianceDeadline = 4, !.constraints = <<C("ev_not_before", 2)>>,
        !.fixedBattery[3] = 0],
     [Warm EXCEPT !.objective = "greenest", !.target = 4, !.applianceDeadline = 4,
        !.fixedBattery[2] = 0, !.fixedEv[1] = 0, !.fixedEv[3] = 0],
     [Plain EXCEPT !.objective = "most_comfortable", !.target = 4, !.deadline = 2,
        !.fixedBattery[2] = -8,
        !.constraints = <<C("ev_ceiling", 4), C("appliance_not_before", 2)>>],
     [Plain EXCEPT !.objective = "cheapest", !.appliance.left = 3, !.target = 4,
        !.battery.soc = 0, !.fixedEv[2] = 0, !.fixedBattery[1] = -4, !.held[1] = 64],
     [Warm EXCEPT !.fixedBattery[2] = 2, !.target = 4, !.deadline = 2,
        !.preferences[1] = 60, !.appliance.left = 1],
     [Warm EXCEPT !.step = 8, !.target = 4, !.fixedBattery[1] = -4,
        !.fixedEv[2] = 4, !.fixedBattery[3] = 2],
     [Plain EXCEPT !.constraints = <<C("ev_target", 8),
                                     C("ev_not_before", 4),
                                     C("ev_ceiling", 4)>>],
     Talked}
=============================================================================
