------------------------------ MODULE MCRules ------------------------------
EXTENDS Conditions, TLC

\* Facts by class: the ones its rules can read take every value, the others none.
Blank == [a \in Attributes |-> Absent]
MCFacts == [c \in CLASSES |->
    CASE c = "environment.lights" ->
            {[Blank EXCEPT !["hour"] = h, !["zone"] = z] :
                h \in {Absent, 0, 1}, z \in {Absent, Null, 1}}
            \cup {[Blank EXCEPT !["hour"] = Null]}
            \cup {[Blank EXCEPT !["hour"] = h, !["arrivals"] = a] : h \in {Absent, 1}, a \in {0, 1}}
      [] c = "security.door_unlock" ->
            {[Blank EXCEPT !["open_minutes"] = o, !["visitor"] = v] :
                o \in {Absent, Null, 1, 2}, v \in {0, 1}}
            \cup {[Blank EXCEPT !["open_minutes"] = o, !["visitor"] = v] :
                o \in {Absent, 1}, v \in {Absent, Null}}
      [] c = "governance.credentials" ->
            {[Blank EXCEPT !["surface"] = s, !["member_id"] = x] : s \in {0, 1}, x \in {Absent, 0, 1}}
      [] c = "governance.resume_automation" -> {[Blank EXCEPT !["surface"] = s] : s \in {0, 1}}
      [] OTHER -> {Blank}]
MCFactsOf(c) == MCFacts[c]

hour1 == <<"hour", "==", "1">>
setZone == <<"zone", "is", "set">>
Conditions == {<<>>,
    <<hour1>>,
    <<<<"hour", "is", "not", "set", "or", "zone", "==", "1", "and", "not", "hour", "<", "1">>>>,
    <<<<"(", "zone", "in", "[", "0", ",", "1", "]", "or", "hour", "<=", "0", ")">>, setZone>>}
Overrides == {<<>>,
    <<[when |-> setZone, mode |-> "ask"]>>,
    <<[when |-> hour1, mode |-> "ask"], [when |-> <<"expected", "(", "1", ")">>, mode |-> "never"]>>,
    <<[when |-> <<"not", "expected", "(", "2", ")">>, mode |-> "ask"]>>}

Lights(m, cs, os) == [Bare(m) EXCEPT !.conditions = cs, !.overrides = os]
Unlock(m, bound, visitor, q, ch) == [Bare(m) EXCEPT !.max_open_minutes = bound,
    !.never_for = visitor, !.quorum = q, !.ask_channels = ch]

RolesOf(limits) == [r \in Roles |-> [inherits |-> IF r \in {"owner", "caregiver"} THEN "adult" ELSE "none",
                              limited_to |-> IF r = "caregiver" THEN limits ELSE {}]]
NoEntry == [x \in {} |-> "auto"]
Entries == {[r \in Roles |-> NoEntry],
            [r \in Roles |-> IF r = "adult" THEN ("*" :> "ask") ELSE NoEntry],
            [r \in Roles |-> IF r = "owner" THEN ("environment.lights" :> "auto" @@ "*" :> "never") ELSE NoEntry],
            [r \in Roles |-> IF r = "teen" THEN ("*" :> "never") ELSE NoEntry]}
Policy(aut, per, ch, limits) == [roles |-> RolesOf(limits), autonomy |-> aut, per_role |-> per,
    defaults |-> [ttl |-> 1, ask_channels |-> ch]]

plain == [r \in Roles |-> NoEntry]
phone == {"app_push"}
MCCandidates ==
    {Policy("environment.lights" :> Lights(m, cs, os), plain, phone, {"environment"}) :
        m \in {"auto"}, cs \in {<<>>, <<hour1>>}, os \in Overrides}
    \cup {Policy("environment.lights" :> Lights("auto", cs, <<>>), plain, phone, {"environment"}) :
        cs \in Conditions}
    \cup {Policy("environment.lights" :> Lights("auto", <<hour1>>, <<>>), per, phone, {"environment"}) :
        per \in Entries}
    \cup {Policy("security.door_unlock" :> Unlock(m, b, v, "any_adult", phone), plain, phone, {"environment"}) :
        m \in {"auto", "ask"}, b \in {Null, 1}, v \in BOOLEAN}
    \cup {Policy("security.door_unlock" :> Unlock("ask", 1, TRUE, "owner", {}), plain, dc, {"environment"}) :
        dc \in {phone, {"alexa", "app_push"}}}
    \cup {Policy("security.door_unlock" :> Unlock("ask", 1, TRUE, "owner", {"alexa", "app_push"}), plain, phone, {"environment"})}
    \cup {Policy("environment.lights" :> Lights("ask", <<<<"hour", "==">>>>, <<>>), plain, phone, {"environment"}),
          Policy("environment.lights" :> Lights("ask", <<hour1 \o <<"1">>>>, <<>>), plain, phone, {"environment"}),
          Policy("environment.lights" :> Lights("never", <<>>, <<[when |-> hour1, mode |-> "ask"]>>), plain, phone, {"environment"}),
          Policy("environment.lights" :> [Lights("auto", <<>>, <<>>) EXCEPT !.allowed = {"owner"}, !.ttl = 2], plain, phone, {"environment"}),
          Policy("environment.lights" :> Bare("auto"), plain, phone, {"security"}),
          Policy("environment.lights" :> Bare("auto"), plain, {"alexa", "app_push"}, {"environment"})}
=============================================================================
