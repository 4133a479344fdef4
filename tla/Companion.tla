----------------------------- MODULE Companion -----------------------------
(***************************************************************************)
(* The companion app's server (hirz/companion): passkeys, the tokens that  *)
(* enrol them, sessions and one-time ceremonies (auth.py, api.py), the     *)
(* push notifications its worker sends (push.py) and the twin runs its     *)
(* worker replays (twin.py).                                               *)
(*                                                                         *)
(* A ceremony takes three steps with anything between them: begin, consume *)
(* in a transaction of its own, and finish under the household lock.       *)
(* Tokens, sessions and ceremonies that run out are simply gone: Lapse.    *)
(* Not here: browsers and CSRF (a ceremony is finished from the browser    *)
(* that began it), the WebAuthn cryptography, a push's back-off delay (the *)
(* worker is alone and waits it out), and what a confirmed contact or      *)
(* policy command does, which Contacts and Publication model.              *)
(***************************************************************************)
EXTENDS Naturals, FiniteSets

CONSTANTS
    Members,         \* the members with an account
    Owner,           \* the owner among them
    Controls,        \* positions and settings of a twin run
    References,      \* what a notification is about
    MaxKeys,         \* bound on passkeys ever registered
    MaxSessions,     \* bound on sessions ever opened
    MaxCeremonies,   \* bound on ceremonies under way at a time
    MaxTokens,       \* bound on enrolment tokens issued
    MaxInputs,       \* bound on invitations, ceremonies begun, run commands and
                     \* notifications, a notification counting for two
    MaxCrashes,      \* bound on worker crashes
    None             \* no value

SS == 1 .. MaxSessions
CC == 1 .. MaxCeremonies
KK == 1 .. MaxKeys

\* Rows of member_passkeys, companion_runs and companion_delivery.
Key == [member : Members, revoked : BOOLEAN, era : Nat]
Run == [revision : Nat, controls : Controls, key : KK,
        published : Nat, snapshot : Controls \cup {None}]
Results == {"taken", "error", "gone"}
Delivery == [attempts : 0 .. 3, status : {"pending", "sending", "sent", "failed"}]

ASSUME ConstantsAssumption ==
    /\ IsFiniteSet(Members) /\ Owner \in Members
    /\ MaxKeys \in Nat \ {0}
    /\ {MaxSessions, MaxCeremonies, MaxTokens, MaxInputs, MaxCrashes} \subseteq Nat
    /\ None \notin Members \cup Controls \cup References \cup Nat \cup Results
    /\ None \notin Key /\ None \notin Run /\ None \notin Delivery

VARIABLES
    keys,         \* member_passkeys
    sessions,     \* companion_sessions: the key of each session, None when gone
    tokens,       \* companion_enrollment: the unused, unexpired ones
    issued,       \* how many tokens were ever issued
    ceremonies,   \* companion_ceremonies and the requests finishing them
    era,          \* per member: how often their keys were replaced by recovery
    run,          \* companion_runs: one run
    replay,       \* what the worker holds while it replays the run
    open,         \* references that still want attention
    subscribed,   \* companion_push: the owner's browser
    delivery,     \* companion_delivery
    pusher,       \* the reference the push worker has claimed
    sends,        \* how often each notification was handed to the push service
    inputs, crashes

credentials == <<keys, sessions, tokens, issued, era>>
twin == <<run, replay>>
push == <<open, subscribed, delivery, pusher, sends>>
vars == <<keys, sessions, tokens, issued, ceremonies, era, run, replay,
          open, subscribed, delivery, pusher, sends, inputs, crashes>>

Kinds == {"invitation", "reinvite", "recovery"}
Token == [id : Nat, member : Members, kind : Kinds]
Ops == [op : {"revoke"}, key : KK] \cup [op : {"reinvite"}, member : Members]
Ceremony == [kind : {"register", "login", "confirm"}, phase : {"begun", "consumed"},
             session : SS \cup {None}, token : Nat \cup {None},
             member : Members \cup {None}, op : Ops \cup {None}, era : Nat]

TypeOK ==
    /\ keys \in [KK -> Key \cup {None}]
    /\ sessions \in [SS -> 0 .. MaxKeys \cup {None}]
    /\ tokens \subseteq Token /\ issued \in Nat
    /\ ceremonies \in [CC -> Ceremony \cup {None}]
    /\ era \in [Members -> Nat]
    /\ run \in Run \cup {None}
    /\ replay \in [revision : Nat, controls : Controls, key : KK] \cup {None}
    /\ subscribed \in {"on", "off"} /\ open \subseteq References
    /\ delivery \in [References -> Delivery \cup {None}]
    /\ pusher \in [reference : References, result : Results \cup {None}] \cup {None}
    /\ sends \in [References -> Nat] /\ inputs \in Nat /\ crashes \in Nat

(* The owner is enrolled and subscribed and holds a recovery code; nobody   *)
(* is signed in.                                                            *)
Init ==
    /\ keys = [k \in KK |->
                  IF k = 1 THEN [member |-> Owner, revoked |-> FALSE, era |-> 0] ELSE None]
    /\ sessions = [s \in SS |-> 0]      \* 0: not opened yet
    /\ tokens = {[id |-> 1, member |-> Owner, kind |-> "recovery"]} /\ issued = 1
    /\ ceremonies = [c \in CC |-> None]
    /\ era = [m \in Members |-> 0]
    /\ run = None /\ replay = None
    /\ open = {} /\ subscribed = "on" /\ pusher = None
    /\ delivery = [r \in References |-> None]
    /\ sends = [r \in References |-> 0]
    /\ inputs = 0 /\ crashes = 0

(***************************************************************************)
(* Passkeys, tokens and sessions                                           *)
(***************************************************************************)
KeysOf(m) == {k \in KK : keys[k] # None /\ keys[k].member = m}
Fresh(f, n, blank) == f[n] = blank /\ \A i \in 1 .. n - 1 : f[i] # blank

(* session: the row is there and its key is not revoked. *)
session(s) == /\ s \in SS /\ sessions[s] \in KK
              /\ ~keys[sessions[s]].revoked
MemberOf(s) == keys[sessions[s]].member

(* Issuing a token voids the unused ones of its kind. *)
Issue(m, kind) ==
    /\ issued < MaxTokens
    /\ tokens' = {t \in tokens : t.member # m \/ t.kind # kind}
                   \cup {[id |-> issued + 1, member |-> m, kind |-> kind]}
    /\ issued' = issued + 1

(* initial_invitation: only for a member who never had a passkey. *)
Invite(m) ==
    /\ KeysOf(m) = {} /\ inputs < MaxInputs
    /\ Issue(m, "invitation") /\ inputs' = inputs + 1
    /\ UNCHANGED <<keys, sessions, ceremonies, era, twin, push, crashes>>

Begun(c, value) ==
    /\ c \in CC /\ Fresh(ceremonies, c, None) /\ inputs < MaxInputs
    /\ ceremonies' = [ceremonies EXCEPT ![c] = value]
    /\ inputs' = inputs + 1
    /\ UNCHANGED <<credentials, twin, push, crashes>>

(* begin and ceremony: enrolling with a token, adding a passkey to the      *)
(* session's member, signing in, or confirming an operation.               *)
Enroll(c, t) ==
    /\ t \in tokens
    /\ Begun(c, [kind |-> "register", phase |-> "begun", session |-> None, token |-> t.id,
                 member |-> t.member, op |-> None, era |-> era[t.member]])

Add(c, s) ==
    /\ session(s)
    /\ Begun(c, [kind |-> "register", phase |-> "begun", session |-> s, token |-> None,
                 member |-> MemberOf(s), op |-> None, era |-> era[MemberOf(s)]])

Login(c) ==
    Begun(c, [kind |-> "login", phase |-> "begun", session |-> None, token |-> None,
              member |-> None, op |-> None, era |-> 0])

Confirm(c, s, op) ==
    /\ session(s)
    /\ op.op = "revoke" => keys[op.key] # None
    /\ Begun(c, [kind |-> "confirm", phase |-> "begun", session |-> s, token |-> None,
                 member |-> None, op |-> op, era |-> 0])

(* consume: committed on its own, so that a ceremony is tried only once. *)
Consume(c) ==
    /\ ceremonies[c] # None /\ ceremonies[c].phase = "begun"
    /\ ceremonies' = [ceremonies EXCEPT ![c].phase = "consumed"]
    /\ UNCHANGED <<credentials, twin, push, inputs, crashes>>

Finishing(c) ==
    /\ ceremonies[c] # None /\ ceremonies[c].phase = "consumed"
    /\ ceremonies' = [ceremonies EXCEPT ![c] = None]
    /\ UNCHANGED <<twin, push, inputs, crashes>>

(* A request that fails its checks, or whose server dies, leaves nothing. *)
Refused(c) == Finishing(c) /\ UNCHANGED credentials

create_session(ss, s, k) == [ss EXCEPT ![s] = k]

(* revoke_keys: the keys stay on record, their sessions are deleted. *)
Revoked(ks) == [k \in KK |->
                  IF k \in ks THEN [keys[k] EXCEPT !.revoked = TRUE] ELSE keys[k]]
Ended(ks) == [s \in SS |-> IF sessions[s] \in ks THEN None ELSE sessions[s]]

(* enrollment, looked up again when the ceremony is finished. *)
Grant(c) == {t \in tokens : t.id = ceremonies[c].token}

\* (mutant) a session that was cut off still lets the ceremony it began through.
AuthorityBegun(c) == Grant(c) # {} \/ ceremonies[c].session # None

(* What lets a registration through: a token still unused, an invitation   *)
(* only for a first passkey; or the very session that began it.            *)
Authority(c) ==
    IF ceremonies[c].token # None
    THEN \E t \in Grant(c) : t.kind = "invitation" => KeysOf(t.member) = {}
    ELSE session(ceremonies[c].session)

Recovering(c) == \E t \in Grant(c) : t.kind \in {"reinvite", "recovery"}

(* Tokens left when a member registers: a first or a recovering passkey     *)
(* voids all of them and comes with a new recovery code.                    *)
\* (mutant) a recovery leaves the earlier tokens usable.
LeftKept(c, m) == tokens \cup {[id |-> issued + 1, member |-> m, kind |-> "recovery"]}
Left(c, m) ==
    IF KeysOf(m) = {} \/ Recovering(c)
    THEN {t \in tokens : t.member # m}
           \cup {[id |-> issued + 1, member |-> m, kind |-> "recovery"]}
    ELSE tokens \ Grant(c)

(* register *)
Register(c, k, s) ==
    LET m == ceremonies[c].member
        old == IF Recovering(c) THEN KeysOf(m) ELSE {}
        new == IF Recovering(c) THEN era[m] + 1 ELSE ceremonies[c].era
    IN  /\ Finishing(c) /\ ceremonies[c].kind = "register"
        /\ Authority(c)
        /\ Fresh(keys, k, None) /\ Fresh(sessions, s, 0) /\ issued < MaxTokens
        /\ keys' = [Revoked(old) EXCEPT ![k] = [member |-> m, revoked |-> FALSE, era |-> new]]
        /\ sessions' = create_session(Ended(old), s, k)
        /\ tokens' = Left(c, m)
        /\ issued' = IF Left(c, m) \subseteq tokens THEN issued ELSE issued + 1
        /\ era' = [era EXCEPT ![m] = IF Recovering(c) THEN @ + 1 ELSE @]

(* assertion, and a session for the passkey that answered. *)
SignedIn(c, k, s) ==
    /\ Finishing(c) /\ ceremonies[c].kind = "login"
    /\ keys[k] # None /\ ~keys[k].revoked /\ Fresh(sessions, s, 0)
    /\ sessions' = create_session(sessions, s, k)
    /\ UNCHANGED <<keys, tokens, issued, era>>

Asserted(c) == ceremonies[c].kind = "confirm" /\ session(ceremonies[c].session)

(* revoke: the owner any passkey, a member their own (for a member's last  *)
(* one the request also confirms the lockout, or it is refused).           *)
Revoke(c) ==
    LET op == ceremonies[c].op IN
    /\ Finishing(c) /\ Asserted(c) /\ op.op = "revoke"
    /\ keys[op.key] # None /\ ~keys[op.key].revoked
    /\ MemberOf(ceremonies[c].session) \in {Owner, keys[op.key].member}
    /\ keys' = Revoked({op.key})
    /\ sessions' = Ended({op.key})
    /\ UNCHANGED <<tokens, issued, era>>

(* reinvite: the owner, for anyone else. *)
Reinvite(c) ==
    LET op == ceremonies[c].op IN
    /\ Finishing(c) /\ Asserted(c) /\ op.op = "reinvite"
    /\ MemberOf(ceremonies[c].session) = Owner /\ op.member # Owner
    /\ Issue(op.member, "reinvite")
    /\ UNCHANGED <<keys, sessions, era>>

(* logout, the idle and the absolute limit of a session, and the day a     *)
(* token lives; recovery codes do not run out.                             *)
Lapse(s) ==
    /\ sessions[s] \in KK
    /\ sessions' = [sessions EXCEPT ![s] = None]
    /\ UNCHANGED <<keys, tokens, issued, ceremonies, era, twin, push, inputs, crashes>>

Expire(t) ==
    /\ t.kind # "recovery"
    /\ tokens' = tokens \ {t}
    /\ UNCHANGED <<keys, sessions, issued, ceremonies, era, twin, push, inputs, crashes>>

(***************************************************************************)
(* Twin runs                                                               *)
(***************************************************************************)

(* command: start, step, pause, resume and inject, each a new revision. *)
Command(s, controls) ==
    /\ session(s) /\ inputs < MaxInputs
    /\ run' = IF run = None
              THEN [revision |-> 1, controls |-> controls, key |-> sessions[s],
                    published |-> 0, snapshot |-> None]
              ELSE [run EXCEPT !.revision = @ + 1, !.controls = controls, !.key = sessions[s]]
    /\ inputs' = inputs + 1
    /\ UNCHANGED <<credentials, ceremonies, replay, push, crashes>>

(* advance: a run that is behind is replayed outside any transaction. *)
Replay ==
    /\ run # None /\ replay = None
    /\ run.published # run.revision /\ ~keys[run.key].revoked
    /\ replay' = [revision |-> run.revision, controls |-> run.controls, key |-> run.key]
    /\ UNCHANGED <<credentials, ceremonies, run, push, inputs, crashes>>

Unmoved == run.revision = replay.revision

\* (mutant) the snapshot is published whatever the run has become.
PublishLatest ==
    /\ replay # None
    /\ run' = [run EXCEPT !.snapshot = replay.controls, !.published = run.revision]
    /\ replay' = None
    /\ UNCHANGED <<credentials, ceremonies, push, inputs, crashes>>

(* The snapshot is kept only for the revision it was made from, and while  *)
(* the passkey that asked for it is current.                               *)
Publish ==
    /\ replay # None
    /\ run' = IF Unmoved /\ ~keys[replay.key].revoked
              THEN [run EXCEPT !.snapshot = replay.controls, !.published = replay.revision]
              ELSE run
    /\ replay' = None
    /\ UNCHANGED <<credentials, ceremonies, push, inputs, crashes>>

(***************************************************************************)
(* Push notifications                                                      *)
(***************************************************************************)

(* An approval, check-in, warning, notice or proposal wants attention, and *)
(* later no longer does: decided, withdrawn or out of time.                *)
Notice(r) ==
    /\ r \notin open /\ delivery[r] = None /\ inputs + 2 <= MaxInputs
    /\ open' = open \cup {r} /\ inputs' = inputs + 2
    /\ UNCHANGED <<credentials, ceremonies, twin, subscribed, delivery, pusher, sends, crashes>>

Close(r) ==
    /\ r \in open
    /\ open' = open \ {r}
    /\ UNCHANGED <<credentials, ceremonies, twin, subscribed, delivery, pusher, sends, inputs, crashes>>

Subscribe(s) ==
    /\ session(s) /\ MemberOf(s) = Owner /\ subscribed = "off" /\ inputs < MaxInputs
    /\ subscribed' = "on" /\ inputs' = inputs + 1
    /\ UNCHANGED <<credentials, ceremonies, twin, open, delivery, pusher, sends, crashes>>

(* advance, first transaction: one delivery for each open reference. *)
Gather ==
    /\ subscribed = "on" /\ pusher = None
    /\ \E r \in open : delivery[r] = None
    /\ delivery' = [r \in References |->
          IF r \in open /\ delivery[r] = None
          THEN [attempts |-> 0, status |-> "pending"] ELSE delivery[r]]
    /\ UNCHANGED <<credentials, ceremonies, twin, open, subscribed, pusher, sends, inputs, crashes>>

\* (mutant) a delivery left in "sending" by a crash is not taken up again.
DuePending(r) == delivery[r] # None /\ delivery[r].status = "pending"

(* A delivery found sending was left by a crash and is taken up again. *)
Due(r) == delivery[r] # None /\ delivery[r].status \in {"pending", "sending"}

(* Nothing left to say, or three attempts made: the delivery is given up. *)
Spent(r) == r \notin open \/ delivery[r].attempts >= 3

Cancel(r) ==
    /\ subscribed = "on" /\ pusher = None /\ Due(r) /\ Spent(r)
    /\ delivery' = [delivery EXCEPT ![r].status = "failed"]
    /\ UNCHANGED <<credentials, ceremonies, twin, open, subscribed, pusher, sends, inputs, crashes>>

(* The attempt is counted before the message leaves. *)
Claimed(r) == [delivery EXCEPT ![r] = [attempts |-> @.attempts + 1, status |-> "sending"]]

Claim(r) ==
    /\ subscribed = "on" /\ pusher = None /\ Due(r) /\ ~Spent(r)
    /\ delivery' = Claimed(r)
    /\ pusher' = [reference |-> r, result |-> None]
    /\ UNCHANGED <<credentials, ceremonies, twin, open, subscribed, sends, inputs, crashes>>

(* The push service takes the message, fails, or says the browser is gone. *)
Send(result) ==
    /\ pusher # None /\ pusher.result = None
    /\ pusher' = [pusher EXCEPT !.result = result]
    /\ sends' = [sends EXCEPT ![pusher.reference] = @ + 1]
    /\ UNCHANGED <<credentials, ceremonies, twin, open, subscribed, delivery, inputs, crashes>>

Record ==
    /\ pusher # None /\ pusher.result # None
    /\ delivery' = [delivery EXCEPT ![pusher.reference].status =
          IF pusher.result = "taken" THEN "sent"
          ELSE IF pusher.result = "gone" \/ delivery[pusher.reference].attempts >= 3
          THEN "failed" ELSE "pending"]
    /\ subscribed' = IF pusher.result = "gone" THEN "off" ELSE subscribed
    /\ pusher' = None
    /\ UNCHANGED <<credentials, ceremonies, twin, open, sends, inputs, crashes>>

(* A worker dies between its transactions. *)
Crash ==
    /\ crashes < MaxCrashes /\ (replay # None \/ pusher # None)
    /\ replay' = None /\ pusher' = None /\ crashes' = crashes + 1
    /\ UNCHANGED <<credentials, ceremonies, run, open, subscribed, delivery, sends, inputs>>

-----------------------------------------------------------------------------
Next ==
    \/ \E m \in Members : Invite(m)
    \/ \E c \in CC, t \in tokens : Enroll(c, t)
    \/ \E c \in CC, s \in SS : Add(c, s)
    \/ \E c \in CC : Login(c)
    \/ \E c \in CC, s \in SS, op \in Ops : Confirm(c, s, op)
    \/ \E c \in CC : Consume(c)
    \/ \E c \in CC : Refused(c)
    \/ \E c \in CC, k \in KK, s \in SS : Register(c, k, s)
    \/ \E c \in CC, k \in KK, s \in SS : SignedIn(c, k, s)
    \/ \E c \in CC : Revoke(c)
    \/ \E c \in CC : Reinvite(c)
    \/ \E s \in SS : Lapse(s)
    \/ \E t \in tokens : Expire(t)
    \/ \E s \in SS, v \in Controls : Command(s, v)
    \/ Replay \/ Publish
    \/ \E r \in References : Notice(r)
    \/ \E r \in References : Close(r)
    \/ \E s \in SS : Subscribe(s)
    \/ Gather
    \/ \E r \in References : Cancel(r)
    \/ \E r \in References : Claim(r)
    \/ \E result \in Results : Send(result)
    \/ Record \/ Crash

(* The push worker is polled; a call to the push service times out. *)
PushWorker == \/ \E r \in References : Cancel(r) \/ Claim(r)
              \/ \E result \in Results : Send(result)
              \/ Record

Spec == Init /\ [][Next]_vars /\ WF_vars(PushWorker)

-----------------------------------------------------------------------------
(* A member who ever had a passkey holds exactly one usable recovery code  *)
(* (auth.register voids the others and issues the next), and none before:  *)
(* whichever of two ceremonies begun with the same link, or of a reinvite  *)
(* and a recovery code, is finished first.                                 *)
OneWayBack ==
    \A m \in Members :
        LET codes == {t \in tokens : t.member = m /\ t.kind = "recovery"}
        IN  /\ KeysOf(m) # {} => Cardinality(codes) = 1
            /\ KeysOf(m) = {} => codes = {}
            /\ KeysOf(m) # {} => \A t \in tokens : t.member = m => t.kind # "invitation"

(* Recovery evicts: every current passkey of a member was registered since  *)
(* the last recovery, by a ceremony begun since then, and no session        *)
(* outlives its passkey.  A passkey being added in another tab from a       *)
(* session recovered away never appears (auth.py:505-514, 578-600).         *)
EvictedByRecovery ==
    /\ \A k \in KK : keys[k] # None /\ ~keys[k].revoked => keys[k].era = era[keys[k].member]
    /\ \A s \in SS : sessions[s] \in KK => ~keys[sessions[s]].revoked

(* A snapshot marked as the run's current revision was replayed from that   *)
(* revision's controls (twin.py:310-316).                                   *)
SnapshotIsCurrent ==
    run # None /\ run.published = run.revision => run.snapshot = run.controls

(* A notification is handed to the push service at most three times,        *)
(* crashes included (push.py:441-489).                                      *)
ThreeAttempts == \A r \in References : sends[r] <= 3

(* A queued notification is sent or given up after three attempts at most,  *)
(* or its browser is gone, wherever the worker crashes (push.py:419-544).   *)
DeliveryEnds ==
    /\ []ThreeAttempts
    /\ \A r \in References :
          LET owed == delivery[r] # None /\ delivery[r].status \in {"pending", "sending"}
          IN  owed ~> (subscribed = "off" \/ ~owed)

=============================================================================
