-------------------------- MODULE CompanionProofs ---------------------------
(***************************************************************************)
(* Proofs about the companion app's server, for every set of members,      *)
(* every number of passkeys, sessions, ceremonies, tokens and crashes.     *)
(*                                                                         *)
(* Passkeys, twin runs and push notifications share no state but the       *)
(* passkeys a run or a subscription looks up, so each has an invariant of  *)
(* its own, and a step of one leaves the other two as they are.            *)
(***************************************************************************)
EXTENDS Companion, FiniteSetTheorems, TLAPS

\* Tokens are told apart by their number, and numbers are never used twice.
TokensApart ==
    /\ \A t \in tokens : t.id <= issued
    /\ \A t, u \in tokens : t.id = u.id => t = u

\* A registration under way knows its member.  Begun with a token, it can only
\* meet a token of that member; begun in a session, it carries the member's era
\* for as long as that session is good.
Knows(c) ==
    LET r == ceremonies[c] IN
        r # None /\ r.kind = "register" =>
            /\ r.member \in Members /\ r.era <= era[r.member]
            /\ r.token # None => /\ r.token <= issued
                                 /\ \A t \in tokens : t.id = r.token => t.member = r.member
            /\ r.token = None => /\ r.session \in SS /\ sessions[r.session] # 0
                                 /\ session(r.session) => /\ MemberOf(r.session) = r.member
                                                          /\ r.era = era[r.member]

CeremoniesKnow == \A c \in CC : Knows(c)

\* What a ceremony is to confirm is an operation.
Confirms == \A c \in CC :
    ceremonies[c] # None /\ ceremonies[c].kind = "confirm" => ceremonies[c].op \in Ops

\* A session names a passkey on record; recovery presupposes one.
OnRecord ==
    /\ \A s \in SS : sessions[s] \in KK => keys[sessions[s]] # None
    /\ \A m \in Members : KeysOf(m) = {} => era[m] = 0

Codes(m) == {t \in tokens : t.member = m /\ t.kind = "recovery"}

\* OneWayBack without counting.
OneCode ==
    \A m \in Members :
        IF KeysOf(m) = {} THEN Codes(m) = {}
        ELSE /\ \E t \in tokens : Codes(m) = {t}
             /\ \A t \in tokens : t.member = m => t.kind # "invitation"

\* What the replaying worker holds was true of the run when it was read.
ReplayKnown ==
    /\ run # None => run.published <= run.revision
    /\ replay # None => /\ run # None /\ replay.revision <= run.revision
                        /\ replay.revision = run.revision => replay.controls = run.controls

\* An attempt is counted before the message leaves.
AttemptsCounted ==
    /\ \A r \in References :
          IF delivery[r] = None THEN sends[r] = 0 ELSE sends[r] <= delivery[r].attempts
    /\ pusher # None => LET r == pusher.reference IN
          /\ delivery[r] # None
          /\ pusher.result = None => sends[r] < delivery[r].attempts

CredInv == TokensApart /\ CeremoniesKnow /\ Confirms /\ OnRecord /\ OneCode /\ EvictedByRecovery
TwinInv == ReplayKnown /\ SnapshotIsCurrent
Inv == TypeOK /\ CredInv /\ TwinInv /\ AttemptsCounted

-----------------------------------------------------------------------------
(* Who writes what.                                                        *)

\* The steps that change passkeys, tokens, sessions or ceremonies.
CredStep ==
    \/ \E m \in Members : Invite(m)
    \/ \E c \in CC, t \in tokens : Enroll(c, t)
    \/ \E c \in CC, s \in SS : Add(c, s)
    \/ \E c \in CC : Login(c)
    \/ \E c \in CC, s \in SS, op \in Ops : Confirm(c, s, op)
    \/ \E c \in CC : Consume(c)
    \/ \E c \in CC : Refused(c)
    \/ \E c \in CC, k \in KK, s \in SS : Register(c, k, s)
    \/ \E c \in CC, k \in KK, s \in SS : SignedIn(c, k, s)
    \/ \E c \in CC : Revoke(c)
    \/ \E c \in CC : Reinvite(c)
    \/ \E s \in SS : Lapse(s)
    \/ \E t \in tokens : Expire(t)

\* The steps that change the run or the worker's copy of it.
TwinStep == (\E s \in SS, v \in Controls : Command(s, v)) \/ Replay \/ Publish

\* The steps that change notifications.
PushStep ==
    \/ \E r \in References : Notice(r) \/ Close(r) \/ Cancel(r) \/ Claim(r)
    \/ \E s \in SS : Subscribe(s)
    \/ Gather \/ Record
    \/ \E result \in Results : Send(result)

\* Each step belongs to one of the three, or is a crash of the worker.
LEMMA Partition ==
    ASSUME [Next]_vars
    PROVE  \/ CredStep /\ UNCHANGED <<twin, push, crashes>>
           \/ TwinStep /\ UNCHANGED <<credentials, ceremonies, push, crashes>>
           \/ PushStep /\ UNCHANGED <<credentials, ceremonies, twin, crashes>>
           \/ Crash \/ UNCHANGED vars
<1>1. CASE CredStep
      <2>1. UNCHANGED <<twin, push, crashes>>
            BY <1>1 DEF CredStep, Invite, Enroll, Add, Login, Confirm, Begun, Consume, Refused,
                   Register, SignedIn, Revoke, Reinvite, Finishing, Lapse, Expire
      <2>2. QED
            BY <1>1, <2>1
<1>2. CASE TwinStep
      BY <1>2 DEF TwinStep, Command, Replay, Publish
<1>3. CASE PushStep
      BY <1>3 DEF PushStep, Notice, Close, Cancel, Claim, Subscribe, Gather, Record, Send, twin
<1>4. QED
      BY <1>1, <1>2, <1>3 DEF Next, CredStep, TwinStep, PushStep

-----------------------------------------------------------------------------
(* Types.                                                                  *)

\* What a step of the first kind does to the passkeys and the rest keeps types.
LEMMA CredTypes ==
    ASSUME Inv, CredStep
    PROVE  /\ keys' \in [KK -> Key \cup {None}]
           /\ sessions' \in [SS -> 0 .. MaxKeys \cup {None}]
           /\ tokens' \subseteq Token /\ issued' \in Nat
           /\ ceremonies' \in [CC -> Ceremony \cup {None}]
           /\ era' \in [Members -> Nat] /\ inputs' \in Nat
<1> USE ConstantsAssumption DEF Inv, TypeOK, SS, CC, KK
<1>1. ASSUME NEW m \in Members, NEW kind \in Kinds, Issue(m, kind)
      PROVE  tokens' \subseteq Token /\ issued' \in Nat
      BY <1>1 DEF Issue, Token, Kinds
<1>2. CASE \E m \in Members : Invite(m)
      BY <1>1, <1>2 DEF Invite, Kinds
<1>3. ASSUME NEW c \in CC, NEW value \in Ceremony, Begun(c, value)
      PROVE  /\ ceremonies' \in [CC -> Ceremony \cup {None}] /\ inputs' \in Nat
             /\ UNCHANGED credentials
      BY <1>3 DEF Begun
<1>4. CASE \E c \in CC, t \in tokens : Enroll(c, t)
      <2>1. PICK c \in CC, t \in tokens : Enroll(c, t)
            BY <1>4
      <2>2. t.id \in Nat /\ t.member \in Members /\ era[t.member] \in Nat
            BY DEF Token
      <2>3. QED
            BY <2>1, <2>2, <1>3 DEF Enroll, Ceremony, credentials
<1>5. CASE \E c \in CC, s \in SS : Add(c, s)
      <2>1. PICK c \in CC, s \in SS : Add(c, s)
            BY <1>5
      <2>2. MemberOf(s) \in Members /\ era[MemberOf(s)] \in Nat
            BY <2>1 DEF Add, session, MemberOf, CredInv, OnRecord, Key
      <2>3. QED
            BY <2>1, <2>2, <1>3 DEF Add, Ceremony, credentials
<1>6. CASE \E c \in CC : Login(c)
      BY <1>3, <1>6 DEF Login, Ceremony, credentials
<1>7. CASE \E c \in CC, s \in SS, op \in Ops : Confirm(c, s, op)
      BY <1>3, <1>7 DEF Confirm, Ceremony, credentials
<1>8. CASE \E c \in CC : Consume(c)
      <2>1. PICK c \in CC : Consume(c)
            BY <1>8
      <2>2. ceremonies[c] \in Ceremony
            BY <2>1 DEF Consume
      <2>3. [ceremonies[c] EXCEPT !.phase = "consumed"] \in Ceremony
            BY <2>2 DEF Ceremony
      <2>4. QED
            BY <2>1, <2>3 DEF Consume, credentials
<1>9. ASSUME NEW c \in CC, Finishing(c)
      PROVE  ceremonies' \in [CC -> Ceremony \cup {None}] /\ inputs' \in Nat
      BY <1>9 DEF Finishing
<1>10. CASE \E c \in CC : Refused(c)
      BY <1>9, <1>10 DEF Refused, credentials
<1>11. \A ks : /\ Ended(ks) \in [SS -> 0 .. MaxKeys \cup {None}]
               /\ (\A k \in ks : keys[k] # None) => Revoked(ks) \in [KK -> Key \cup {None}]
      BY DEF Ended, Revoked, Key
<1>12. CASE \E c \in CC, k \in KK, s \in SS : Register(c, k, s)
      <2>1. PICK c \in CC, k \in KK, s \in SS : Register(c, k, s)
            BY <1>12
      <2>2. /\ ceremonies[c] \in Ceremony /\ ceremonies[c].kind = "register"
            /\ ceremonies[c].member \in Members /\ ceremonies[c].era \in Nat
            /\ era[ceremonies[c].member] \in Nat
            BY <2>1 DEF Register, Finishing, CredInv, CeremoniesKnow, Knows, Ceremony
      <2>3. keys' \in [KK -> Key \cup {None}]
            <3> DEFINE old == IF Recovering(c) THEN KeysOf(ceremonies[c].member) ELSE {}
                       new == [member |-> ceremonies[c].member, revoked |-> FALSE,
                               era |-> IF Recovering(c) THEN era[ceremonies[c].member] + 1
                                       ELSE ceremonies[c].era]
            <3>1. Revoked(old) \in [KK -> Key \cup {None}]
                  BY <1>11 DEF KeysOf
            <3>2. new \in Key
                  BY <2>2 DEF Key
            <3>3. keys' = [Revoked(old) EXCEPT ![k] = new]
                  BY <2>1 DEF Register
            <3> HIDE DEF old, new
            <3>4. QED
                  BY <3>1, <3>2, <3>3
      <2>4. sessions' \in [SS -> 0 .. MaxKeys \cup {None}]
            BY <2>1, <1>11 DEF Register, create_session
      <2>5. tokens' \subseteq Token /\ issued' \in Nat
            BY <2>1, <2>2 DEF Register, Left, Token, Kinds
      <2>6. era' \in [Members -> Nat]
            <3> DEFINE m == ceremonies[c].member
                       e == IF Recovering(c) THEN era[m] + 1 ELSE era[m]
            <3>1. era' = [era EXCEPT ![m] = e] /\ e \in Nat
                  BY <2>1, <2>2 DEF Register
            <3> HIDE DEF e
            <3>2. QED
                  BY <3>1
      <2>7. QED
            BY <2>1, <2>3, <2>4, <2>5, <2>6, <1>9 DEF Register
<1>13. CASE \E c \in CC, k \in KK, s \in SS : SignedIn(c, k, s)
      BY <1>9, <1>13 DEF SignedIn, create_session
<1>14. CASE \E c \in CC : Revoke(c)
      <2>1. PICK c \in CC : Revoke(c)
            BY <1>14
      <2>2. keys' \in [KK -> Key \cup {None}] /\ sessions' \in [SS -> 0 .. MaxKeys \cup {None}]
            BY <2>1, <1>11 DEF Revoke
      <2>3. QED
            BY <2>1, <2>2, <1>9 DEF Revoke
<1>15. CASE \E c \in CC : Reinvite(c)
      <2>1. PICK c \in CC : Reinvite(c)
            BY <1>15
      <2>2. ceremonies[c].op.op = "reinvite" /\ ceremonies[c] \in Ceremony
            BY <2>1 DEF Reinvite, Finishing
      <2>3. ceremonies[c].op.member \in Members
            BY <2>1, <2>2 DEF Reinvite, Ops, Asserted, CredInv, Confirms, Finishing
      <2>4. QED
            BY <2>1, <2>3, <1>1, <1>9 DEF Reinvite, Kinds
<1>16. CASE \E s \in SS : Lapse(s)
      BY <1>16 DEF Lapse
<1>17. CASE \E t \in tokens : Expire(t)
      BY <1>17 DEF Expire
<1>18. QED
      BY <1>2, <1>4, <1>5, <1>6, <1>7, <1>8, <1>10, <1>12, <1>13, <1>14, <1>15, <1>16, <1>17
         DEF CredStep

\* A command makes the next revision of a run; the published one stays.
LEMMA NextRevision ==
    ASSUME TypeOK, run # None, NEW s \in SS, NEW v \in Controls, Command(s, v)
    PROVE  /\ run' \in Run /\ run'.revision = run.revision + 1
           /\ run'.published = run.published
<1>1. /\ run \in Run /\ sessions[s] \in KK
      /\ run' = [run EXCEPT !.revision = @ + 1, !.controls = v, !.key = sessions[s]]
      BY DEF TypeOK, Command, session
<1>2. PICK x \in Nat : x = run.revision + 1
      BY <1>1 DEF Run
<1>3. run' = [run EXCEPT !.revision = x, !.controls = v, !.key = sessions[s]]
      BY <1>1, <1>2
<1>4. QED
      BY <1>1, <1>2, <1>3 DEF Run

\* What the run, the worker's copy and the notifications hold keeps its type.
LEMMA TypeStep == Inv /\ [Next]_vars => TypeOK'
<1> SUFFICES ASSUME Inv, [Next]_vars PROVE TypeOK'
    OBVIOUS
<1> USE ConstantsAssumption DEF Inv, TypeOK
<1>1. CASE CredStep /\ UNCHANGED <<twin, push, crashes>>
      BY <1>1, CredTypes DEF twin, push
<1>2. CASE TwinStep /\ UNCHANGED <<credentials, ceremonies, push, crashes>>
      <2>1. ASSUME NEW s \in SS, NEW v \in Controls, Command(s, v)
            PROVE  run' \in Run \cup {None} /\ UNCHANGED replay /\ inputs' \in Nat
            <3>1. sessions[s] \in KK
                  BY <2>1 DEF Command, session
            <3>2. UNCHANGED replay /\ inputs' \in Nat
                  BY <2>1 DEF Command
            <3>3. CASE run = None
                  <4>1. run' = [revision |-> 1, controls |-> v, key |-> sessions[s],
                                published |-> 0, snapshot |-> None]
                        BY <2>1, <3>3 DEF Command
                  <4>2. QED
                        BY <3>1, <3>2, <4>1 DEF Run
            <3>5. CASE run # None
                  BY <2>1, <3>2, <3>5, NextRevision
            <3>4. QED
                  BY <3>3, <3>5
      <2>2. CASE Replay
            BY <1>2, <2>2 DEF Replay, Run, credentials, push
      <2>3. CASE Publish
            BY <1>2, <2>3 DEF Publish, Run, credentials, push, TwinInv, ReplayKnown
      <2>4. QED
            BY <1>2, <2>1, <2>2, <2>3 DEF TwinStep, credentials, push
<1>3. CASE PushStep /\ UNCHANGED <<credentials, ceremonies, twin, crashes>>
      <2> USE DEF Delivery
      <2>1. ASSUME NEW r \in References, Notice(r) \/ Close(r)
            PROVE  TypeOK'
            BY <1>3, <2>1 DEF Notice, Close, credentials, twin
      <2>2. ASSUME NEW r \in References, Cancel(r)
            PROVE  TypeOK'
            <3>1. [delivery[r] EXCEPT !.status = "failed"] \in Delivery
                  BY <2>2 DEF Cancel, Due
            <3>2. QED
                  BY <1>3, <2>2, <3>1 DEF Cancel, credentials, twin
      <2>3. ASSUME NEW r \in References, Claim(r)
            PROVE  TypeOK'
            <3>1. [attempts |-> delivery[r].attempts + 1, status |-> "sending"] \in Delivery
                  BY <2>3 DEF Claim, Due, Spent
            <3>2. QED
                  BY <1>3, <2>3, <3>1 DEF Claim, Claimed, credentials, twin
      <2>4. CASE \E s \in SS : Subscribe(s)
            BY <1>3, <2>4 DEF Subscribe, credentials, twin
      <2>5. CASE Gather
            BY <1>3, <2>5 DEF Gather, credentials, twin
      <2>6. CASE Record
            <3>1. /\ pusher.reference \in References
                  /\ delivery[pusher.reference] \in Delivery
                  BY <2>6 DEF Record, AttemptsCounted
            <3>2. \A x \in {"sent", "failed", "pending"} :
                     [delivery[pusher.reference] EXCEPT !.status = x] \in Delivery
                  BY <3>1
            <3>3. delivery' \in [References -> Delivery \cup {None}]
                  BY <2>6, <3>1, <3>2 DEF Record
            <3>4. QED
                  BY <1>3, <2>6, <3>3 DEF Record, credentials, twin
      <2>7. ASSUME NEW result \in Results, Send(result)
            PROVE  TypeOK'
            <3>1. /\ pusher.reference \in References
                  /\ [pusher EXCEPT !.result = result]
                        \in [reference : References, result : Results \cup {None}]
                  BY <2>7 DEF Send
            <3>2. QED
                  BY <1>3, <2>7, <3>1 DEF Send, credentials, twin
      <2>8. QED
            BY <1>3, <2>1, <2>2, <2>3, <2>4, <2>5, <2>6, <2>7 DEF PushStep
<1>4. CASE Crash
      <2>1. crashes' \in Nat
            BY <1>4, Z3 DEF Crash
      <2>2. QED
            BY <1>4, <2>1 DEF Crash, credentials
<1>5. CASE UNCHANGED vars
      BY <1>5 DEF vars
<1>6. QED
      BY <1>1, <1>2, <1>3, <1>4, <1>5, Partition

-----------------------------------------------------------------------------
(* The run and the notifications.                                          *)

\* A command moves the revision past what any copy was made from, and publishing
\* keeps a copy only for its own revision.
LEMMA TwinStepInv == Inv /\ [Next]_vars => TwinInv'
<1> SUFFICES ASSUME Inv, [Next]_vars PROVE TwinInv'
    OBVIOUS
<1> USE ConstantsAssumption DEF Inv, TypeOK, TwinInv, ReplayKnown, SnapshotIsCurrent
<1>1. ASSUME NEW s \in SS, NEW v \in Controls, Command(s, v)
      PROVE  TwinInv'
      <2>1. CASE run = None
            BY <1>1, <2>1 DEF Command
      <2>2. CASE run # None
            <3>1. /\ run'.revision = run.revision + 1 /\ run'.published = run.published
                  /\ run' \in Run
                  BY <1>1, <2>2, NextRevision
            <3>2. run.revision \in Nat /\ run.published \in Nat /\ UNCHANGED replay
                  BY <1>1, <2>2 DEF Command, Run
            <3>3. replay # None => replay.revision \in Nat
                  OBVIOUS
            <3>4. QED
                  BY <2>2, <3>1, <3>2, <3>3
      <2>3. QED
            BY <2>1, <2>2
<1>2. CASE Replay
      BY <1>2 DEF Replay, Run
<1>3. CASE Publish
      BY <1>3 DEF Publish, Unmoved, Run
<1>4. CASE Crash
      BY <1>4 DEF Crash
<1>5. CASE UNCHANGED twin
      BY <1>5 DEF twin
<1>6. QED
      BY <1>1, <1>2, <1>3, <1>4, <1>5, Partition DEF TwinStep, vars, twin

\* Sending follows counting, and only a crash comes between them.
LEMMA PushStepInv == Inv /\ [Next]_vars => AttemptsCounted'
<1> SUFFICES ASSUME Inv, [Next]_vars PROVE AttemptsCounted'
    OBVIOUS
<1> USE ConstantsAssumption DEF Inv, TypeOK, AttemptsCounted
<1>1. CASE PushStep
      <2> USE DEF Delivery
      <2>1. ASSUME NEW r \in References, Notice(r) \/ Close(r)
            PROVE  AttemptsCounted'
            BY <2>1 DEF Notice, Close
      <2>2. ASSUME NEW r \in References, Cancel(r)
            PROVE  AttemptsCounted'
            BY <2>2 DEF Cancel, Due
      <2>3. ASSUME NEW r \in References, Claim(r)
            PROVE  AttemptsCounted'
            <3> DEFINE d == [attempts |-> delivery[r].attempts + 1, status |-> "sending"]
            <3>1. delivery[r] \in Delivery /\ sends[r] <= delivery[r].attempts
                  BY <2>3 DEF Claim, Due
            <3>2. delivery' = [delivery EXCEPT ![r] = d] /\ UNCHANGED sends
                  BY <2>3 DEF Claim, Claimed
            <3>3. sends[r] < d.attempts /\ sends[r] \in Nat /\ d.attempts \in Nat
                  BY <3>1
            <3>4. pusher' = [reference |-> r, result |-> None]
                  BY <2>3 DEF Claim
            <3>5. d \in Delivery /\ d # None
                  BY <2>3, <3>1 DEF Claim, Spent
            <3> HIDE DEF d
            <3>6. ASSUME NEW x \in References
                  PROVE  IF delivery'[x] = None THEN sends'[x] = 0
                         ELSE sends'[x] <= delivery'[x].attempts
                  BY <3>2, <3>3, <3>5
            <3>7. QED
                  BY <3>2, <3>3, <3>4, <3>5, <3>6
      <2>4. CASE \E s \in SS : Subscribe(s)
            BY <2>4 DEF Subscribe
      <2>5. CASE Gather
            <3>1. [attempts |-> 0, status |-> "pending"] \in Delivery
                  OBVIOUS
            <3>2. QED
                  BY <2>5, <3>1 DEF Gather
      <2>6. CASE Record
            <3> DEFINE q == pusher.reference
            <3>1. /\ q \in References /\ delivery[q] \in Delivery
                  /\ UNCHANGED sends /\ pusher' = None
                  BY <2>6 DEF Record
            <3>2. PICK x \in {"sent", "failed", "pending"} :
                     delivery' = [delivery EXCEPT ![q].status = x]
                  BY <2>6 DEF Record
            <3>3. /\ [delivery[q] EXCEPT !.status = x] \in Delivery
                  /\ [delivery[q] EXCEPT !.status = x].attempts = delivery[q].attempts
                  BY <3>1
            <3>4. QED
                  BY <3>1, <3>2, <3>3
      <2>7. ASSUME NEW result \in Results, Send(result)
            PROVE  AttemptsCounted'
            <3> DEFINE q == pusher.reference
            <3>1. /\ q \in References /\ delivery[q] \in Delivery /\ sends[q] < delivery[q].attempts
                  /\ UNCHANGED delivery /\ sends' = [sends EXCEPT ![q] = @ + 1]
                  BY <2>7 DEF Send
            <3>2. pusher'.result # None /\ pusher'.reference = q
                  BY <2>7 DEF Send
            <3>3. sends'[q] <= delivery'[q].attempts
                  BY <3>1
            <3>4. QED
                  BY <3>1, <3>2, <3>3
      <2>8. QED
            BY <1>1, <2>1, <2>2, <2>3, <2>4, <2>5, <2>6, <2>7 DEF PushStep
<1>2. CASE Crash
      BY <1>2 DEF Crash
<1>3. CASE UNCHANGED push
      BY <1>3 DEF push
<1>4. QED
      BY <1>1, <1>2, <1>3, Partition DEF vars, push

-----------------------------------------------------------------------------
(* Passkeys, tokens, sessions and ceremonies.                              *)

\* The passkeys a registration revokes, and the era of the one it creates.
Evicted(c) == IF Recovering(c) THEN KeysOf(ceremonies[c].member) ELSE {}
EraAfter(c) == IF Recovering(c) THEN era[ceremonies[c].member] + 1 ELSE era[ceremonies[c].member]

\* What a registration finds and does: a blank row becomes the member's passkey;
\* recovering marks the member's others revoked and deletes their sessions.
LEMMA RegisterEffect ==
    ASSUME Inv, NEW c \in CC, NEW k \in KK, NEW s \in SS, Register(c, k, s)
    PROVE  LET m == ceremonies[c].member
           IN  /\ m \in Members /\ ceremonies[c] # None /\ ceremonies[c].kind = "register"
               /\ keys[k] = None /\ keys'[k] # None /\ keys'[k].member = m /\ ~keys'[k].revoked
               /\ keys'[k].era = IF Recovering(c) THEN era[m] + 1 ELSE ceremonies[c].era
               /\ \A x \in KK \ {k} : /\ keys[x] = None => keys'[x] = None
                                      /\ x \notin Evicted(c) => keys'[x] = keys[x]
               /\ \A x \in Evicted(c) : /\ x # k /\ keys[x] # None
                                        /\ keys'[x] = [keys[x] EXCEPT !.revoked = TRUE]
               /\ sessions[s] = 0 /\ sessions'[s] = k
               /\ \A x \in SS \ {s} :
                     sessions'[x] = IF sessions[x] \in Evicted(c) THEN None ELSE sessions[x]
               /\ era' = [era EXCEPT ![m] = EraAfter(c)] /\ EraAfter(c) \in Nat
<1> USE ConstantsAssumption DEF Inv, TypeOK
<1> DEFINE m == ceremonies[c].member
           new == [member |-> m, revoked |-> FALSE,
                   era |-> IF Recovering(c) THEN era[m] + 1 ELSE ceremonies[c].era]
<1>1. /\ ceremonies[c] # None /\ ceremonies[c].kind = "register"
      /\ m \in Members /\ ceremonies[c].era \in Nat
      /\ era[m] \in Nat
      BY DEF Register, Finishing, CredInv, CeremoniesKnow, Knows, Ceremony
<1>2. new \in Key
      BY <1>1 DEF Key
<1>3. keys' = [Revoked(Evicted(c)) EXCEPT ![k] = new]
      BY DEF Register, Evicted
<1>4. keys[k] = None /\ sessions[s] = 0
      BY DEF Register, Fresh
<1>5. keys'[k] = new /\ new # None
      BY <1>2, <1>3 DEF Revoked
<1>6. \A x \in Evicted(c) : x \in KK /\ x # k /\ keys[x] # None
      BY <1>4 DEF Evicted, KeysOf
<1>7. \A x \in KK \ {k} :
         keys'[x] = IF x \in Evicted(c) THEN [keys[x] EXCEPT !.revoked = TRUE] ELSE keys[x]
      BY <1>3 DEF Revoked
<1>8. /\ sessions'[s] = k
      /\ \A x \in SS \ {s} :
            sessions'[x] = IF sessions[x] \in Evicted(c) THEN None ELSE sessions[x]
      BY DEF Register, create_session, Ended, Evicted
<1>9. era' = [era EXCEPT ![m] = EraAfter(c)] /\ EraAfter(c) \in Nat
      BY <1>1 DEF Register, EraAfter
<1>10. /\ keys'[k] # None /\ keys'[k].member = m /\ ~keys'[k].revoked
       /\ keys'[k].era = IF Recovering(c) THEN era[m] + 1 ELSE ceremonies[c].era
      BY <1>5
<1>11. \A x \in KK \ {k} : /\ keys[x] = None => keys'[x] = None
                           /\ x \notin Evicted(c) => keys'[x] = keys[x]
      BY <1>6, <1>7
<1>12. \A x \in Evicted(c) : /\ x # k /\ keys[x] # None
                             /\ keys'[x] = [keys[x] EXCEPT !.revoked = TRUE]
      BY <1>6, <1>7
<1> HIDE DEF Inv, TypeOK
<1>13. QED
      BY <1>1, <1>4, <1>8, <1>9, <1>10, <1>11, <1>12

\* A registration that recovers nothing belongs to the member's present era:
\* begun in a session that is still good, or with an invitation to a first
\* passkey, before which nothing can have been recovered.
LEMMA PresentEra ==
    ASSUME Inv, NEW c \in CC, NEW k \in KK, NEW s \in SS, Register(c, k, s), ~Recovering(c)
    PROVE  ceremonies[c].era = era[ceremonies[c].member]
<1> USE ConstantsAssumption DEF Inv, TypeOK, CredInv
<1> DEFINE r == ceremonies[c]
<1>1. /\ r # None /\ r.kind = "register" /\ r.member \in Members
      /\ r.era \in Nat /\ era[r.member] \in Nat /\ r.era <= era[r.member]
      BY DEF Register, Finishing, CeremoniesKnow, Knows, Ceremony
<1>2. CASE r.token # None
      <2>1. PICK t \in tokens : t.id = r.token /\ (t.kind = "invitation" => KeysOf(t.member) = {})
            BY <1>2 DEF Register, Authority, Grant
      <2>2. t.member = r.member
            BY <1>1, <1>2, <2>1 DEF CeremoniesKnow, Knows
      <2>3. t.kind = "invitation"
            BY <2>1 DEF Recovering, Grant, Token, Kinds
      <2>4. era[r.member] = 0
            BY <1>1, <2>1, <2>2, <2>3 DEF OnRecord
      <2>5. QED
            BY <1>1, <2>4
<1>3. CASE r.token = None
      <2>1. session(r.session)
            BY <1>3 DEF Register, Authority
      <2>2. QED
            BY <1>1, <1>3, <2>1 DEF CeremoniesKnow, Knows
<1>4. QED
      BY <1>2, <1>3

\* A passkey stays on record under its member and era, and stays revoked.
LEMMA KeysStay ==
    ASSUME Inv, CredStep, NEW x \in KK, keys[x] # None
    PROVE  /\ keys'[x] # None /\ keys'[x].member = keys[x].member
           /\ keys'[x].era = keys[x].era /\ (keys[x].revoked => keys'[x].revoked)
<1> USE ConstantsAssumption DEF Inv, TypeOK
<1>1. keys[x] \in Key
      OBVIOUS
<1>2. /\ [keys[x] EXCEPT !.revoked = TRUE] \in Key
      /\ [keys[x] EXCEPT !.revoked = TRUE].revoked
      /\ [keys[x] EXCEPT !.revoked = TRUE].member = keys[x].member
      /\ [keys[x] EXCEPT !.revoked = TRUE].era = keys[x].era
      BY <1>1 DEF Key
<1>3. CASE \E c \in CC, k \in KK, s \in SS : Register(c, k, s)
      <2>1. PICK c \in CC, k \in KK, s \in SS : Register(c, k, s)
            BY <1>3
      <2>2. x # k /\ (keys'[x] = [keys[x] EXCEPT !.revoked = TRUE] \/ keys'[x] = keys[x])
            BY <2>1, RegisterEffect
      <2>3. QED
            BY <1>2, <2>2
<1>4. CASE \E c \in CC : Revoke(c)
      <2>1. keys'[x] = [keys[x] EXCEPT !.revoked = TRUE] \/ keys'[x] = keys[x]
            BY <1>4 DEF Revoke, Revoked
      <2>2. QED
            BY <1>2, <2>1
<1>5. CASE UNCHANGED keys
      BY <1>5
<1>6. \/ \E c \in CC, k \in KK, s \in SS : Register(c, k, s)
      \/ \E c \in CC : Revoke(c)
      \/ UNCHANGED keys
      BY DEF CredStep, Invite, Enroll, Add, Login, Confirm, Begun, Consume, Refused,
             SignedIn, Reinvite, Lapse, Expire, credentials
<1>7. QED
      BY <1>3, <1>4, <1>5, <1>6

\* A token that was not there before has a number that was never given out.
LEMMA TokensMove ==
    ASSUME Inv, CredStep
    PROVE  \/ tokens' \subseteq tokens /\ issued' = issued
           \/ /\ issued' = issued + 1
              /\ \E n \in Token : n.id = issued + 1 /\ tokens' \subseteq tokens \cup {n}
<1> USE ConstantsAssumption DEF Inv, TypeOK
<1>1. ASSUME NEW m \in Members, NEW kind \in Kinds, Issue(m, kind)
      PROVE  /\ issued' = issued + 1
             /\ \E n \in Token : n.id = issued + 1 /\ tokens' \subseteq tokens \cup {n}
      <2>1. [id |-> issued + 1, member |-> m, kind |-> kind] \in Token
            BY DEF Token
      <2>2. QED
            BY <1>1, <2>1 DEF Issue
<1>2. CASE \E m \in Members : Invite(m)
      BY <1>1, <1>2 DEF Invite, Kinds
<1>3. CASE \E c \in CC : Reinvite(c)
      <2>1. PICK c \in CC : Reinvite(c)
            BY <1>3
      <2>2. ceremonies[c].op.member \in Members
            BY <2>1 DEF Reinvite, Asserted, Finishing, CredInv, Confirms, Ops
      <2>3. QED
            BY <1>1, <2>1, <2>2 DEF Reinvite, Kinds
<1>4. CASE \E c \in CC, k \in KK, s \in SS : Register(c, k, s)
      <2>1. PICK c \in CC, k \in KK, s \in SS : Register(c, k, s)
            BY <1>4
      <2> DEFINE m == ceremonies[c].member
                 n == [id |-> issued + 1, member |-> m, kind |-> "recovery"]
      <2>2. n \in Token /\ n.id = issued + 1
            BY <2>1, RegisterEffect DEF Token, Kinds
      <2>3. CASE Left(c, m) \subseteq tokens
            BY <2>1, <2>3 DEF Register
      <2>4. CASE ~(Left(c, m) \subseteq tokens)
            <3>1. tokens' \subseteq tokens \cup {n} /\ issued' = issued + 1
                  BY <2>1, <2>4 DEF Register, Left
            <3>2. QED
                  BY <2>2, <3>1
      <2>5. QED
            BY <2>3, <2>4
<1>5. CASE \E t \in tokens : Expire(t)
      BY <1>5 DEF Expire
<1>6. CASE UNCHANGED <<tokens, issued>>
      BY <1>6
<1>7. QED
      BY <1>2, <1>3, <1>4, <1>5, <1>6
         DEF CredStep, Enroll, Add, Login, Confirm, Begun, Consume, Refused, SignedIn, Revoke,
             Lapse, credentials

\* Numbers stay apart.
LEMMA TokensApartStep == ASSUME Inv, CredStep PROVE TokensApart'
<1>1. issued \in Nat /\ (\A t \in tokens : t.id \in Nat /\ t.id <= issued)
      BY DEF Inv, TypeOK, CredInv, TokensApart, Token
<1>2. \A t, u \in tokens : t.id = u.id => t = u
      BY DEF Inv, CredInv, TokensApart
<1>3. QED
      BY <1>1, <1>2, TokensMove DEF TokensApart

\* Eras only grow, and grow only when the member gets a passkey.
LEMMA ErasMove ==
    ASSUME Inv, CredStep, NEW m \in Members
    PROVE  /\ era'[m] >= era[m]
           /\ era'[m] # era[m] => KeysOf(m)' # {}
<1> USE ConstantsAssumption DEF Inv, TypeOK
<1>1. CASE \E c \in CC, k \in KK, s \in SS : Register(c, k, s)
      <2>1. PICK c \in CC, k \in KK, s \in SS : Register(c, k, s)
            BY <1>1
      <2>2. /\ ceremonies[c].member \in Members
            /\ era' = [era EXCEPT ![ceremonies[c].member] = EraAfter(c)]
            /\ EraAfter(c) \in {era[ceremonies[c].member], era[ceremonies[c].member] + 1}
            /\ keys'[k] # None /\ keys'[k].member = ceremonies[c].member
            BY <2>1, RegisterEffect DEF EraAfter
      <2>3. era'[m] >= era[m] /\ (era'[m] # era[m] => m = ceremonies[c].member)
            BY <2>2
      <2>4. QED
            BY <2>2, <2>3 DEF KeysOf
<1>2. CASE UNCHANGED era
      BY <1>2
<1>3. (\E c \in CC, k \in KK, s \in SS : Register(c, k, s)) \/ UNCHANGED era
      BY DEF CredStep, Invite, Enroll, Add, Login, Confirm, Begun, Consume, Refused,
             SignedIn, Revoke, Reinvite, Lapse, Expire, credentials
<1>4. QED
      BY <1>1, <1>2, <1>3

\* A session once opened is never opened again; while it is good it stands for
\* the same passkey, whose member was not recovered.
LEMMA SessionsMove ==
    ASSUME Inv, CredStep, NEW x \in SS, sessions[x] # 0
    PROVE  /\ sessions'[x] # 0
           /\ session(x)' => /\ session(x) /\ sessions'[x] = sessions[x]
                             /\ MemberOf(x)' = MemberOf(x)
                             /\ era'[MemberOf(x)] = era[MemberOf(x)]
<1> USE ConstantsAssumption DEF Inv, TypeOK
<1>1. sessions'[x] \in {None, sessions[x]}
      <2>1. CASE \E c \in CC, k \in KK, s \in SS : Register(c, k, s)
            BY <2>1, RegisterEffect
      <2>2. CASE \E c \in CC, k \in KK, s \in SS : SignedIn(c, k, s)
            BY <2>2 DEF SignedIn, Fresh, create_session
      <2>3. CASE \E c \in CC : Revoke(c)
            BY <2>3 DEF Revoke, Ended
      <2>4. CASE \E s \in SS : Lapse(s)
            BY <2>4 DEF Lapse
      <2>5. CASE UNCHANGED sessions
            BY <2>5
      <2>6. \/ \E c \in CC, k \in KK, s \in SS : Register(c, k, s)
            \/ \E c \in CC, k \in KK, s \in SS : SignedIn(c, k, s)
            \/ \E c \in CC : Revoke(c)
            \/ \E s \in SS : Lapse(s)
            \/ UNCHANGED sessions
            BY DEF CredStep, Invite, Enroll, Add, Login, Confirm, Begun, Consume, Refused,
                   Reinvite, Expire, credentials
      <2>7. QED
            BY <2>1, <2>2, <2>3, <2>4, <2>5, <2>6
<1>2. sessions'[x] # 0 /\ None \notin KK
      BY <1>1 DEF KK
<1>3. ASSUME session(x)'
      PROVE  /\ session(x) /\ sessions'[x] = sessions[x]
             /\ MemberOf(x)' = MemberOf(x)
             /\ era'[MemberOf(x)] = era[MemberOf(x)]
      <2>1. /\ sessions[x] \in KK /\ sessions'[x] = sessions[x]
            /\ ~keys'[sessions[x]].revoked
            BY <1>1, <1>2, <1>3 DEF session
      <2>2. keys[sessions[x]] # None /\ keys[sessions[x]] \in Key
            BY <2>1 DEF CredInv, OnRecord
      <2>3. session(x) /\ MemberOf(x)' = MemberOf(x)
            BY <2>1, <2>2, KeysStay DEF session, MemberOf
      <2>4. MemberOf(x) \in Members
            BY <2>2 DEF MemberOf, Key
      <2>5. CASE \E c \in CC, k \in KK, s \in SS : Register(c, k, s)
            <3>1. PICK c \in CC, k \in KK, s \in SS : Register(c, k, s)
                  BY <2>5
            <3>2. CASE Recovering(c) /\ MemberOf(x) = ceremonies[c].member
                  <4>1. x # s /\ sessions[x] \in Evicted(c)
                        BY <3>1, <3>2, <2>1, <2>2, RegisterEffect DEF KeysOf, MemberOf, Evicted
                  <4>2. sessions'[x] = None
                        BY <3>1, <3>2, <4>1, RegisterEffect
                  <4>3. QED
                        BY <4>2, <2>1, <1>2
            <3>3. CASE ~(Recovering(c) /\ MemberOf(x) = ceremonies[c].member)
                  BY <3>1, <3>3, <2>3, <2>1, <2>4, RegisterEffect DEF EraAfter
            <3>4. QED
                  BY <3>2, <3>3
      <2>6. CASE UNCHANGED era
            BY <2>1, <2>3, <2>6
      <2>7. (\E c \in CC, k \in KK, s \in SS : Register(c, k, s)) \/ UNCHANGED era
            BY DEF CredStep, Invite, Enroll, Add, Login, Confirm, Begun, Consume, Refused,
                   SignedIn, Revoke, Reinvite, Lapse, Expire, credentials
      <2>8. QED
            BY <2>5, <2>6, <2>7
<1>4. QED
      BY <1>2, <1>3

\* What a ceremony under way is: as before but for its phase, or begun just now.
LEMMA CeremoniesMove ==
    ASSUME Inv, CredStep, NEW c \in CC, ceremonies'[c] # None
    PROVE  LET r == ceremonies'[c]
               q == ceremonies[c] IN
           \/ /\ q # None /\ r.kind = q.kind /\ r.member = q.member /\ r.era = q.era
              /\ r.token = q.token /\ r.session = q.session /\ r.op = q.op
           \/ /\ UNCHANGED credentials
              /\ \/ \E t \in tokens : Enroll(c, t)
                 \/ \E s \in SS : Add(c, s)
                 \/ Login(c) \/ \E s \in SS, op \in Ops : Confirm(c, s, op)
<1> USE DEF Inv, TypeOK
<1>1. ASSUME NEW d \in CC, NEW value, Begun(d, value), c # d
      PROVE  ceremonies'[c] = ceremonies[c]
      BY <1>1 DEF Begun
<1>2. ASSUME NEW d \in CC, Finishing(d)
      PROVE  c # d /\ ceremonies'[c] = ceremonies[c]
      BY <1>2 DEF Finishing
<1>3. ASSUME NEW d \in CC, Consume(d)
      PROVE  \/ ceremonies'[c] = ceremonies[c]
             \/ /\ ceremonies[c] \in Ceremony /\ ceremonies[c] # None
                /\ ceremonies'[c] = [ceremonies[c] EXCEPT !.phase = "consumed"]
      BY <1>3 DEF Consume
<1>4. CASE \E d \in CC : Consume(d)
      BY <1>3, <1>4 DEF Ceremony
<1>5. CASE \E d \in CC, t \in tokens : Enroll(d, t)
      BY <1>1, <1>5 DEF Enroll, Begun
<1>6. CASE \E d \in CC, s \in SS : Add(d, s)
      BY <1>1, <1>6 DEF Add, Begun
<1>7. CASE \E d \in CC : Login(d)
      BY <1>1, <1>7 DEF Login, Begun
<1>8. CASE \E d \in CC, s \in SS, op \in Ops : Confirm(d, s, op)
      BY <1>1, <1>8 DEF Confirm, Begun
<1>9. CASE (\E d \in CC : Finishing(d)) \/ UNCHANGED ceremonies
      BY <1>2, <1>9
<1>10. QED
      BY <1>4, <1>5, <1>6, <1>7, <1>8, <1>9
         DEF CredStep, Invite, Refused, Register, SignedIn, Revoke, Reinvite, Lapse, Expire

\* A ceremony goes on knowing its member, because numbers are not reused and
\* recovery ends the member's sessions.
LEMMA CeremoniesKnowStep == ASSUME Inv, CredStep PROVE CeremoniesKnow' /\ Confirms'
<1> USE ConstantsAssumption DEF Inv, TypeOK, CredInv
<1>1. ASSUME NEW c \in CC, ceremonies'[c] # None, ceremonies'[c].kind = "register"
      PROVE  Knows(c)'
      <2> DEFINE q == ceremonies[c]
      <2>1. ASSUME q # None, ceremonies'[c].kind = q.kind, ceremonies'[c].member = q.member,
                   ceremonies'[c].era = q.era, ceremonies'[c].token = q.token,
                   ceremonies'[c].session = q.session
            PROVE  Knows(c)'
            <3>0. Knows(c) /\ q \in Ceremony
                  BY <2>1 DEF CeremoniesKnow
            <3>1. /\ q.kind = "register" /\ q.member \in Members
                  /\ q.era <= era[q.member] /\ q.era \in Nat
                  BY <1>1, <2>1, <3>0 DEF Knows, Ceremony
            <3>2. era[q.member] \in Nat /\ era'[q.member] \in Nat
                  BY <3>1, CredTypes
            <3>3. q.era <= era'[q.member]
                  BY <3>1, <3>2, ErasMove
            <3>4. ASSUME q.token # None
                  PROVE  /\ q.token <= issued'
                         /\ \A t \in tokens' : t.id = q.token => t.member = q.member
                  <4>1. /\ q.token \in Nat /\ q.token <= issued
                        /\ \A t \in tokens : t.id = q.token => t.member = q.member
                        BY <2>1, <3>0, <3>1, <3>4 DEF Knows, Ceremony
                  <4>2. QED
                        BY <4>1, TokensMove
            <3>5. ASSUME q.token = None, NEW x \in SS, x = q.session
                  PROVE  /\ sessions'[x] # 0
                         /\ session(x)' => MemberOf(x)' = q.member /\ q.era = era'[q.member]
                  <4>1. /\ sessions[x] # 0
                        /\ session(x) => MemberOf(x) = q.member /\ q.era = era[q.member]
                        BY <2>1, <3>0, <3>1, <3>5 DEF Knows
                  <4>2. QED
                        BY <4>1, SessionsMove
            <3>6. q.token = None => q.session \in SS
                  BY <2>1, <3>0, <3>1 DEF Knows
            <3> HIDE DEF q
            <3>7. QED
                  BY <2>1, <3>1, <3>3, <3>4, <3>5, <3>6 DEF Knows, session, MemberOf
      <2>2. ASSUME NEW t \in tokens, Enroll(c, t), UNCHANGED credentials
            PROVE  Knows(c)'
            <3>1. /\ ceremonies'[c].token = t.id /\ ceremonies'[c].member = t.member
                  /\ ceremonies'[c].era = era[t.member]
                  /\ t.id \in Nat /\ t.member \in Members
                  BY <2>2 DEF Enroll, Begun, Token
            <3>2. QED
                  BY <2>2, <3>1 DEF Knows, TokensApart, credentials
      <2>3. ASSUME NEW s \in SS, Add(c, s), UNCHANGED credentials
            PROVE  Knows(c)'
            <3>1. /\ ceremonies'[c].token = None /\ ceremonies'[c].session = s
                  /\ ceremonies'[c].member = MemberOf(s)
                  /\ ceremonies'[c].era = era[MemberOf(s)] /\ session(s)
                  BY <2>3 DEF Add, Begun
            <3>2. sessions[s] # 0 /\ MemberOf(s) \in Members
                  BY <3>1 DEF session, MemberOf, OnRecord, Key, KK
            <3>3. sessions' = sessions /\ keys' = keys /\ era' = era
                  BY <2>3 DEF credentials
            <3>4. MemberOf(s)' = MemberOf(s)
                  BY <3>3 DEF MemberOf
            <3>5. era[MemberOf(s)] <= era[MemberOf(s)]
                  BY <3>2
            <3>6. QED
                  BY <3>1, <3>2, <3>3, <3>4, <3>5 DEF Knows, MemberOf
      <2>4. ~Login(c) /\ \A s \in SS, op \in Ops : ~Confirm(c, s, op)
            BY <1>1 DEF Login, Confirm, Begun
      <2>5. QED
            BY <1>1, <2>1, <2>2, <2>3, <2>4, CeremoniesMove
<1>2. ASSUME NEW c \in CC, ceremonies'[c] # None, ceremonies'[c].kind = "confirm"
      PROVE  ceremonies'[c].op \in Ops
      <2>1. CASE /\ ceremonies[c] # None /\ ceremonies'[c].kind = ceremonies[c].kind
                 /\ ceremonies'[c].op = ceremonies[c].op
            BY <1>2, <2>1 DEF Confirms
      <2>2. CASE \E s \in SS, op \in Ops : Confirm(c, s, op)
            BY <2>2 DEF Confirm, Begun
      <2>3. (\A t \in tokens : ~Enroll(c, t)) /\ (\A s \in SS : ~Add(c, s)) /\ ~Login(c)
            BY <1>2 DEF Enroll, Add, Login, Begun
      <2>4. QED
            BY <1>2, <2>1, <2>2, <2>3, CeremoniesMove
<1>3. QED
      <2>1. \A c \in CC : ceremonies'[c] = None \/ ceremonies'[c].kind # "register" => Knows(c)'
            BY DEF Knows
      <2>2. QED
            BY <1>1, <1>2, <2>1 DEF CeremoniesKnow, Confirms

\* Only a registration gives a member a passkey.
LEMMA KeysOfMove ==
    ASSUME Inv, CredStep, NEW m \in Members
    PROVE  \/ KeysOf(m)' = KeysOf(m)
           \/ \E c \in CC, k \in KK, s \in SS : Register(c, k, s) /\ ceremonies[c].member = m
<1> USE ConstantsAssumption DEF Inv, TypeOK
<1>1. ASSUME NEW x \in KK, keys[x] = None, keys'[x] # None
      PROVE  \E c \in CC, k \in KK, s \in SS :
                Register(c, k, s) /\ ceremonies[c].member = keys'[x].member
      <2>1. CASE \E c \in CC, k \in KK, s \in SS : Register(c, k, s)
            <3>1. PICK c \in CC, k \in KK, s \in SS : Register(c, k, s)
                  BY <2>1
            <3>2. x = k
                  BY <1>1, <3>1, RegisterEffect
            <3>3. QED
                  BY <3>1, <3>2, RegisterEffect
      <2>2. CASE \E c \in CC : Revoke(c)
            BY <1>1, <2>2 DEF Revoke, Revoked
      <2>3. CASE UNCHANGED keys
            BY <1>1, <2>3
      <2>4. \/ \E c \in CC, k \in KK, s \in SS : Register(c, k, s)
            \/ \E c \in CC : Revoke(c)
            \/ UNCHANGED keys
            BY DEF CredStep, Invite, Enroll, Add, Login, Confirm, Begun, Consume, Refused,
                   SignedIn, Reinvite, Lapse, Expire, credentials
      <2>5. QED
            BY <2>1, <2>2, <2>3, <2>4
<1>2. CASE \E x \in KK : keys[x] = None /\ keys'[x] # None /\ keys'[x].member = m
      BY <1>1, <1>2
<1>3. CASE \A x \in KK : ~(keys[x] = None /\ keys'[x] # None /\ keys'[x].member = m)
      BY <1>3, KeysStay DEF KeysOf
<1>4. QED
      BY <1>2, <1>3

\* A session is opened for a passkey that is there and not revoked, and
\* revoking ends the sessions of what it revokes.
LEMMA EvictedStep == ASSUME Inv, CredStep PROVE OnRecord' /\ EvictedByRecovery'
<1> USE ConstantsAssumption DEF Inv, TypeOK, CredInv
<1>1. ASSUME NEW m \in Members, KeysOf(m)' = {}
      PROVE  era'[m] = 0
      <2>1. KeysOf(m) = {}
            BY <1>1, KeysStay DEF KeysOf
      <2>2. QED
            BY <1>1, <2>1, ErasMove DEF OnRecord
<1>2. ASSUME NEW x \in SS, sessions'[x] \in KK
      PROVE  keys'[sessions'[x]] # None /\ ~keys'[sessions'[x]].revoked
      <2>1. CASE \E c \in CC, k \in KK, s \in SS : Register(c, k, s)
            <3>1. PICK c \in CC, k \in KK, s \in SS : Register(c, k, s)
                  BY <2>1
            <3>2. CASE x = s
                  BY <3>1, <3>2, RegisterEffect
            <3>3. CASE x # s
                  <4>1. sessions'[x] = sessions[x] /\ sessions[x] \notin Evicted(c)
                        BY <1>2, <3>1, <3>3, RegisterEffect DEF KK
                  <4>2. keys[sessions[x]] # None /\ ~keys[sessions[x]].revoked
                        BY <1>2, <4>1 DEF OnRecord, EvictedByRecovery
                  <4>3. sessions[x] # k
                        BY <3>1, <4>2, RegisterEffect
                  <4>4. keys'[sessions[x]] = keys[sessions[x]]
                        BY <1>2, <3>1, <4>1, <4>3, RegisterEffect
                  <4>5. QED
                        BY <4>1, <4>2, <4>4
            <3>4. QED
                  BY <3>2, <3>3
      <2>2. CASE \E c \in CC, k \in KK, s \in SS : SignedIn(c, k, s)
            BY <1>2, <2>2 DEF SignedIn, create_session, OnRecord, EvictedByRecovery
      <2>3. CASE \E c \in CC : Revoke(c)
            <3>1. PICK c \in CC : Revoke(c)
                  BY <2>3
            <3>2. sessions[x] # ceremonies[c].op.key /\ sessions'[x] = sessions[x]
                  BY <1>2, <3>1 DEF Revoke, Ended, KK
            <3>3. keys'[sessions[x]] = keys[sessions[x]]
                  BY <1>2, <3>1, <3>2 DEF Revoke, Revoked
            <3>4. QED
                  BY <1>2, <3>2, <3>3 DEF OnRecord, EvictedByRecovery
      <2>4. CASE UNCHANGED keys /\ sessions'[x] \in {None, sessions[x]}
            BY <1>2, <2>4 DEF OnRecord, EvictedByRecovery, KK
      <2>5. \/ \E c \in CC, k \in KK, s \in SS : Register(c, k, s)
            \/ \E c \in CC, k \in KK, s \in SS : SignedIn(c, k, s)
            \/ \E c \in CC : Revoke(c)
            \/ UNCHANGED keys /\ sessions'[x] \in {None, sessions[x]}
            BY DEF CredStep, Invite, Enroll, Add, Login, Confirm, Begun, Consume, Refused,
                   Reinvite, Lapse, Expire, credentials
      <2>6. QED
            BY <2>1, <2>2, <2>3, <2>4, <2>5
<1>3. ASSUME NEW x \in KK, keys'[x] # None, ~keys'[x].revoked
      PROVE  keys'[x].era = era'[keys'[x].member]
      <2>1. CASE \E c \in CC, k \in KK, s \in SS : Register(c, k, s)
            <3>1. PICK c \in CC, k \in KK, s \in SS : Register(c, k, s)
                  BY <2>1
            <3> DEFINE m == ceremonies[c].member
            <3>2. /\ m \in Members
                  /\ era' = [era EXCEPT ![m] = EraAfter(c)]
                  BY <3>1, RegisterEffect
            <3>3. CASE x = k
                  <4>1. /\ keys'[x].member = m
                        /\ keys'[x].era = IF Recovering(c) THEN era[m] + 1 ELSE ceremonies[c].era
                        BY <3>1, <3>3, RegisterEffect
                  <4>2. QED
                        BY <3>1, <3>2, <4>1, PresentEra DEF EraAfter
            <3>4. CASE x # k
                  <4>1. /\ keys[x] # None /\ keys[x] \in Key
                        /\ keys'[x].member = keys[x].member /\ keys'[x].era = keys[x].era
                        /\ ~keys[x].revoked
                        <5>1. keys[x] # None
                              BY <1>3, <3>1, <3>4, RegisterEffect
                        <5>2. QED
                              BY <1>3, <5>1, KeysStay
                  <4>2. keys[x].era = era[keys[x].member] /\ keys[x].member \in Members
                        BY <4>1 DEF EvictedByRecovery, Key
                  <4>3. Recovering(c) => keys[x].member # m
                        <5>1. ASSUME Recovering(c), keys[x].member = m PROVE FALSE
                              <6>1. x \in Evicted(c)
                                    BY <4>1, <5>1 DEF KeysOf, Evicted
                              <6>2. keys'[x] = [keys[x] EXCEPT !.revoked = TRUE]
                                    BY <3>1, <3>4, <5>1, <6>1, RegisterEffect
                              <6>3. QED
                                    BY <1>3, <4>1, <6>2 DEF Key
                        <5>2. QED
                              BY <5>1
                  <4>4. QED
                        BY <3>2, <4>1, <4>2, <4>3 DEF EraAfter
            <3>5. QED
                  BY <3>3, <3>4
      <2>2. CASE UNCHANGED era
            <3>1. CASE keys[x] # None
                  <4>1. /\ keys'[x].member = keys[x].member /\ keys'[x].era = keys[x].era
                        /\ ~keys[x].revoked
                        BY <1>3, <3>1, KeysStay
                  <4>2. QED
                        BY <2>2, <3>1, <4>1 DEF EvictedByRecovery
            <3>2. CASE keys[x] = None
                  <4>1. PICK m \in Members : m = keys'[x].member
                        BY <1>3, CredTypes DEF Key
                  <4>2. KeysOf(m)' # KeysOf(m)
                        BY <1>3, <3>2, <4>1 DEF KeysOf
                  <4>3. QED
                        BY <2>1, <4>2, KeysOfMove
            <3>3. QED
                  BY <3>1, <3>2
      <2>3. (\E c \in CC, k \in KK, s \in SS : Register(c, k, s)) \/ UNCHANGED era
            BY DEF CredStep, Invite, Enroll, Add, Login, Confirm, Begun, Consume, Refused,
                   SignedIn, Revoke, Reinvite, Lapse, Expire, credentials
      <2>4. QED
            BY <2>1, <2>2, <2>3
<1>4. QED
      BY <1>1, <1>2, <1>3 DEF OnRecord, EvictedByRecovery

\* What is left of a member's tokens after they registered.
LEMMA CodesAfterRegister ==
    ASSUME Inv, NEW c \in CC, NEW k \in KK, NEW s \in SS, Register(c, k, s),
           NEW m \in Members
    PROVE  IF m # ceremonies[c].member
           THEN {t \in tokens' : t.member = m} \subseteq {t \in tokens : t.member = m}
                /\ Codes(m)' = Codes(m)
           ELSE /\ \E t \in tokens' : Codes(m)' = {t}
                /\ \A t \in tokens' : t.member = m => t.kind # "invitation"
<1> USE ConstantsAssumption DEF Inv, TypeOK, CredInv
<1>1. PICK r \in Members : r = ceremonies[c].member /\ tokens' = Left(c, r)
      BY RegisterEffect DEF Register
<1>2. PICK n : n = [id |-> issued + 1, member |-> r, kind |-> "recovery"]
      OBVIOUS
<1> HIDE DEF Inv, TypeOK, CredInv
<1>3. CASE KeysOf(r) = {} \/ Recovering(c)
      <2>1. tokens' = {t \in tokens : t.member # r} \cup {n}
            BY <1>1, <1>2, <1>3 DEF Left
      <2>2. n.member = r /\ n.kind = "recovery"
            BY <1>2
      <2>3. n \in tokens' /\ Codes(r)' = {n}
            BY <2>1, <2>2 DEF Codes
      <2>4. \A t \in tokens' : t.member = r => t.kind # "invitation"
            BY <2>1, <2>2
      <2>5. m # r => /\ {t \in tokens' : t.member = m} = {t \in tokens : t.member = m}
                     /\ Codes(m)' = Codes(m)
            BY <2>1, <2>2 DEF Codes
      <2>6. QED
            BY <1>1, <2>3, <2>4, <2>5
<1>4. CASE KeysOf(r) # {} /\ ~Recovering(c)
      <2>1. tokens' = tokens \ Grant(c)
            BY <1>1, <1>4 DEF Left
      <2>2. \A t \in Grant(c) : t.kind # "recovery"
            BY <1>4 DEF Recovering
      <2>3. \A x \in Members : Codes(x)' = Codes(x)
            BY <2>1, <2>2 DEF Codes
      <2>4. PICK t \in tokens : Codes(r) = {t}
            BY <1>1, <1>4 DEF OneCode, Inv, CredInv
      <2>5. t.kind = "recovery"
            BY <2>4 DEF Codes
      <2>6. t \in tokens' /\ Codes(r)' = {t}
            BY <1>1, <2>1, <2>2, <2>3, <2>4, <2>5
      <2>7. \A u \in tokens' : u.member = r => u.kind # "invitation"
            BY <1>1, <1>4, <2>1 DEF OneCode, Inv, CredInv
      <2>8. QED
            BY <1>1, <2>1, <2>3, <2>6, <2>7
<1>5. QED
      BY <1>3, <1>4

\* One way back: issuing voids the unused ones of its kind, registering all.
LEMMA OneCodeStep == ASSUME Inv, CredStep PROVE OneCode'
<1> USE ConstantsAssumption DEF Inv, TypeOK, CredInv
<1>1. ASSUME NEW m \in Members
      PROVE  IF KeysOf(m)' = {} THEN Codes(m)' = {}
             ELSE /\ \E t \in tokens' : Codes(m)' = {t}
                  /\ \A t \in tokens' : t.member = m => t.kind # "invitation"
      <2>1. CASE \E c \in CC, k \in KK, s \in SS : Register(c, k, s)
            <3>1. PICK c \in CC, k \in KK, s \in SS : Register(c, k, s)
                  BY <2>1
            <3>2. CASE m = ceremonies[c].member
                  <4>1. KeysOf(m)' # {}
                        BY <3>1, <3>2, RegisterEffect DEF KeysOf
                  <4>2. QED
                        BY <3>1, <3>2, <4>1, CodesAfterRegister
            <3>3. CASE m # ceremonies[c].member
                  <4>1. KeysOf(m)' = KeysOf(m)
                        <5>1. \A x \in KK : x # k => (keys'[x] # None <=> keys[x] # None)
                              BY <3>1, RegisterEffect, KeysStay
                        <5>2. QED
                              BY <3>1, <3>3, <5>1, RegisterEffect, KeysStay DEF KeysOf
                  <4>2. /\ Codes(m)' = Codes(m)
                        /\ {t \in tokens' : t.member = m} \subseteq {t \in tokens : t.member = m}
                        BY <3>1, <3>3, CodesAfterRegister
                  <4>3. QED
                        BY <4>1, <4>2 DEF OneCode, Codes
            <3>4. QED
                  BY <3>2, <3>3
      <2>2. CASE \A c \in CC, k \in KK, s \in SS : ~Register(c, k, s)
            <3>1. KeysOf(m)' = KeysOf(m)
                  BY <2>2, KeysOfMove
            <3>2. ASSUME NEW x \in Members, NEW kind \in {"invitation", "reinvite"},
                         Issue(x, kind), kind = "invitation" => KeysOf(x) = {}
                  PROVE  /\ Codes(m)' = Codes(m)
                         /\ KeysOf(m) # {} =>
                               \A t \in tokens' : t.member = m => t.kind # "invitation"
                  <4>1. PICK n : /\ n.member = x /\ n.kind = kind
                                 /\ tokens' = {t \in tokens : t.member # x \/ t.kind # kind} \cup {n}
                        BY <3>2 DEF Issue
                  <4>2. Codes(m)' = Codes(m)
                        BY <3>2, <4>1 DEF Codes
                  <4>3. QED
                        BY <3>2, <4>1, <4>2 DEF OneCode
            <3>3. /\ Codes(m)' = Codes(m)
                  /\ KeysOf(m) # {} => \A t \in tokens' : t.member = m => t.kind # "invitation"
                  <4>1. CASE \E x \in Members : Invite(x)
                        BY <3>2, <4>1 DEF Invite
                  <4>2. CASE \E c \in CC : Reinvite(c)
                        <5>1. PICK c \in CC : Reinvite(c)
                              BY <4>2
                        <5>2. ceremonies[c].op.member \in Members
                              BY <5>1 DEF Reinvite, Asserted, Finishing, Confirms, Ops
                        <5>3. QED
                              BY <3>2, <5>1, <5>2 DEF Reinvite
                  <4>3. CASE \E t \in tokens : Expire(t)
                        BY <4>3 DEF Expire, Codes, OneCode
                  <4>4. CASE UNCHANGED tokens
                        BY <4>4 DEF Codes, OneCode
                  <4>5. \/ \E x \in Members : Invite(x)
                        \/ \E c \in CC : Reinvite(c)
                        \/ \E t \in tokens : Expire(t)
                        \/ UNCHANGED tokens
                        BY <2>2 DEF CredStep, Enroll, Add, Login, Confirm, Begun, Consume, Refused,
                               SignedIn, Revoke, Lapse, credentials
                  <4>6. QED
                        BY <4>1, <4>2, <4>3, <4>4, <4>5
            <3>4. QED
                  BY <3>1, <3>3 DEF OneCode, Codes
      <2>3. QED
            BY <2>1, <2>2
<1>2. QED
      BY <1>1 DEF OneCode

-----------------------------------------------------------------------------
(* The invariant.                                                          *)

LEMMA InitInv == Init => Inv
<1> SUFFICES ASSUME Init PROVE Inv
    OBVIOUS
<1> USE ConstantsAssumption DEF Init
<1>1. TypeOK
      <2>1. [member |-> Owner, revoked |-> FALSE, era |-> 0] \in Key
            BY DEF Key
      <2>2. keys \in [KK -> Key \cup {None}]
            BY <2>1
      <2>3. tokens \subseteq Token
            BY DEF Token, Kinds
      <2>4. /\ sessions \in [SS -> 0 .. MaxKeys \cup {None}] /\ issued \in Nat
            /\ ceremonies \in [CC -> Ceremony \cup {None}] /\ era \in [Members -> Nat]
            OBVIOUS
      <2>5. /\ run \in Run \cup {None} /\ subscribed \in {"on", "off"} /\ open \subseteq References
            /\ replay \in [revision : Nat, controls : Controls, key : KK] \cup {None}
            /\ pusher \in [reference : References, result : Results \cup {None}] \cup {None}
            OBVIOUS
      <2>6. /\ delivery \in [References -> Delivery \cup {None}]
            /\ sends \in [References -> Nat] /\ inputs \in Nat /\ crashes \in Nat
            OBVIOUS
      <2>7. QED
            BY <2>2, <2>3, <2>4, <2>5, <2>6 DEF TypeOK
<1>2. /\ 1 \in KK /\ keys[1] # None /\ keys[1].member = Owner
      /\ ~keys[1].revoked /\ keys[1].era = 0
      /\ \A k \in KK : k # 1 => keys[k] = None
      <2>1. PICK x : x = [member |-> Owner, revoked |-> FALSE, era |-> 0]
            OBVIOUS
      <2>2. x \in Key /\ x.member = Owner /\ ~x.revoked /\ x.era = 0
            BY <2>1 DEF Key
      <2>3. 1 \in KK
            BY DEF KK
      <2>4. keys[1] = x
            BY <2>1, <2>3
      <2>5. x # None
            BY <2>2
      <2>6. \A k \in KK : k # 1 => keys[k] = None
            OBVIOUS
      <2>7. QED
            BY <2>2, <2>3, <2>4, <2>5, <2>6
<1>3. TokensApart /\ CeremoniesKnow /\ Confirms
      BY DEF TokensApart, CeremoniesKnow, Knows, Confirms
<1>4. OnRecord /\ EvictedByRecovery
      BY <1>2 DEF OnRecord, EvictedByRecovery, KK
<1>5. OneCode
      <2> DEFINE t == [id |-> 1, member |-> Owner, kind |-> "recovery"]
      <2>1. KeysOf(Owner) # {} /\ \A m \in Members : m # Owner => KeysOf(m) = {}
            BY <1>2 DEF KeysOf
      <2>2. Codes(Owner) = {t} /\ \A m \in Members : m # Owner => Codes(m) = {}
            BY DEF Codes
      <2>3. t \in tokens /\ \A u \in tokens : u.kind # "invitation"
            OBVIOUS
      <2> HIDE DEF t, Init
      <2>4. QED
            BY <2>1, <2>2, <2>3 DEF OneCode
<1>6. TwinInv /\ AttemptsCounted
      BY DEF TwinInv, ReplayKnown, SnapshotIsCurrent, AttemptsCounted
<1>7. QED
      BY <1>1, <1>3, <1>4, <1>5, <1>6 DEF Inv, CredInv

\* Steps of the run, of notifications and crashes leave passkeys as they are.
LEMMA CredQuiet == CredInv /\ UNCHANGED <<credentials, ceremonies>> => CredInv'
BY DEF CredInv, TokensApart, CeremoniesKnow, Knows, Confirms, OnRecord, OneCode, Codes,
       EvictedByRecovery, session, MemberOf, KeysOf, credentials

THEOREM Invariant == Spec => []Inv
<1>1. Inv /\ [Next]_vars => Inv'
      <2> SUFFICES ASSUME Inv, [Next]_vars PROVE Inv'
          OBVIOUS
      <2>1. CASE CredStep
            BY <2>1, TokensApartStep, CeremoniesKnowStep, EvictedStep, OneCodeStep,
               TypeStep, TwinStepInv, PushStepInv DEF Inv, CredInv
      <2>2. CASE UNCHANGED <<credentials, ceremonies>>
            BY <2>2, CredQuiet, TypeStep, TwinStepInv, PushStepInv DEF Inv
      <2>3. CredStep \/ UNCHANGED <<credentials, ceremonies>>
            BY Partition DEF Crash, vars, credentials
      <2>4. QED
            BY <2>1, <2>2, <2>3
<1>2. QED
      BY <1>1, InitInv, PTL DEF Spec

-----------------------------------------------------------------------------
(* Theorems.                                                               *)

\* The tables and the workers' memory stay well typed: in particular a snapshot
\* is never published for a run that is gone, and no delivery passes its three.
THEOREM TypeCorrect == Spec => []TypeOK
<1>1. Inv => TypeOK
      BY DEF Inv
<1>2. QED
      BY <1>1, Invariant, PTL

\* auth.register: whoever ever had a passkey holds one recovery code and no
\* invitation, however ceremonies begun with the same or with different tokens
\* interleave.
THEOREM WayBackIsUnique == Spec => []OneWayBack
<1>1. Inv => OneWayBack
      <2> SUFFICES ASSUME Inv, NEW m \in Members
                   PROVE  /\ KeysOf(m) # {} => Cardinality(Codes(m)) = 1
                          /\ KeysOf(m) = {} => Codes(m) = {}
                          /\ KeysOf(m) # {} =>
                                \A t \in tokens : t.member = m => t.kind # "invitation"
          BY DEF OneWayBack, Codes
      <2>1. \A t : Cardinality({t}) = 1
            BY FS_Singleton
      <2>2. QED
            BY <2>1 DEF Inv, CredInv, OneCode
<1>2. QED
      BY <1>1, Invariant, PTL

\* auth.register, create_session: no passkey registered before a recovery, or by
\* a ceremony begun before it, is current after it, nor is any session of one.
THEOREM RecoveryEvicts == Spec => []EvictedByRecovery
<1>1. Inv => EvictedByRecovery
      BY DEF Inv, CredInv
<1>2. QED
      BY <1>1, Invariant, PTL

\* twin.advance: what is published as current was replayed from the current
\* revision's controls, however commands and crashes fall.
THEOREM SnapshotsAreCurrent == Spec => []SnapshotIsCurrent
<1>1. Inv => SnapshotIsCurrent
      BY DEF Inv, TwinInv
<1>2. QED
      BY <1>1, Invariant, PTL

\* push.advance: an attempt is counted before the message leaves, so that no
\* number of crashes makes a fourth one.
THEOREM NoFourthAttempt == Spec => []ThreeAttempts
<1>1. Inv => ThreeAttempts
      BY ConstantsAssumption DEF Inv, TypeOK, AttemptsCounted, ThreeAttempts, Delivery
<1>2. QED
      BY <1>1, Invariant, PTL
=============================================================================
