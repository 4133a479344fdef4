------------------------------ MODULE Contacts ------------------------------
(***************************************************************************)
(* Trusted contacts (hirz/contacts, hirz/companion/contacts.py) and the      *)
(* protection built on them (hirz/protect, hirz/mcp/trust.py): enrolment of  *)
(* a channel, checking a reported request with the contact, receipts of the  *)
(* reply and courier warnings.                                              *)
(*                                                                         *)
(* One database transaction is one step; p.repo.write serializes them.  The  *)
(* worker claims an email in one transaction, talks to the mail server       *)
(* outside any, and records the result in another; it may stop in between.   *)
(*                                                                         *)
(* Abstractions.  Whether the rules, an approval, a passkey or an account    *)
(* allow a step (module Approvals) is a choice.  A case is about one contact  *)
(* and one reported request; hashes and tokens are the row they belong to,    *)
(* so a reply carries the right one.  The contact key is configured.  All     *)
(* clocks are the wall clock.                                                *)
(***************************************************************************)
EXTENDS Integers, FiniteSets, Functions

CONSTANTS
    People,         \* trusted contacts of the household
    Links,          \* rows of contact_links
    Cases,          \* verification cases; each has at most one check-in job
    ContactOf,      \* the contact of a link or a case
    Kind,           \* app or email, of a link
    Answers,        \* what a contact may reply
    MaxTime,        \* bound of the clock
    Ttl,            \* reply deadline of a check, by kind
    InviteTtl,      \* life of an invitation, by kind
    ApprovalTtl,    \* life of an approval
    CourierTtl,     \* life of a courier warning
    Backoff,        \* delay after an attempt, times the attempts
    MaxAttempts,    \* transport attempts of a row (3)
    Caps,           \* rolling limits [window, limit, each]: each counts per contact
    MaxCrashes      \* stops of a worker

Kinds == {"app", "email"}
None == "none"
ASSUME ContactsAssumption ==
    /\ ContactOf \in [Links \cup Cases -> People] /\ Kind \in [Links -> Kinds]
    /\ {Ttl, InviteTtl} \subseteq [Kinds -> Nat \ {0}]
    /\ {MaxTime, ApprovalTtl, CourierTtl, Backoff, MaxAttempts, MaxCrashes} \subseteq Nat
    /\ Caps \subseteq [window : Nat, limit : Nat, each : BOOLEAN]
    /\ Links \cap Cases = {} /\ None \notin Links \cup Cases
    /\ IsFiniteSet(People) /\ IsFiniteSet(Links \cup Cases)
    /\ Answers \cap {None, "reported", "pending", "no_answer"} = {}

VARIABLES
    now,
    people,     \* trusted_contacts that are not archived
    links,      \* contact_links
    cases,      \* the documents of verification_cases
    jobs,       \* checkin_jobs, by case
    receipts,   \* checkin_receipts, by case
    hand,       \* what the contact worker holds between two transactions
    mail,       \* links and cases whose email reached the mailbox
    sends,      \* transport attempts and publications so far, by contact and time
    crashes

vars == <<now, people, links, cases, jobs, receipts, hand, mail, sends, crashes>>

Time == 0..MaxTime
Deadline == Nat
Link == [status : {None, "pending", "confirmed", "active", "revoked"},
         created : Time, expires : Deadline, delivery : {"pending", "sending", "sent", "failed"},
         attempts : 0..MaxAttempts, next : Deadline]
\* A courier warning; warned is its deadline, then the time it was published.
Warning == {None, "pending", "published", "stopped"}
\* check: verification.status; reported: the case is assessed and no check
\* was started.
Case == [check : {None, "reported", "pending", "no_answer"} \cup Answers,
         source : {None, "real", "twin"}, expires : Deadline,
         contact : Warning, channel : Links \cup {None}, warned : Deadline]
\* until: the life of the approval; 0 once it is refused or redeemed.
Job == [status : {None, "approval", "pending", "sending", "sent", "closed"},
        link : Links \cup {None}, attempts : 0..MaxAttempts, created : Time,
        expires : Deadline, next : Deadline, until : Deadline]
Hand == [on : Links \cup Cases \cup {None}, attempts : 0..MaxAttempts,
         result : {None, "sent", "failed", "refused"}]

\* Type invariant of the contacts, the cases and the workers.
TypeOK ==
    /\ now \in Time /\ people \subseteq People
    /\ links \in [Links -> Link] /\ cases \in [Cases -> Case]
    /\ jobs \in [Cases -> Job] /\ receipts \in [Cases -> Answers \cup {None}]
    /\ hand \in Hand /\ mail \subseteq Links \cup Cases
    /\ sends \in [People -> [Time -> Nat]] /\ crashes \in 0..MaxCrashes

NoLink == [status |-> None, created |-> 0, expires |-> 0, delivery |-> "pending",
           attempts |-> 0, next |-> 0]
NoCase == [check |-> None, source |-> None, expires |-> 0,
           contact |-> None, channel |-> None, warned |-> 0]
NoJob == [status |-> None, link |-> None, attempts |-> 0, created |-> 0, expires |-> 0,
          next |-> 0, until |-> 0]
Idle == [on |-> None, attempts |-> 0, result |-> None]

Init ==
    /\ now = 0 /\ people = People
    /\ links = [l \in Links |-> NoLink]
    /\ cases = [k \in Cases |-> NoCase] /\ jobs = [k \in Cases |-> NoJob]
    /\ receipts = [k \in Cases |-> None]
    /\ hand = Idle /\ mail = {}
    /\ sends = [c \in People |-> [t \in Time |-> 0]] /\ crashes = 0

Active(l) == links[l].status = "active"
\* The bound of the clock leaves room for what a step starts.
Room(ttl) == now + ttl <= MaxTime
Sent(c) == sends' = [sends EXCEPT ![c][now] = @ + 1]

-----------------------------------------------------------------------------
(* Enrolment of a channel: service.command, accept and mailbox.            *)

\* command(invite) by the owner; an app invitation is handed over in person.
Invite(l) ==
    /\ links[l].status = None /\ ContactOf[l] \in people /\ Room(InviteTtl[Kind[l]])
    /\ links' = [links EXCEPT ![l] = [NoLink EXCEPT !.status = "pending", !.created = now,
                                                    !.expires = now + InviteTtl[Kind[l]]]]
    /\ UNCHANGED <<now, people, cases, jobs, receipts, hand, mail, sends, crashes>>

\* mailbox(): the private link in an email, of an invitation or of a check.
Mailbox(x) == x \in mail

\* command(accept) with the recipient's passkey, or the mailbox capability.
Accept(l) ==
    /\ links[l].status = "pending" /\ links[l].expires > now
    /\ Kind[l] = "email" => Mailbox(l)
    /\ links' = [links EXCEPT ![l].status = "confirmed"]
    /\ UNCHANGED <<now, people, cases, jobs, receipts, hand, mail, sends, crashes>>

\* command(confirm) by the owner revokes the link it replaces.
Confirm(l) ==
    /\ links[l].status = "confirmed" /\ links[l].expires > now /\ ContactOf[l] \in people
    /\ links' = [m \in Links |->
                    IF m = l THEN [links[m] EXCEPT !.status = "active"]
                    ELSE IF ContactOf[m] = ContactOf[l] /\ Kind[m] = Kind[l] /\ Active(m)
                    THEN [links[m] EXCEPT !.status = "revoked"]
                    ELSE links[m]]
    /\ UNCHANGED <<now, people, cases, jobs, receipts, hand, mail, sends, crashes>>

\* command(revoke) by the owner of any link, command(withdraw) by its recipient.
Revoke(l) ==
    /\ links[l].status \notin {None, "revoked"}
    /\ ContactOf[l] \in people \/ (Kind[l] = "app" /\ links[l].status \in {"active", "confirmed"})
    /\ links' = [links EXCEPT ![l].status = "revoked"]
    /\ UNCHANGED <<now, people, cases, jobs, receipts, hand, mail, sends, crashes>>

-----------------------------------------------------------------------------
(* A reported request and its check: trust.assess, trust.verify,            *)
(* checkins.start, queued, reply and receipt.                              *)

\* Rolling limits: count[x] is what x puts into the window of a cap.
Scope(cap, c) == IF cap.each THEN {c} ELSE People
Of(who) == {x \in Links \cup Cases : ContactOf[x] \in who}
Within(cap, c, count) == SumFunctionOnSet(count, Of(Scope(cap, c))) < cap.limit

\* trust.assess(): record_verification(assess).  A retry is a new case, copied
\* from a finished one.
Assess(k) ==
    /\ cases[k].check = None /\ Room(ApprovalTtl + Ttl["email"])
    /\ cases' = [cases EXCEPT ![k].check = "reported"]
    /\ UNCHANGED <<now, people, links, jobs, receipts, hand, mail, sends, crashes>>

\* queued(): the check is recorded as started and its deadline runs.
Queued(k, j) ==
    LET expires == now + Ttl[Kind[j.link]] IN
    /\ cases' = [cases EXCEPT ![k].check = "pending", ![k].source = "real", ![k].expires = expires]
    /\ jobs' = [jobs EXCEPT ![k] = [j EXCEPT !.status = "pending", !.expires = expires,
                                              !.until = 0]]

\* selected(): a channel of the contact that may be used now.
selected(k, l) == ContactOf[l] = ContactOf[k] /\ ContactOf[k] \in people /\ Active(l)

\* start() on a channel selected() returns, which allows or asks.
Start(k, l) ==
    LET job == [NoJob EXCEPT !.status = "approval", !.link = l, !.created = now, !.next = now] IN
    /\ cases[k].check = "reported" /\ jobs[k].status = None
    /\ selected(k, l)
    /\ Room(ApprovalTtl + Ttl["email"])
    /\ \A cap \in Caps :
        Within(cap, ContactOf[k], [x \in Links \cup Cases |->
            IF x \in Cases /\ jobs[x].status # None /\ jobs[x].created >= now - cap.window
            THEN 1 ELSE 0])
    /\ \/ Queued(k, job)
       \/ jobs' = [jobs EXCEPT ![k] = [job EXCEPT !.until = now + ApprovalTtl]] /\ UNCHANGED cases
    /\ UNCHANGED <<now, people, links, receipts, hand, mail, sends, crashes>>

\* A simulated check, for a contact that never had a link (trust.verify).
Simulate(k) ==
    /\ cases[k].check = "reported" /\ jobs[k].status = None /\ Room(Ttl["app"])
    /\ ContactOf[k] \in people
    /\ \A l \in Links : ContactOf[l] = ContactOf[k] => links[l].status = None
    /\ cases' = [cases EXCEPT ![k].check = "pending", ![k].source = "twin",
                              ![k].expires = now + Ttl["app"]]
    /\ UNCHANGED <<now, people, links, jobs, receipts, hand, mail, sends, crashes>>

\* HouseholdTools.approve: an approving vote that redeems the approval queues
\* the check in the same transaction, or is rolled back.
Approve(k) ==
    /\ jobs[k].status = "approval" /\ jobs[k].until > now /\ Active(jobs[k].link)
    /\ Queued(k, jobs[k])
    /\ UNCHANGED <<now, people, links, receipts, hand, mail, sends, crashes>>

Reject(k) ==
    /\ jobs[k].status = "approval" /\ jobs[k].until > now
    /\ jobs' = [jobs EXCEPT ![k].until = 0]
    /\ UNCHANGED <<now, people, links, cases, receipts, hand, mail, sends, crashes>>

\* receipt(): the job as it is under the channel's lock.
Accepts(k) ==
    /\ jobs[k].status \in IF Kind[jobs[k].link] = "app" THEN {"sent"} ELSE {"pending", "sending", "sent"}
    /\ now < jobs[k].expires

\* reply() with a passkey, or the mailbox capability in an email: the first
\* reply is kept.
Reply(k, answer) ==
    LET l == jobs[k].link IN
    /\ l # None /\ Active(l) /\ receipts[k] = None
    /\ Kind[l] = "email" => Mailbox(k)
    /\ Accepts(k)
    /\ receipts' = [receipts EXCEPT ![k] = answer]
    /\ UNCHANGED <<now, people, links, cases, jobs, hand, mail, sends, crashes>>

-----------------------------------------------------------------------------
(* Ending a check.                                                         *)

\* close_inconsistent(): a case that does not wait for the job is left as it is.
Waiting(k) == cases[k].check \in {"reported", "pending"}

\* finish(): the case gets its answer and the job is closed.
Finish(ends, answer) ==
    /\ cases' = [k \in Cases |->
                    IF k \in ends /\ Waiting(k)
                    THEN [cases[k] EXCEPT !.check = answer[k],
                                          !.source = IF @ = None THEN "real" ELSE @]
                    ELSE cases[k]]
    /\ jobs' = [k \in Cases |->
                    IF k \in ends /\ jobs[k].status # None
                    THEN [jobs[k] EXCEPT !.status = "closed"] ELSE jobs[k]]

\* remove(): a reply that was accepted is the outcome.
Final(k) == IF receipts[k] = None THEN "no_answer" ELSE receipts[k]

\* companion.contacts.remove() by the owner.
Remove(c) ==
    /\ c \in people
    /\ people' = people \ {c}
    /\ links' = [l \in Links |->
                    IF ContactOf[l] = c /\ links[l].status # None
                    THEN [links[l] EXCEPT !.status = "revoked"] ELSE links[l]]
    /\ Finish({k \in Cases : /\ ContactOf[k] = c
                             /\ cases[k].check = "pending" \/ jobs[k].status = "approval"},
              [k \in Cases |-> Final(k)])
    /\ UNCHANGED <<now, receipts, hand, mail, sends, crashes>>

\* (mutant) revocation and the deadline come before the reply.
outcomeLate(k) ==
    LET j == jobs[k] IN
    IF ~Active(j.link) \/ now >= j.expires THEN "no_answer"
    ELSE IF receipts[k] # None THEN receipts[k]
    ELSE IF j.attempts >= MaxAttempts /\ j.status # "sent" /\ j.next <= now THEN "no_answer"
    ELSE None

\* checkins.advance(): how the check stands when the worker looks at it.
outcome(k) ==
    LET j == jobs[k] IN
    IF receipts[k] # None THEN receipts[k]
    ELSE IF \/ ~Active(j.link)
            \/ now >= j.expires
            \/ j.attempts >= MaxAttempts /\ j.status # "sent" /\ j.next <= now
    THEN "no_answer"
    ELSE None

\* checkins.advance() on a check that waits for its approval.
Lapse(k) ==
    /\ hand = Idle /\ jobs[k].status = "approval"
    /\ ~Active(jobs[k].link) \/ jobs[k].until <= now
    /\ Finish({k}, [x \in {k} |-> "no_answer"])
    /\ UNCHANGED <<now, people, links, receipts, hand, mail, sends, crashes>>

\* checkins.advance() on a check that was started.
Settle(k) ==
    /\ hand = Idle /\ jobs[k].status \in {"pending", "sending", "sent"}
    /\ outcome(k) # None
    /\ Finish({k}, [x \in {k} |-> outcome(x)])
    /\ UNCHANGED <<now, people, links, receipts, hand, mail, sends, crashes>>

\* The permission or the credential behind an unfinished check is gone
\* (delivery_allowed, credential_current).
Forbid(k) ==
    /\ hand = Idle
    /\ \/ jobs[k].status = "approval"
       \/ jobs[k].status \in {"pending", "sending"} /\ outcome(k) = None /\ jobs[k].next <= now
    /\ Finish({k}, [x \in {k} |-> "no_answer"])
    /\ UNCHANGED <<now, people, links, receipts, hand, mail, sends, crashes>>

\* trust.advance(): the script of a simulated contact, or the deadline.
Script(k) ==
    /\ hand = Idle /\ cases[k].check = "pending" /\ cases[k].source = "twin"
    /\ \E answer \in Answers \cup {"no_answer"} :
        /\ answer = "no_answer" <=> now >= cases[k].expires
        /\ cases' = [cases EXCEPT ![k].check = answer]
    /\ UNCHANGED <<now, people, links, jobs, receipts, hand, mail, sends, crashes>>

-----------------------------------------------------------------------------
(* Transport.                                                              *)

\* (mutant) only attempts that are recorded as sent count.
CountsSent(x, since) ==
    IF x \in Links
    THEN IF links[x].delivery = "sent" THEN links[x].attempts ELSE 0
    ELSE IF jobs[x].status \in {"sent", "closed"} THEN jobs[x].attempts ELSE 0

\* send_allowed(): all attempts of a row count while the row is recent.
Counts(x, since) ==
    IF x \in Links
    THEN IF links[x].status # None /\ (links[x].created >= since \/ links[x].next >= since)
         THEN links[x].attempts ELSE 0
    ELSE IF jobs[x].status # None /\ (jobs[x].created >= since \/ jobs[x].next >= since)
         THEN jobs[x].attempts ELSE 0
\* and the warnings published in the window.
Warned(x, since) ==
    IF x \in Cases /\ cases[x].contact = "published" /\ cases[x].warned >= since THEN 1 ELSE 0
Attempted(since) == [x \in Links \cup Cases |-> Counts(x, since) + Warned(x, since)]
send_allowed(c) == \A cap \in Caps : Within(cap, c, Attempted(now - cap.window))

\* checkins.advance() claims an attempt: an app check is in the recipient's
\* inbox, an email is sent after the commit.
Claim(k) ==
    LET j == jobs[k] IN
    /\ hand = Idle /\ j.status \in {"pending", "sending"}
    /\ outcome(k) = None /\ j.next <= now /\ send_allowed(ContactOf[k])
    /\ jobs' = [jobs EXCEPT ![k].status = IF Kind[j.link] = "app" THEN "sent" ELSE "sending",
                            ![k].attempts = @ + 1, ![k].next = now + Backoff * (j.attempts + 1)]
    /\ hand' = IF Kind[j.link] = "app" THEN Idle
               ELSE [Idle EXCEPT !.on = k, !.attempts = j.attempts + 1]
    /\ Sent(ContactOf[k])
    /\ UNCHANGED <<now, people, links, cases, receipts, mail, crashes>>

\* (mutant) a row left in "sending" by a stop is not looked at again.
UndeliveredPending(l) == Kind[l] = "email" /\ links[l].status = "pending" /\ links[l].delivery = "pending"

\* worker.advance(): mailbox confirmations that are still to be sent.
Undelivered(l) ==
    Kind[l] = "email" /\ links[l].status = "pending" /\ links[l].delivery \in {"pending", "sending"}

\* The invitation is over, or its attempts are used up.
GiveUp(l) ==
    /\ hand = Idle /\ Undelivered(l)
    /\ links[l].expires <= now \/ links[l].attempts >= MaxAttempts
    /\ links' = [links EXCEPT ![l].delivery = "failed"]
    /\ UNCHANGED <<now, people, cases, jobs, receipts, hand, mail, sends, crashes>>

ClaimInvitation(l) ==
    LET n == links[l].attempts + 1 IN
    /\ hand = Idle /\ Undelivered(l) /\ links[l].expires > now /\ n <= MaxAttempts
    /\ links[l].next <= now /\ send_allowed(ContactOf[l])
    /\ links' = [links EXCEPT ![l].delivery = "sending", ![l].attempts = n,
                              ![l].next = now + Backoff * n]
    /\ hand' = [Idle EXCEPT !.on = l, !.attempts = n]
    /\ Sent(ContactOf[l])
    /\ UNCHANGED <<now, people, cases, jobs, receipts, mail, crashes>>

\* send_email() outside any transaction: the mail may have got through
\* although the server's answer was lost.
Smtp ==
    /\ hand.on # None /\ hand.result = None
    /\ \E result \in {"sent", "failed", "refused"} :
        /\ hand' = [hand EXCEPT !.result = result]
        /\ mail' \in {m \in {mail, mail \cup {hand.on}} :
                        /\ result = "sent" => hand.on \in m
                        /\ result = "refused" => m = mail}
    /\ UNCHANGED <<now, people, links, cases, jobs, receipts, sends, crashes>>

\* The transaction after the attempt; a check closed meanwhile stays closed.
Attempts == IF hand.result = "refused" THEN MaxAttempts ELSE hand.attempts
Record ==
    LET x == hand.on IN
    /\ hand.result # None /\ hand' = Idle
    /\ IF x \in Cases
       THEN /\ UNCHANGED links
            /\ jobs' = IF jobs[x].status = "closed" THEN jobs
                       ELSE [jobs EXCEPT
                        ![x].status = IF hand.result = "sent" THEN "sent" ELSE "pending",
                        ![x].attempts = Attempts,
                        ![x].next = now + IF hand.result = "refused" THEN 0 ELSE Backoff * hand.attempts]
       ELSE /\ UNCHANGED jobs
            /\ links' = [links EXCEPT
                    ![x].delivery = IF hand.result = "sent" THEN "sent"
                                    ELSE IF Attempts >= MaxAttempts THEN "failed" ELSE "pending",
                    ![x].attempts = Attempts]
    /\ UNCHANGED <<now, people, cases, receipts, mail, sends, crashes>>

-----------------------------------------------------------------------------
(* Courier warnings.                                                       *)

\* trigger(): an unexpected press after a critical report, warned of once.
trigger(k) == cases[k].check # None /\ cases[k].contact = None

\* channel(): the app channels of the contact.
channel(k) == {l \in Links : selected(k, l) /\ Kind[l] = "app"}

\* courier.advance(), first half: a press opens a warning, to the contact's app
\* channel if one is active.
Press(k) ==
    /\ hand = Idle /\ trigger(k) /\ Room(CourierTtl)
    /\ LET found == channel(k) # {}
       IN  cases' = [cases EXCEPT
                ![k].warned = IF found THEN now + CourierTtl ELSE 0,
                ![k].contact = IF found THEN "pending" ELSE "stopped",
                ![k].channel = IF found THEN CHOOSE l \in channel(k) : TRUE ELSE None]
    /\ UNCHANGED <<now, people, links, jobs, receipts, hand, mail, sends, crashes>>

\* bound_channel(): the channel of the warning is still the contact's.
bound_channel(k) == ContactOf[k] \in people /\ Active(cases[k].channel)

\* deliver(): the warning is stopped, by a refusal or because it is late or its
\* channel is gone, or it is published once it has consent and the caps allow
\* it.
Deliver(k) ==
    /\ hand = Idle /\ cases[k].contact = "pending"
    /\ \/ /\ cases' = [cases EXCEPT ![k].contact = "stopped", ![k].warned = 0] /\ UNCHANGED sends
       \/ /\ now < cases[k].warned /\ bound_channel(k) /\ send_allowed(ContactOf[k])
          /\ cases' = [cases EXCEPT ![k].contact = "published", ![k].warned = now]
          /\ Sent(ContactOf[k])
    /\ UNCHANGED <<now, people, links, jobs, receipts, hand, mail, crashes>>

Tick ==
    /\ now < MaxTime /\ now' = now + 1
    /\ UNCHANGED <<people, links, cases, jobs, receipts, hand, mail, sends, crashes>>

\* The worker stops; it goes on from the rows.
Crash ==
    /\ crashes < MaxCrashes /\ crashes' = crashes + 1
    /\ hand # Idle /\ hand' = Idle
    /\ UNCHANGED <<now, people, links, cases, jobs, receipts, mail, sends>>

\* What a running worker does by itself, whatever the rules allow.
Worker ==
    \/ Smtp \/ Record
    \/ \E k \in Cases : Lapse(k) \/ Settle(k)
    \/ \E l \in Links : GiveUp(l)

Next ==
    \/ \E l \in Links : Invite(l) \/ Accept(l) \/ Confirm(l) \/ Revoke(l) \/ ClaimInvitation(l)
    \/ \E k \in Cases :
        \/ Assess(k) \/ Simulate(k) \/ Approve(k) \/ Reject(k) \/ Forbid(k) \/ Script(k)
        \/ Claim(k) \/ Press(k) \/ Deliver(k)
        \/ \E l \in Links : Start(k, l)
        \/ \E answer \in Answers : Reply(k, answer)
    \/ \E c \in People : Remove(c)
    \/ Worker \/ Tick \/ Crash

\* The worker loop runs again and again and time passes; attempts are not
\* assumed, the rules or the caps may refuse them for good.
Fairness == WF_vars(Worker) /\ WF_vars(Tick)

Spec == Init /\ [][Next]_vars /\ Fairness

-----------------------------------------------------------------------------
(* Properties.                                                             *)

\* A check ends with the reply of the contact if one was accepted before the
\* deadline, whenever the worker looks and whatever was revoked meanwhile, and
\* without one as unanswered: nothing arrives after the end (checkins.py:505,
\* 372, companion/contacts.py:122).
ReplyIsOutcome ==
    \A k \in Cases :
        /\ jobs[k].status = "closed" =>
            cases[k].check = IF receipts[k] = None THEN "no_answer" ELSE receipts[k]
        /\ jobs[k].status \in {"pending", "sending", "sent"} =>
            cases[k].check = "pending" /\ cases[k].source = "real"

\* What was sent to whom between two instants.
SentIn(from, to) ==
    [d \in People |->
        SumFunctionOnSet([u \in Time |-> IF from <= u /\ u <= to THEN sends[d][u] ELSE 0], Time)]

\* No window of a cap holds more attempts and warnings than its limit, crashed
\* attempts included (worker.py:203).
SendsCapped ==
    \A cap \in Caps, t \in Time, c \in People :
        SumFunctionOnSet(SentIn(t - cap.window, t), Scope(cap, c)) <= cap.limit

\* Every check that was started ends and every mailbox confirmation is sent or
\* given up, although the worker stops between the claim and the record
\* (checkins.py:519, worker.py:62).
Settles ==
    /\ \A k \in Cases :
        (jobs[k].status \in {"approval", "pending", "sending", "sent"}) ~> (jobs[k].status = "closed")
    /\ \A l \in {m \in Links : Kind[m] = "email"} :
        (links[l].status = "pending") ~>
            (links[l].status # "pending" \/ links[l].delivery \in {"sent", "failed"})
=============================================================================
