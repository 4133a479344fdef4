-------------------------------- MODULE Link ---------------------------------
(***************************************************************************)
(* Hirz Link, the home agent (hirz/link): signed command envelopes arrive  *)
(* late, twice or out of order; the agent journals a claim and the ending  *)
(* of a bounded command before it touches the device, and runs overdue     *)
(* endings from its own clock after any crash.                             *)
(*                                                                         *)
(* Agent.receive and Agent.recover hold one lock, so one task runs at a    *)
(* time; each journal transaction, each device request and each crash is a *)
(* step of its own.  The clock of the home may be set forwards or back.    *)
(* A device request either takes effect before it returns or never does.   *)
(***************************************************************************)
EXTENDS Integers, FiniteSets

CONSTANTS
    Envelopes,      \* signed envelopes, by nonce
    Targets,        \* device entities
    ActionOf,       \* [Envelopes -> action_id]: a command may be signed again
    HashOf,         \* [Envelopes -> content_hash]
    TargetOf,       \* [Envelopes -> Targets]
    From, Until,    \* [Envelopes -> Nat]: verify() accepts From <= at < Until
    Bounded,        \* envelopes whose action has a revert
    Due,            \* [Envelopes -> Nat]: scheduled_for + revert.after_s
    DedupWindow,    \* instants in the 24 hours a content_hash stays claimed
    MaxTime,        \* bound: last instant the clock shows
    MaxSkew,        \* bound: times the clock is set
    MaxCrash        \* bound: crashes

Nobody == "nobody"   \* no envelope
Rest == "rest"       \* the state a target is returned to by an ending

ASSUME LinkAssumption ==
    /\ Nobody \notin Envelopes /\ Rest \notin Envelopes
    /\ TargetOf \in [Envelopes -> Targets]
    /\ From \in [Envelopes -> Nat] /\ Until \in [Envelopes -> Nat]
    /\ Due \in [Envelopes -> Nat] /\ Bounded \subseteq Envelopes
    /\ \A e \in Envelopes : e \in Bounded => Until[e] <= Due[e]
    /\ DOMAIN ActionOf = Envelopes /\ DOMAIN HashOf = Envelopes
    /\ DedupWindow \in Nat /\ MaxTime \in Nat /\ MaxSkew \in Nat /\ MaxCrash \in Nat

VARIABLES
    clock,      \* the home's clock
    last,       \* settings.last_at, the latest time the journal has seen
    journal,    \* commands rows
    device,     \* per target: Rest, or the envelope whose command is in force
    posts,      \* opening requests sent to the device, per envelope
    pc,         \* where the task that holds the lock is
    msg,        \* the envelope being received, Nobody during a plain recover
    todo,       \* endings listed by due() and still to run
    current,    \* the envelope whose request has just returned
    matched,    \* what _apply concluded about it
    skews, crashes

task == <<pc, msg, todo, current, matched>>
vars == <<clock, last, journal, device, posts, task, skews, crashes>>

Row == [claimed : BOOLEAN, accepted : Nat, done : BOOLEAN,
        outcome : {"none", "verified", "failed"}]

\* Type invariant of the journal and of the agent's task.
TypeOK ==
    /\ clock \in Nat /\ last \in Nat
    /\ journal \in [Envelopes -> Row]
    /\ device \in [Targets -> Envelopes \cup {Rest}]
    /\ posts \in [Envelopes -> Nat]
    /\ pc \in {"down", "idle", "due", "ending", "ended", "reserve", "opening", "opened"}
    /\ msg \in Envelopes \cup {Nobody}
    /\ todo \in SUBSET Envelopes
    /\ current \in Envelopes \cup {Nobody}
    /\ matched \in BOOLEAN
    /\ skews \in Nat /\ crashes \in Nat

Init ==
    /\ clock = 0 /\ last = 0
    /\ journal = [e \in Envelopes |-> [claimed |-> FALSE, accepted |-> 0,
                                       done |-> FALSE, outcome |-> "none"]]
    /\ device = [t \in Targets |-> Rest]
    /\ posts = [e \in Envelopes |-> 0]
    /\ pc = "idle" /\ msg = Nobody /\ todo = {} /\ current = Nobody
    /\ matched = FALSE
    /\ skews = 0 /\ crashes = 0

-----------------------------------------------------------------------------
\* ending_due IS NOT NULL AND ending_done = 0
Pending(e) == journal[e].claimed /\ e \in Bounded /\ ~journal[e].done

\* verify(): the envelope's window and the action's own start and deadline.
Verified(e) == From[e] <= clock /\ clock < Until[e]

\* After the listed endings: back to idle, or on to the envelope received.
AfterEndings(rest) ==
    IF rest # {} THEN "ending" ELSE IF msg = Nobody THEN "idle" ELSE "reserve"

\* Agent.recover takes the lock.
Recover ==
    /\ pc = "idle" /\ pc' = "due" /\ msg' = Nobody
    /\ UNCHANGED <<clock, last, journal, device, posts, todo, current, matched, skews, crashes>>

\* Agent.receive takes the lock; any envelope may arrive any number of times.
Receive(e) ==
    /\ pc = "idle" /\ pc' = "due" /\ msg' = e
    /\ UNCHANGED <<clock, last, journal, device, posts, todo, current, matched, skews, crashes>>

\* (mutant) a clock behind last_at is taken at its word.
OverdueByClock == {e \in Envelopes : Pending(e) /\ Due[e] <= clock}

\* (mutant) only openings whose outcome was recorded are ended.
OverdueCompleted ==
    {e \in Envelopes : /\ Pending(e) /\ journal[e].outcome # "none"
                       /\ Due[e] <= clock \/ clock < last}

\* A clock behind last_at is uncertain: every pending ending is due at once.
Overdue == {e \in Envelopes : Pending(e) /\ (Due[e] <= clock \/ clock < last)}

\* Store.due: list the overdue endings and advance last_at, never back.
ListDue ==
    /\ pc = "due"
    /\ todo' = Overdue
    /\ last' = IF clock < last THEN last ELSE clock
    /\ pc' = AfterEndings(Overdue)
    /\ UNCHANGED <<clock, journal, device, posts, msg, current, matched, skews, crashes>>

\* Devices.__call__ on an ending: Store.authorized is asked again just before
\* the request; the request may be lost and its effect may go unseen.
ApplyEnding ==
    /\ pc = "ending"
    /\ \E e \in todo :
         /\ \A f \in todo : Due[e] <= Due[f]
         /\ current' = e
         /\ \/ /\ clock >= Due[e] \/ clock < last
               /\ device' = [device EXCEPT ![TargetOf[e]] = Rest]
               /\ matched' \in BOOLEAN
            \/ device' = device /\ matched' = FALSE
    /\ pc' = "ended"
    /\ UNCHANGED <<clock, last, journal, posts, msg, todo, skews, crashes>>

\* (mutant) an ending is closed by being tried.
EndingResultTried == TRUE

\* complete(reverting=True) stores ending_done = matched.
EndingResult == matched

CompleteEnding ==
    /\ pc = "ended"
    /\ journal' = [journal EXCEPT ![current].done = EndingResult]
    /\ todo' = todo \ {current}
    /\ pc' = AfterEndings(todo \ {current})
    /\ current' = Nobody
    /\ UNCHANGED <<clock, last, device, posts, msg, matched, skews, crashes>>

\* already_claimed: same nonce, same action, or same content within 24 hours.
AlreadyClaimed(e) ==
    \E f \in Envelopes :
        /\ journal[f].claimed
        /\ \/ f = e
           \/ ActionOf[f] = ActionOf[e]
           \/ HashOf[f] = HashOf[e] /\ journal[f].accepted > clock - DedupWindow

\* (mutant) a target with an unfinished ending accepts the next command.
EndingNeverBlocks(e) == FALSE

\* ending_pending_for_target
EndingPending(e) == \E f \in Envelopes : Pending(f) /\ TargetOf[f] = TargetOf[e]

Acceptable(e) ==
    /\ Verified(e)
    /\ clock >= last
    /\ ~AlreadyClaimed(e) /\ ~EndingPending(e)

\* Store.reserve: claim and persist the ending in one transaction, or refuse.
Reserve ==
    /\ pc = "reserve"
    /\ IF Acceptable(msg)
       THEN /\ journal' = [journal EXCEPT ![msg] =
                 [claimed |-> TRUE, accepted |-> clock, done |-> FALSE, outcome |-> "none"]]
            /\ last' = clock /\ pc' = "opening"
       ELSE journal' = journal /\ last' = last /\ pc' = "idle"
    /\ UNCHANGED <<clock, device, posts, msg, todo, current, matched, skews, crashes>>

\* Store.authorized on an opening: claimed, not completed, and still in time.
StillAuthorized(e) ==
    journal[e].claimed /\ journal[e].outcome = "none" /\ Verified(e)

\* Devices.__call__ on an opening: authorized again, then one request, which
\* may be lost and whose effect may go unseen.
ApplyOpening ==
    /\ pc = "opening"
    /\ \/ /\ StillAuthorized(msg)
          /\ posts' = [posts EXCEPT ![msg] = @ + 1]
          /\ \/ device' = [device EXCEPT ![TargetOf[msg]] = msg] /\ matched' \in BOOLEAN
             \/ device' = device /\ matched' = FALSE
       \/ ~StillAuthorized(msg) /\ device' = device /\ posts' = posts /\ matched' = FALSE
    /\ pc' = "opened"
    /\ UNCHANGED <<clock, last, journal, msg, todo, current, skews, crashes>>

Outcome == IF matched THEN "verified" ELSE "failed"

\* complete(reverting=False): the outcome of an opening is written once.
CompleteOpening ==
    /\ pc = "opened"
    /\ journal' = [journal EXCEPT ![msg].outcome = Outcome]
    /\ pc' = "idle"
    /\ UNCHANGED <<clock, last, device, posts, msg, todo, current, matched, skews, crashes>>

\* The process dies; only the journal and the device remember.
Crash ==
    /\ pc # "down" /\ crashes < MaxCrash
    /\ crashes' = crashes + 1
    /\ pc' = "down" /\ msg' = Nobody /\ todo' = {} /\ current' = Nobody
    /\ matched' = FALSE
    /\ UNCHANGED <<clock, last, journal, device, posts, skews>>

\* Store.__init__: one process at a time holds the journal's lock file.
Restart ==
    /\ pc = "down" /\ pc' = "idle"
    /\ UNCHANGED <<clock, last, journal, device, posts, msg, todo, current, matched, skews, crashes>>

Tick ==
    /\ clock < MaxTime /\ clock' = clock + 1
    /\ UNCHANGED <<last, journal, device, posts, task, skews, crashes>>

SetClock ==
    /\ skews < MaxSkew /\ skews' = skews + 1
    /\ clock' \in 0..MaxTime
    /\ UNCHANGED <<last, journal, device, posts, task, crashes>>

Agent ==
    \/ Recover \/ (\E e \in Envelopes : Receive(e))
    \/ ListDue \/ ApplyEnding \/ CompleteEnding
    \/ Reserve \/ ApplyOpening \/ CompleteOpening

Next == Agent \/ Crash \/ Restart \/ Tick \/ SetClock

Spec == Init /\ [][Next]_vars

(***************************************************************************)
(* A task that has the lock goes on (every device call has a timeout), and *)
(* time passes.  Nothing in the package restarts the process, delivers an  *)
(* envelope or calls recover by itself, so none of that is assumed.        *)
(***************************************************************************)
Fairness ==
    /\ WF_vars(ListDue) /\ WF_vars(CompleteEnding) /\ WF_vars(ApplyEnding)
    /\ WF_vars(Reserve) /\ WF_vars(ApplyOpening) /\ WF_vars(CompleteOpening)
    /\ WF_vars(Tick)

FairSpec == Spec /\ Fairness

-----------------------------------------------------------------------------
(* What the agent promises, as BoundedOnce states it.                      *)

\* How far the agent has got with one envelope.
StageOf(e) ==
    IF ~journal[e].claimed THEN "new"
    ELSE IF journal[e].done THEN "ended"
    ELSE IF posts[e] > 0 THEN "requested" ELSE "claimed"

Stage == [e \in Envelopes |-> StageOf(e)]

Promise == INSTANCE BoundedOnce WITH stage <- Stage

-----------------------------------------------------------------------------
(* Correctness.                                                            *)

\* Agent, Store and Devices together implement BoundedOnce: across crashes,
\* duplicates and clock changes an action is claimed once, requested at most
\* once and after its claim, ended once, and no command overtakes an ending.
ImplementsBoundedOnce == Promise!Spec

\* reserve and the journal: however often a command is delivered or signed
\* again, and wherever the agent crashes, the device is asked to perform one
\* action at most once, and one content at most once per DedupWindow.
AtMostOnce ==
    /\ \A e \in Envelopes : posts[e] <= 1
    /\ \A e, f \in Envelopes : e # f /\ posts[e] > 0 /\ posts[f] > 0 =>
         /\ ActionOf[e] # ActionOf[f]
         /\ HashOf[e] = HashOf[f] =>
              \/ journal[e].accepted >= journal[f].accepted + DedupWindow
              \/ journal[f].accepted >= journal[e].accepted + DedupWindow

\* reserve, complete: while a bounded command is in force on its device, the
\* journal holds its ending, unfinished, so a restart can still run it.
EndingIsOwed ==
    \A t \in Targets : device[t] \in Bounded => Pending(device[t]) /\ TargetOf[device[t]] = t

\* ending_pending_for_target: until the ending is done, no other command
\* changes the target of a bounded one.
TargetIsReserved ==
    [][\A e \in Envelopes : Pending(e) /\ device'[TargetOf[e]] # device[TargetOf[e]] =>
         device'[TargetOf[e]] \in {e, Rest}]_vars

\* Store.authorized, asked again after the reads: no opening is requested
\* outside its window, in particular never once its ending is due, and never
\* on a clock that went back between the claim and the request.
NoLateOpening ==
    [][\A e \in Envelopes : posts'[e] # posts[e] =>
         /\ journal[e].claimed /\ clock >= From[e]
         /\ e \in Bounded => clock < Due[e]]_vars

\* due: last_at never goes back, and every pending ending that was due by the
\* latest time ever journaled is listed, also when the clock was set back.
NoEndingForgotten ==
    [][/\ last' >= last
       /\ pc = "due" /\ pc' \notin {"due", "down"} =>
            \A e \in Envelopes : Pending(e) /\ Due[e] <= last' => e \in todo']_vars

\* The clock decides neither way: no opening is requested late, and no ending
\* missed, however it is set.
ClockIsNoEscape == NoLateOpening /\ NoEndingForgotten

\* A request for the ending of e has returned.
Tried(e) == pc = "ended" /\ current = e

\* receive and recover: whoever calls the agent, and for whatever command, has
\* the overdue endings tried first.  So if calls keep coming, from whomever,
\* and the device does not fail every time it is asked, each bounded command
\* that was claimed is ended, wherever the agent crashed and however the clock
\* was set; an opening whose outcome was never recorded is ended too.
EveryCallEnds ==
    \A e \in Bounded :
        /\ []<>(pc = "due")
        /\ []<>Tried(e) => []<>(Tried(e) /\ matched)
        => (journal[e].claimed ~> journal[e].done)
=============================================================================
