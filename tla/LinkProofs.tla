----------------------------- MODULE LinkProofs ------------------------------
(***************************************************************************)
(* Proofs about the home agent, for every set of envelopes, targets,       *)
(* windows and deadlines, every number of crashes and every clock change.  *)
(* The inductive invariant says what the journal knows at each point of    *)
(* the task that holds the agent's lock.                                   *)
(***************************************************************************)
EXTENDS Link, TLAPS

USE DEF Nobody, Rest, task

\* A row that was never claimed is untouched, and was never asked of a device.
Untouched ==
    \A e \in Envelopes : ~journal[e].claimed =>
        ~journal[e].done /\ journal[e].outcome = "none" /\ posts[e] = 0

\* Where the task stands determines what it holds: endings are listed only
\* while pending, and between claim and outcome an opening's row is its own.
TaskHolds ==
    /\ \A e \in todo : Pending(e)
    /\ pc \in {"reserve", "opening", "opened"} => msg \in Envelopes
    /\ pc = "opening" => journal[msg].claimed /\ posts[msg] = 0
    /\ pc \in {"opening", "opened"} /\ msg \in Bounded => Pending(msg)
    /\ pc \in {"opening", "opened"} => journal[msg].claimed
    /\ pc = "opening" => \A f \in Envelopes :
          Pending(f) /\ TargetOf[f] = TargetOf[msg] => f = msg
    /\ pc = "ended" => current \in todo
    /\ pc = "ended" /\ matched => device[TargetOf[current]] = Rest

\* Claims exclude one another: by action, and by content for DedupWindow.
ClaimsExclude ==
    \A e, f \in Envelopes : e # f /\ journal[e].claimed /\ journal[f].claimed =>
        /\ ActionOf[e] # ActionOf[f]
        /\ HashOf[e] = HashOf[f] =>
              \/ journal[e].accepted >= journal[f].accepted + DedupWindow
              \/ journal[f].accepted >= journal[e].accepted + DedupWindow

\* One unfinished ending per target at most.
OnePending ==
    \A e, f \in Envelopes : Pending(e) /\ Pending(f) /\ TargetOf[e] = TargetOf[f] => e = f

\* A device is only ever in a state that a command for it asked for.
OwnDevice ==
    \A t \in Targets : device[t] \in Envelopes =>
        TargetOf[device[t]] = t /\ journal[device[t]].claimed

OneRequest == \A e \in Envelopes : posts[e] <= 1

Inv ==
    /\ TypeOK /\ Untouched /\ TaskHolds /\ ClaimsExclude /\ OnePending
    /\ OwnDevice /\ OneRequest /\ EndingIsOwed

-----------------------------------------------------------------------------
\* The invariant holds of the empty journal.
LEMMA InitInv == Init => Inv
<1> SUFFICES ASSUME Init PROVE Inv
    OBVIOUS
<1> USE LinkAssumption DEF Init
<1>1. TypeOK
      BY DEF TypeOK, Row
<1>2. Untouched /\ OneRequest
      BY DEF Untouched, OneRequest
<1>3. TaskHolds
      BY DEF TaskHolds
<1>4. ClaimsExclude
      BY DEF ClaimsExclude
<1>5. OnePending
      BY DEF OnePending, Pending
<1>6. OwnDevice /\ EndingIsOwed
      BY DEF OwnDevice, EndingIsOwed
<1>7. QED
      BY <1>1, <1>2, <1>3, <1>4, <1>5, <1>6 DEF Inv

\* Every step of the agent, of its environment and every crash keeps the type
\* of the journal and of the task.
LEMMA TypeStep == TypeOK /\ TaskHolds /\ [Next]_vars => TypeOK'
<1> SUFFICES ASSUME TypeOK, TaskHolds, [Next]_vars PROVE TypeOK'
    OBVIOUS
<1> USE LinkAssumption DEF TypeOK
<1>1. CASE Recover
      BY <1>1 DEF Recover
<1>2. ASSUME NEW e \in Envelopes, Receive(e) PROVE TypeOK'
      BY <1>2 DEF Receive
<1>3. CASE ListDue
      BY <1>3 DEF ListDue, Overdue, AfterEndings
<1>4. CASE ApplyEnding
      BY <1>4 DEF ApplyEnding
<1>5. CASE CompleteEnding
      <2>1. current \in Envelopes
            BY <1>5 DEF CompleteEnding, TaskHolds
      <2>2. journal' \in [Envelopes -> Row]
            BY <1>5, <2>1 DEF CompleteEnding, EndingResult, Row
      <2>3. QED
            BY <1>5, <2>2 DEF CompleteEnding, AfterEndings
<1>6. CASE Reserve
      <2> DEFINE row == [claimed |-> TRUE, accepted |-> clock, done |-> FALSE,
                         outcome |-> "none"]
      <2>3. msg \in Envelopes /\ row \in Row
            BY <1>6 DEF Reserve, TaskHolds, Row
      <2>4. journal' = [journal EXCEPT ![msg] = row] \/ journal' = journal
            BY <1>6 DEF Reserve
      <2>1. journal' \in [Envelopes -> Row]
            <3> HIDE DEF row
            <3> QED BY <2>3, <2>4
      <2>2. QED
            BY <1>6, <2>1 DEF Reserve
<1>7. CASE ApplyOpening
      <2>1. posts' \in [Envelopes -> Nat]
            BY <1>7 DEF ApplyOpening, TaskHolds
      <2>2. device' \in [Targets -> Envelopes \cup {Rest}]
            BY <1>7 DEF ApplyOpening, TaskHolds
      <2>3. QED
            BY <1>7, <2>1, <2>2 DEF ApplyOpening
<1>8. CASE CompleteOpening
      <2>1. journal' \in [Envelopes -> Row]
            BY <1>8 DEF CompleteOpening, Outcome, Row, TaskHolds
      <2>2. QED
            BY <1>8, <2>1 DEF CompleteOpening
<1>9. CASE Crash
      <2>1. crashes' \in Nat
            BY <1>9 DEF Crash
      <2>2. QED
            BY <1>9, <2>1, Zenon DEF Crash
<1>10. CASE Restart
      BY <1>10 DEF Restart
<1>11. CASE Tick
      BY <1>11 DEF Tick
<1>12. CASE SetClock
      BY <1>12 DEF SetClock
<1>13. CASE UNCHANGED vars
      BY <1>13 DEF vars
<1>14. QED
      BY <1>1, <1>2, <1>3, <1>4, <1>5, <1>6, <1>7, <1>8, <1>9, <1>10, <1>11,
         <1>12, <1>13 DEF Next, Agent

\* Steps that touch neither journal nor device keep what those two say.
LEMMA QuietStep ==
    ASSUME Inv, UNCHANGED <<journal, device, posts>>
    PROVE  /\ Untouched' /\ ClaimsExclude' /\ OnePending' /\ OwnDevice'
           /\ OneRequest' /\ EndingIsOwed'
<1>1. Untouched' /\ OneRequest'
      BY DEF Inv, Untouched, OneRequest
<1>2. ClaimsExclude'
      BY DEF Inv, ClaimsExclude
<1>3. OnePending'
      BY DEF Inv, OnePending, Pending
<1>4. OwnDevice' /\ EndingIsOwed'
      BY DEF Inv, OwnDevice, EndingIsOwed, Pending
<1>5. QED
      BY <1>1, <1>2, <1>3, <1>4

\* Listing endings, taking the lock, crashing, restarting and the clock keep
\* what the task holds.
LEMMA QuietTask ==
    ASSUME Inv,
           \/ Recover \/ (\E e \in Envelopes : Receive(e)) \/ ListDue \/ Crash
           \/ Restart \/ Tick \/ SetClock \/ UNCHANGED vars
    PROVE  TaskHolds' /\ UNCHANGED <<journal, device, posts>>
<1> USE DEF TaskHolds, Pending, Inv
<1>1. CASE Recover \/ (\E e \in Envelopes : Receive(e))
      BY <1>1 DEF Recover, Receive
<1>2. CASE ListDue
      BY <1>2 DEF ListDue, Overdue, AfterEndings, TypeOK
<1>3. CASE Crash \/ Restart
      BY <1>3 DEF Crash, Restart
<1>4. CASE Tick \/ SetClock \/ UNCHANGED vars
      BY <1>4 DEF Tick, SetClock, vars
<1>5. QED
      BY <1>1, <1>2, <1>3, <1>4

\* An ending that is applied returns its device to rest: nothing else moves.
LEMMA ApplyEndingStep ==
    ASSUME Inv, ApplyEnding
    PROVE  /\ Untouched' /\ TaskHolds' /\ ClaimsExclude' /\ OnePending'
           /\ OwnDevice' /\ OneRequest' /\ EndingIsOwed'
<1> USE LinkAssumption DEF Inv
<1>1. PICK e \in todo :
         /\ current' = e
         /\ \/ device' = [device EXCEPT ![TargetOf[e]] = Rest]
            \/ device' = device /\ matched' = FALSE
      BY DEF ApplyEnding
<1>2. /\ pc = "ending" /\ pc' = "ended"
      /\ UNCHANGED <<journal, posts, msg, todo>>
      BY DEF ApplyEnding
<1>3. e \in Envelopes /\ TargetOf[e] \in Targets
      BY DEF TypeOK
<1>4. \A t \in Targets : device'[t] = device[t] \/ device'[t] = Rest
      BY <1>1, <1>3 DEF TypeOK
<1>5. Untouched' /\ OneRequest'
      BY <1>2 DEF Untouched, OneRequest
<1>6. ClaimsExclude' /\ OnePending'
      BY <1>2 DEF ClaimsExclude, OnePending, Pending
<1>7. OwnDevice' /\ EndingIsOwed'
      BY <1>2, <1>4 DEF OwnDevice, EndingIsOwed, Pending
<1>8. TaskHolds'
      <2>1. matched' => device'[TargetOf[e]] = Rest
            BY <1>1, <1>3 DEF TypeOK
      <2>2. QED
            BY <1>1, <1>2, <2>1 DEF TaskHolds, Pending
<1>9. QED
      BY <1>5, <1>6, <1>7, <1>8

\* An ending is closed only when the device was seen at rest.
LEMMA CompleteEndingStep ==
    ASSUME Inv, CompleteEnding
    PROVE  /\ Untouched' /\ TaskHolds' /\ ClaimsExclude' /\ OnePending'
           /\ OwnDevice' /\ OneRequest' /\ EndingIsOwed'
<1> USE LinkAssumption DEF Inv
<1>1. /\ pc = "ended" /\ current \in todo /\ current \in Envelopes
      /\ journal[current].claimed /\ current \in Bounded
      BY DEF CompleteEnding, TaskHolds, Pending, TypeOK
<1>2. \A e \in Envelopes :
         /\ journal'[e].claimed = journal[e].claimed
         /\ journal'[e].accepted = journal[e].accepted
         /\ journal'[e].outcome = journal[e].outcome
         /\ journal'[e].done = IF e = current THEN matched ELSE journal[e].done
      BY <1>1 DEF CompleteEnding, EndingResult, TypeOK, Row
<1>3. UNCHANGED <<device, posts, msg>> /\ todo' = todo \ {current}
      BY DEF CompleteEnding
<1>4. Untouched' /\ OneRequest'
      BY <1>1, <1>2, <1>3 DEF Untouched, OneRequest
<1>5. ClaimsExclude'
      BY <1>2 DEF ClaimsExclude
<1>6. \A e \in Envelopes : Pending(e)' => Pending(e)
      BY <1>1, <1>2 DEF TaskHolds, Pending
<1>7. OnePending'
      BY <1>6 DEF OnePending
<1>8. OwnDevice'
      BY <1>2, <1>3 DEF OwnDevice
<1>9. EndingIsOwed'
      <2> SUFFICES ASSUME NEW t \in Targets, device[t] \in Bounded
                   PROVE  Pending(device[t])' /\ TargetOf[device[t]] = t
          BY <1>3 DEF EndingIsOwed
      <2>1. Pending(device[t]) /\ TargetOf[device[t]] = t
            BY DEF EndingIsOwed
      <2>2. device[t] = current => ~matched
            BY <1>1, <2>1 DEF TaskHolds
      <2>3. QED
            BY <1>2, <1>3, <2>1, <2>2 DEF Pending
<1>10. TaskHolds'
      <2>1. pc' \in {"ending", "idle", "reserve"}
            BY DEF CompleteEnding, AfterEndings
      <2>2. pc' = "reserve" => msg \in Envelopes
            BY DEF CompleteEnding, AfterEndings, TypeOK
      <2>3. \A e \in todo' : Pending(e)'
            BY <1>2, <1>3 DEF TaskHolds, Pending, TypeOK
      <2>4. QED
            BY <1>3, <2>1, <2>2, <2>3 DEF TaskHolds
<1>11. QED
      BY <1>4, <1>5, <1>7, <1>8, <1>9, <1>10

\* A claim is journaled only beside claims and endings it does not conflict
\* with, and before anything was asked of the device.
LEMMA ReserveStep ==
    ASSUME Inv, Reserve
    PROVE  /\ Untouched' /\ TaskHolds' /\ ClaimsExclude' /\ OnePending'
           /\ OwnDevice' /\ OneRequest' /\ EndingIsOwed'
<1> USE LinkAssumption DEF Inv
<1>1. pc = "reserve" /\ msg \in Envelopes
      BY DEF Reserve, TaskHolds
<1>2. UNCHANGED <<device, posts, msg, todo>>
      BY DEF Reserve
<1>3. CASE ~Acceptable(msg)
      <2>1. journal' = journal /\ pc' = "idle"
            BY <1>3 DEF Reserve
      <2>2. TaskHolds'
            BY <1>2, <2>1 DEF TaskHolds, Pending
      <2>3. QED
            BY <1>2, <2>1, <2>2, QuietStep
<1>4. CASE Acceptable(msg)
      <2>1. /\ pc' = "opening"
            /\ journal'[msg] = [claimed |-> TRUE, accepted |-> clock, done |-> FALSE,
                                outcome |-> "none"]
            /\ \A e \in Envelopes : e # msg => journal'[e] = journal[e]
            BY <1>1, <1>4 DEF Reserve, TypeOK
      <2>2. ~journal[msg].claimed
            BY <1>1, <1>4 DEF Acceptable, AlreadyClaimed
      <2>3. Untouched' /\ OneRequest'
            BY <1>2, <2>1 DEF Untouched, OneRequest
      <2>4. \A f \in Envelopes : journal[f].claimed =>
               /\ f # msg /\ ActionOf[f] # ActionOf[msg]
               /\ HashOf[f] = HashOf[msg] => clock >= journal[f].accepted + DedupWindow
            BY <1>1, <1>4 DEF Acceptable, AlreadyClaimed, TypeOK, Row
      <2>5. ClaimsExclude'
            BY <2>1, <2>4 DEF ClaimsExclude
      <2>6. \A f \in Envelopes : Pending(f) => TargetOf[f] # TargetOf[msg]
            BY <1>1, <1>4 DEF Acceptable, EndingPending
      <2>7. \A f \in Envelopes : f # msg => (Pending(f)' <=> Pending(f))
            BY <2>1 DEF Pending
      <2>8. OnePending'
            BY <2>6, <2>7 DEF OnePending
      <2>9. OwnDevice'
            BY <1>2, <2>1, <2>2 DEF OwnDevice
      <2>10. EndingIsOwed'
            BY <1>2, <2>2, <2>7 DEF EndingIsOwed, Pending
      <2>11. TaskHolds'
            <3>1. \A e \in todo' : Pending(e)'
                  BY <1>2, <2>2, <2>7 DEF TaskHolds, Pending, TypeOK
            <3>2. /\ journal'[msg].claimed /\ posts'[msg] = 0
                  /\ msg \in Bounded => Pending(msg)'
                  BY <1>1, <1>2, <2>1, <2>2 DEF Untouched, Pending
            <3>3. QED
                  BY <1>1, <1>2, <2>1, <2>6, <2>7, <3>1, <3>2 DEF TaskHolds
      <2>12. QED
            BY <2>3, <2>5, <2>8, <2>9, <2>10, <2>11
<1>5. QED
      BY <1>3, <1>4

\* The request of an opening is its only one, and its ending is on record.
LEMMA ApplyOpeningStep ==
    ASSUME Inv, ApplyOpening
    PROVE  /\ Untouched' /\ TaskHolds' /\ ClaimsExclude' /\ OnePending'
           /\ OwnDevice' /\ OneRequest' /\ EndingIsOwed'
<1> USE LinkAssumption DEF Inv
<1>1. /\ pc = "opening" /\ msg \in Envelopes /\ TargetOf[msg] \in Targets
      /\ journal[msg].claimed /\ posts[msg] = 0
      /\ msg \in Bounded => Pending(msg)
      BY DEF ApplyOpening, TaskHolds
<1>2. UNCHANGED <<journal, msg, todo>> /\ pc' = "opened"
      BY DEF ApplyOpening
<1>3. \A e \in Envelopes : posts'[e] = posts[e] \/ (e = msg /\ posts'[e] = 1)
      BY <1>1 DEF ApplyOpening, TypeOK
<1>4. \A t \in Targets : device'[t] = device[t] \/ (t = TargetOf[msg] /\ device'[t] = msg)
      BY <1>1 DEF ApplyOpening, TypeOK
<1>5. Untouched' /\ OneRequest'
      BY <1>1, <1>2, <1>3 DEF Untouched, OneRequest
<1>6. ClaimsExclude' /\ OnePending'
      BY <1>2 DEF ClaimsExclude, OnePending, Pending
<1>7. OwnDevice' /\ EndingIsOwed'
      BY <1>1, <1>2, <1>4 DEF OwnDevice, EndingIsOwed, Pending
<1>8. TaskHolds'
      BY <1>1, <1>2 DEF TaskHolds, Pending
<1>9. QED
      BY <1>5, <1>6, <1>7, <1>8

\* Recording the outcome of an opening leaves its ending unfinished.
LEMMA CompleteOpeningStep ==
    ASSUME Inv, CompleteOpening
    PROVE  /\ Untouched' /\ TaskHolds' /\ ClaimsExclude' /\ OnePending'
           /\ OwnDevice' /\ OneRequest' /\ EndingIsOwed'
<1> USE LinkAssumption DEF Inv
<1>1. pc = "opened" /\ msg \in Envelopes /\ journal[msg].claimed
      BY DEF CompleteOpening, TaskHolds
<1>2. UNCHANGED <<device, posts, msg, todo>> /\ pc' = "idle"
      BY DEF CompleteOpening
<1>3. \A e \in Envelopes :
         /\ journal'[e].claimed = journal[e].claimed
         /\ journal'[e].accepted = journal[e].accepted
         /\ journal'[e].done = journal[e].done
         /\ e # msg => journal'[e].outcome = journal[e].outcome
      BY <1>1 DEF CompleteOpening, TypeOK, Row
<1>4. \A e \in Envelopes : Pending(e)' <=> Pending(e)
      BY <1>3 DEF Pending
<1>5. Untouched' /\ OneRequest'
      BY <1>1, <1>2, <1>3 DEF Untouched, OneRequest
<1>6. ClaimsExclude'
      BY <1>3 DEF ClaimsExclude
<1>7. OnePending'
      BY <1>4 DEF OnePending
<1>8. OwnDevice'
      BY <1>2, <1>3 DEF OwnDevice
<1>9. EndingIsOwed'
      BY <1>2, <1>4 DEF EndingIsOwed
<1>10. TaskHolds'
      BY <1>2, <1>4 DEF TaskHolds, TypeOK
<1>11. QED
      BY <1>5, <1>6, <1>7, <1>8, <1>9, <1>10

\* Inv is inductive.
LEMMA InvStep == Inv /\ [Next]_vars => Inv'
<1> SUFFICES ASSUME Inv, [Next]_vars PROVE Inv'
    OBVIOUS
<1>1. TypeOK'
      BY TypeStep DEF Inv
<1>2. CASE \/ Recover \/ (\E e \in Envelopes : Receive(e)) \/ ListDue \/ Crash
           \/ Restart \/ Tick \/ SetClock \/ UNCHANGED vars
      BY <1>1, <1>2, QuietTask, QuietStep DEF Inv
<1>3. CASE ApplyEnding
      BY <1>1, <1>3, ApplyEndingStep DEF Inv
<1>4. CASE CompleteEnding
      BY <1>1, <1>4, CompleteEndingStep DEF Inv
<1>5. CASE Reserve
      BY <1>1, <1>5, ReserveStep DEF Inv
<1>6. CASE ApplyOpening
      BY <1>1, <1>6, ApplyOpeningStep DEF Inv
<1>7. CASE CompleteOpening
      BY <1>1, <1>7, CompleteOpeningStep DEF Inv
<1>8. QED
      BY <1>2, <1>3, <1>4, <1>5, <1>6, <1>7 DEF Next, Agent

\* The invariant holds in every reachable state.
THEOREM Invariant == Spec => []Inv
BY InitInv, InvStep, PTL DEF Spec

-----------------------------------------------------------------------------
\* The journal and the agent's task are always well typed.
THEOREM TypeCorrect == Spec => []TypeOK
BY Invariant, PTL DEF Inv

\* reserve and the journal: for any number of deliveries, signatures and
\* crashes the device is asked to perform one action at most once.
THEOREM DeviceAskedAtMostOnce == Spec => []AtMostOnce
<1>1. Inv => AtMostOnce
      BY DEF Inv, AtMostOnce, OneRequest, ClaimsExclude, Untouched, TypeOK
<1>2. QED
      BY <1>1, Invariant, PTL

\* While a bounded command is in force, its unfinished ending is in the
\* journal: no crash between two transactions can lose it.
THEOREM EndingAlwaysOwed == Spec => []EndingIsOwed
BY Invariant, PTL DEF Inv

\* reserve's ending_pending_for_target: no command overtakes an ending.
THEOREM NoCommandOvertakes == Spec => TargetIsReserved
<1> DEFINE A == \A e \in Envelopes :
                  Pending(e) /\ device'[TargetOf[e]] # device[TargetOf[e]] =>
                  device'[TargetOf[e]] \in {e, Rest}
<1>1. Inv /\ [Next]_vars => [A]_vars
      <2> SUFFICES ASSUME Inv, Next, NEW e \in Envelopes, Pending(e),
                          device'[TargetOf[e]] # device[TargetOf[e]]
                   PROVE  device'[TargetOf[e]] \in {e, Rest}
          OBVIOUS
      <2> USE LinkAssumption
      <2>1. ApplyEnding \/ ApplyOpening
            BY DEF Next, Agent, Recover, Receive, ListDue, CompleteEnding, Reserve,
                   CompleteOpening, Crash, Restart, Tick, SetClock
      <2>2. CASE ApplyEnding
            BY <2>2 DEF ApplyEnding, Inv, TypeOK
      <2>3. CASE ApplyOpening
            <3>1. \A f \in Envelopes : Pending(f) /\ TargetOf[f] = TargetOf[msg] => f = msg
                  BY <2>3 DEF ApplyOpening, Inv, TaskHolds
            <3>2. msg \in Envelopes
                  BY <2>3 DEF ApplyOpening, Inv, TaskHolds
            <3>3. device' = [device EXCEPT ![TargetOf[msg]] = msg]
                  BY <2>3 DEF ApplyOpening
            <3>4. QED
                  BY <3>1, <3>2, <3>3 DEF Inv, TypeOK
      <2>4. QED
            BY <2>1, <2>2, <2>3
<1>2. QED
      BY <1>1, Invariant, PTL DEF Spec, TargetIsReserved

\* Store.authorized, asked again before the request: no opening is requested
\* before its window or once its ending is due.
THEOREM OpeningInTime == Spec => NoLateOpening
<1> DEFINE A == \A e \in Envelopes : posts'[e] # posts[e] =>
                  /\ journal[e].claimed /\ clock >= From[e]
                  /\ e \in Bounded => clock < Due[e]
<1>1. Inv /\ [Next]_vars => [A]_vars
      <2> SUFFICES ASSUME Inv, Next, NEW e \in Envelopes, posts'[e] # posts[e]
                   PROVE  /\ journal[e].claimed /\ clock >= From[e]
                          /\ e \in Bounded => clock < Due[e]
          OBVIOUS
      <2> USE LinkAssumption
      <2>1. ApplyOpening
            BY DEF Next, Agent, Recover, Receive, ListDue, ApplyEnding, CompleteEnding,
                   Reserve, CompleteOpening, Crash, Restart, Tick, SetClock
      <2>2. e = msg /\ StillAuthorized(msg)
            BY <2>1 DEF ApplyOpening, Inv, TypeOK
      <2>3. QED
            BY <2>2 DEF StillAuthorized, Verified, Inv, TypeOK
<1>2. QED
      BY <1>1, Invariant, PTL DEF Spec, NoLateOpening

\* due: the journal's time never goes back, and an ending that was due by it
\* is listed, also after the clock was set back.
THEOREM EveryDueEndingListed == Spec => NoEndingForgotten
<1> DEFINE A == /\ last' >= last
                /\ pc = "due" /\ pc' \notin {"due", "down"} =>
                     \A e \in Envelopes : Pending(e) /\ Due[e] <= last' => e \in todo'
<1>1. Inv /\ [Next]_vars => [A]_vars
      <2> SUFFICES ASSUME Inv, Next PROVE A
          OBVIOUS
      <2> USE LinkAssumption DEF Inv, TypeOK
      <2>1. CASE ListDue
            BY <2>1 DEF ListDue, Overdue
      <2>2. CASE Reserve
            BY <2>2 DEF Reserve, Acceptable
      <2>3. CASE ~ListDue /\ ~Reserve
            BY <2>3 DEF Next, Agent, Recover, Receive, ApplyEnding, CompleteEnding,
                        ApplyOpening, CompleteOpening, Crash, Restart, Tick, SetClock, task
      <2>4. QED
            BY <2>1, <2>2, <2>3
<1>2. QED
      BY <1>1, Invariant, PTL DEF Spec, NoEndingForgotten

\* The clock decides neither way: Store.authorized keeps openings in time, and
\* due lists every ending that is due, however the clock is set.
THEOREM ClockNeverEscapes == Spec => ClockIsNoEscape
BY OpeningInTime, EveryDueEndingListed DEF ClockIsNoEscape

-----------------------------------------------------------------------------
(* The agent implements BoundedOnce.                                       *)

\* A step that changes no row and no request count changes no stage.
LEMMA StageKept ==
    ASSUME UNCHANGED <<journal, posts>>
    PROVE  Stage' = Stage
BY DEF Stage, StageOf

\* A step that concerns one envelope changes the stage of no other.
LEMMA StageOfOne ==
    ASSUME NEW e \in Envelopes,
           \A f \in Envelopes : f # e => journal'[f] = journal[f] /\ posts'[f] = posts[f]
    PROVE  Stage' = [Stage EXCEPT ![e] = StageOf(e)']
BY DEF Stage, StageOf

\* Claiming is the abstract Claim: reserve's checks are at least as strict.
LEMMA ReserveRefines ==
    ASSUME Inv, Reserve
    PROVE  (\E e \in Envelopes : Promise!Claim(e)) \/ UNCHANGED Stage
<1>1. CASE ~Acceptable(msg)
      BY <1>1, StageKept DEF Reserve
<1>2. CASE Acceptable(msg)
      <2>1. msg \in Envelopes
            BY DEF Reserve, Inv, TaskHolds
      <2>2. /\ \A f \in Envelopes : f # msg => journal'[f] = journal[f] /\ posts'[f] = posts[f]
            /\ journal'[msg].claimed /\ ~journal'[msg].done /\ posts'[msg] = posts[msg]
            BY <1>2, <2>1 DEF Reserve, Inv, TypeOK
      <2>3. ~journal[msg].claimed /\ posts[msg] = 0
            BY <1>2, <2>1 DEF Acceptable, AlreadyClaimed, Inv, Untouched
      <2>4. Stage' = [Stage EXCEPT ![msg] = "claimed"]
            BY <2>1, <2>2, <2>3, StageOfOne DEF StageOf
      <2>5. Stage[msg] = "new"
            BY <2>1, <2>3 DEF Stage, StageOf
      <2>6. \A f \in Envelopes : Stage[f] # "new" => ActionOf[f] # ActionOf[msg]
            BY <1>2, <2>1 DEF Stage, StageOf, Acceptable, AlreadyClaimed
      <2>7. \A f \in Envelopes : Promise!Unfinished(f) => TargetOf[f] # TargetOf[msg]
            BY <1>2, <2>1 DEF Promise!Unfinished, Stage, StageOf, Acceptable, EndingPending,
                              Pending
      <2>8. QED
            BY <2>1, <2>4, <2>5, <2>6, <2>7 DEF Promise!Claim
<1>3. QED
      BY <1>1, <1>2

\* The opening request is the abstract Request; a refused one is a stutter.
LEMMA ApplyOpeningRefines ==
    ASSUME Inv, ApplyOpening
    PROVE  (\E e \in Envelopes : Promise!Request(e)) \/ UNCHANGED Stage
<1>1. /\ msg \in Envelopes /\ journal[msg].claimed /\ posts[msg] = 0
      /\ UNCHANGED journal
      BY DEF ApplyOpening, Inv, TaskHolds
<1>2. CASE posts' = posts
      BY <1>1, <1>2, StageKept
<1>3. CASE posts' = [posts EXCEPT ![msg] = @ + 1]
      <2>1. \A f \in Envelopes : f # msg => journal'[f] = journal[f] /\ posts'[f] = posts[f]
            BY <1>1, <1>3 DEF Inv, TypeOK
      <2>2. posts'[msg] = 1
            BY <1>1, <1>3 DEF Inv, TypeOK
      <2>3. CASE journal[msg].done
            BY <1>1, <2>1, <2>2, <2>3 DEF Stage, StageOf
      <2>4. CASE ~journal[msg].done
            <3>1. Stage' = [Stage EXCEPT ![msg] = "requested"]
                  BY <1>1, <2>1, <2>2, <2>4, StageOfOne DEF StageOf
            <3>2. Stage[msg] = "claimed"
                  BY <1>1, <2>4 DEF Stage, StageOf
            <3>3. QED
                  BY <1>1, <3>1, <3>2 DEF Promise!Request
      <2>5. QED
            BY <2>3, <2>4
<1>4. QED
      BY <1>2, <1>3 DEF ApplyOpening

\* A matched ending is the abstract End; an unmatched one is a stutter.
LEMMA CompleteEndingRefines ==
    ASSUME Inv, CompleteEnding
    PROVE  (\E e \in Envelopes : Promise!End(e)) \/ UNCHANGED Stage
<1>1. current \in Envelopes /\ Pending(current) /\ UNCHANGED posts
      BY DEF CompleteEnding, Inv, TaskHolds, TypeOK
<1>2. /\ \A f \in Envelopes : f # current => journal'[f] = journal[f] /\ posts'[f] = posts[f]
      /\ journal'[current].claimed = journal[current].claimed
      /\ journal'[current].done = matched
      BY <1>1 DEF CompleteEnding, EndingResult, Inv, TypeOK, Row
<1>3. CASE ~matched
      <2>1. ~journal'[current].done
            BY <1>2, <1>3, Zenon
      <2>2. \A f \in Envelopes : StageOf(f)' = StageOf(f)
            BY <1>1, <1>2, <2>1 DEF StageOf, Pending
      <2>3. QED
            BY <2>2, Zenon DEF Stage
<1>4. CASE matched
      <2>1. Stage' = [Stage EXCEPT ![current] = "ended"]
            BY <1>1, <1>2, <1>4, StageOfOne DEF StageOf, Pending
      <2>2. Promise!Unfinished(current)
            BY <1>1 DEF Promise!Unfinished, Stage, StageOf, Pending
      <2>3. QED
            BY <1>1, <2>1, <2>2 DEF Promise!End
<1>5. QED
      BY <1>3, <1>4 DEF Inv, TypeOK

\* Recording the outcome of an opening changes no stage.
LEMMA CompleteOpeningRefines ==
    ASSUME Inv, CompleteOpening
    PROVE  UNCHANGED Stage
<1>1. msg \in Envelopes /\ UNCHANGED posts
      BY DEF CompleteOpening, Inv, TaskHolds
<1>2. \A f \in Envelopes : /\ journal'[f].claimed = journal[f].claimed
                            /\ journal'[f].done = journal[f].done
      BY <1>1 DEF CompleteOpening, Inv, TypeOK, Row
<1>3. QED
      BY <1>1, <1>2 DEF Stage, StageOf

\* Agent, Store and Devices implement BoundedOnce for every set of commands:
\* each journal transaction and request is one abstract step or a stutter.
THEOREM AgentKeepsPromise == Spec => ImplementsBoundedOnce
<1>1. Init => Promise!Init
      BY DEF Init, Promise!Init, Stage, StageOf
<1>2. Inv /\ [Next]_vars => [Promise!Next]_Stage
      <2> SUFFICES ASSUME Inv, [Next]_vars PROVE Promise!Next \/ UNCHANGED Stage
          OBVIOUS
      <2>1. CASE Reserve
            BY <2>1, ReserveRefines DEF Promise!Next
      <2>2. CASE ApplyOpening
            BY <2>2, ApplyOpeningRefines DEF Promise!Next
      <2>3. CASE CompleteEnding
            BY <2>3, CompleteEndingRefines DEF Promise!Next
      <2>4. CASE CompleteOpening
            BY <2>4, CompleteOpeningRefines
      <2>5. CASE UNCHANGED <<journal, posts>>
            BY <2>5, StageKept
      <2>6. QED
            BY <2>1, <2>2, <2>3, <2>4, <2>5
               DEF Next, Agent, Recover, Receive, ListDue, ApplyEnding, Crash, Restart,
                   Tick, SetClock, vars
<1>3. QED
      BY <1>1, <1>2, Invariant, PTL DEF Spec, ImplementsBoundedOnce, Promise!Spec
=============================================================================
