------------------------------ MODULE MCExecutor -----------------------------
(* Situations of Executor for TLC: one target and at most two operations on   *)
(* it.  An instant is enough for a window, since any number of sweeps fits    *)
(* into one.                                                                  *)
EXTENDS Executor, TLC

CONSTANTS a1, a2, t1

\* One bounded operation of a twin, from 0 to 1, with no faults.
Single ==
    [openings |-> {a1}, target |-> a1 :> t1,
     start |-> a1 :> 0, deadline |-> a1 :> 1, stop |-> a1 :> 1,
     bounded |-> {a1}, twin |-> {a1}, doors |-> {}, planned |-> {},
     once |-> {}, refusable |-> {},
     time |-> 1, horizon |-> 2, crash |-> 0, drop |-> 0, change |-> 0]

\* Two of them, the second from 1 to 2.
Pair == [Single EXCEPT !.openings = {a1, a2}, !.target = a1 :> t1 @@ a2 :> t1,
                       !.start = a1 :> 0 @@ a2 :> 1, !.deadline = a1 :> 1 @@ a2 :> 2,
                       !.stop = a1 :> 1 @@ a2 :> 2, !.bounded = {a1, a2}, !.time = 2]

\* Two single requests that may overlap, one of Home Assistant, and a crash.
Windows == [Pair EXCEPT !.start = a1 :> 0 @@ a2 :> 0, !.twin = {a2},
                        !.refusable = {a1}, !.crash = 1]

\* A plan of two that is changed twice while it runs.
Household == [Pair EXCEPT !.planned = {a1, a2}, !.once = {a2}, !.change = 2]

\* Two visitors, let in at most an instant late, and then staying in longer.
Visitors == [Pair EXCEPT !.deadline = a1 :> 2 @@ a2 :> 3, !.twin = {a1, a2},
                         !.doors = {a1, a2}, !.time = 3, !.crash = 1]

\* A worker loses its session, and the sweep lock with it.
LostLock == [Single EXCEPT !.twin = {}, !.drop = 1]
LostLockTwin == [Single EXCEPT !.drop = 1, !.time = 0]

\* One request that a crash may interrupt, and time enough to resolve it.
Interrupted == [Single EXCEPT !.twin = {}, !.crash = 1, !.time = 2]

\* A plan of one that is changed twice.
Drifting == [Single EXCEPT !.planned = {a1}, !.change = 2]

\* A plan's opening is held while another request is queued beside it.
Resumed == [Pair EXCEPT !.start = a1 :> 0 @@ a2 :> 0, !.planned = {a2},
                        !.once = {a1, a2}, !.time = 1]

MCSituations == {Windows, Household, Visitors, LostLock, LostLockTwin, Resumed}
MCInterrupted == {Interrupted}
MCDrifting == {Drifting}
MCResumed == {Resumed}

AnyWorker == Permutations(Workers)
=============================================================================
