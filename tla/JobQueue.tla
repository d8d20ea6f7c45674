------------------------------ MODULE JobQueue ------------------------------
(***************************************************************************)
(* What a Bull queue promises of its jobs, whatever their handler does:    *)
(* one at a time, at least once, and settled for good.  A job that was     *)
(* active when the process ended waits again, at most Repeats times, and   *)
(* fails at the next end.  EmailQueue and ImportUsers implement it.        *)
(*                                                                         *)
(* state  where a job is;  runs  how often its handler was started         *)
(***************************************************************************)
EXTENDS Naturals

CONSTANTS Jobs,
          Repeats     \* maxStalledCount of the queue, 1 by default

VARIABLES state, runs

vars == <<state, runs>>

States == {"none", "waiting", "active", "completed", "failed"}

Init ==
    /\ state = [j \in Jobs |-> "none"]
    /\ runs = [j \in Jobs |-> 0]

Move(j, from, to) == state[j] = from /\ state' = [state EXCEPT ![j] = to]

Add(j) == Move(j, "none", "waiting") /\ UNCHANGED runs

Start(j) ==
    /\ \A k \in Jobs : state[k] # "active"
    /\ Move(j, "waiting", "active")
    /\ runs' = [runs EXCEPT ![j] = @ + 1]

Complete(j) == Move(j, "active", "completed") /\ UNCHANGED runs

Fail(j) == Move(j, "active", "failed") /\ UNCHANGED runs

GiveBack(j) ==
    /\ runs[j] <= Repeats
    /\ Move(j, "active", "waiting")
    /\ UNCHANGED runs

Next == \E j \in Jobs : Add(j) \/ Start(j) \/ Complete(j) \/ Fail(j) \/ GiveBack(j)

Spec == Init /\ [][Next]_vars
=============================================================================
