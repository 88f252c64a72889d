----------------------------- MODULE AnyScheduler -----------------------------
(***************************************************************************)
(* The simulator with an arbitrary submission.  cosc240_a4.sh compiles     *)
(* simulator.c with whatever scheduler.c a student handed in, so that      *)
(* get_next_scheduled_process() may return any number at all: 0, a process *)
(* that has not arrived, one that has finished, or no process's PID.       *)
(***************************************************************************)
EXTENDS Simulator

CONSTANT Unknown   \* a PID of no process

ASSUME UnknownAssumption == Unknown \in Nat \ (Pids \cup {Idle})

Init == SimInit

Next ==
  \/ EnterIteration
  \/ LeaveLoop
  \/ \E p \in Pids : Admit(p)
  \/ \E pid \in Pids \cup {Idle, Unknown} : Account(pid)

Safety == Init /\ [][Next]_simVars

(* The simulator is one sequential program: while it can take a step, it   *)
(* does.                                                                   *)
Spec == Safety /\ WF_simVars(Next)

(***************************************************************************)
(* Properties                                                              *)
(***************************************************************************)
(* run_simulation's verdict says what happened to the processes, whatever  *)
(* the submission did: success means that each got exactly the time it     *)
(* needs, "too long" that exactly one got a unit more and the others at    *)
(* most what they need, and a plain failure that the whole of TIMEOUT went *)
(* by with a process short of time.                                        *)
Overran(p) == processed_time[p] > processing_time[p]

VerdictSound ==
  /\ result = "complete" => \A p \in Pids : processed_time[p] = processing_time[p]
  /\ result = "too_long" =>
       \E p \in Pids : /\ processed_time[p] = processing_time[p] + 1
                       /\ \A q \in Pids \ {p} : ~Overran(q)
  /\ result # "too_long" => \A p \in Pids : ~Overran(p)
  /\ result = "unfinished" => time = TIMEOUT /\ still_running

(* The processor is given to one process at a time: the processes that     *)
(* have finished did so in different time units, in none later than the    *)
(* current one, and those that finished by time t had, together, no more   *)
(* than t + 1 units.                                                       *)
Done == {p \in Pids : ~Unfinished(p)}

OneProcessPerUnit ==
  \A p \in Done :
    /\ end_time[p] < time
    /\ \A q \in Done \ {p} : end_time[q] # end_time[p]
    /\ LET earlier == {q \in Done : end_time[q] <= end_time[p]}
       IN  MapThenSumSet(LAMBDA q : processing_time[q], earlier) <= end_time[p] + 1

(* A process is handed to the submission in the very time unit it arrives, *)
(* before that unit's choice is made, and never twice: at the loop test    *)
(* the processes handed over are those of the earlier units.               *)
AdmittedOnTime ==
  /\ pc = "loop" => admitted = {p \in Pids : arrival_time[p] < time}
  /\ \A p \in admitted : arrival_time[p] <= time

(* What line 197 says of a PID that no process has: "Invalid process       *)
(* scheduled - stop".  A simulation never ends in a crash.                 *)
InvalidProcessStops == result # "crashed"

(* The simulation ends, whatever the submission returns.                   *)
Terminates == <>(pc = "done")
===============================================================================
