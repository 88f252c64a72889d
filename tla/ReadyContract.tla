---------------------------- MODULE ReadyContract ----------------------------
(***************************************************************************)
(* What simulator.c asks of a scheduler (lines 27-39): the processes added *)
(* and not finished are the ready ones; get_next_scheduled_process returns *)
(* a ready process, and 0 only when there is none.  Which ready process it *)
(* returns is left open.  The five schedulers are shown to implement this  *)
(* specification, and inherit what is proved of it.                        *)
(***************************************************************************)
EXTENDS Simulator

VARIABLE ready   \* the processes added to the ready queue and not finished

vars == <<simVars, ready>>

TypeOK == SimTypeOK /\ ready \subseteq Pids

Init == SimInit /\ ready = {}

(* add_to_ready_queue                                                      *)
Add(p) == Admit(p) /\ ready' = ready \cup {p}

(* Mutant of Run: a finished process stays in the ready queue.             *)
RunKeepsFinished(p) == p \in ready /\ Account(p) /\ UNCHANGED ready

(* get_next_scheduled_process, when a process is ready: it leaves the      *)
(* ready queue with its last unit of processing time.                      *)
Run(p) ==
  /\ p \in ready
  /\ Account(p)
  /\ ready' = IF processed_time[p] + 1 = processing_time[p]
              THEN ready \ {p}
              ELSE ready

(* Mutant of RunNone: the processor may be left idle at any time.          *)
RunNoneAnytime == Account(Idle) /\ UNCHANGED ready

(* get_next_scheduled_process, when none is.                               *)
RunNone == ready = {} /\ Account(Idle) /\ UNCHANGED ready

Next ==
  \/ EnterIteration /\ UNCHANGED ready
  \/ LeaveLoop /\ UNCHANGED ready
  \/ \E p \in Pids : Add(p) \/ Run(p)
  \/ RunNone

Spec == Init /\ [][Next]_vars

FairSpec == Spec /\ WF_vars(Next)

(***************************************************************************)
(* Properties                                                              *)
(***************************************************************************)
(* The ready queue is exactly the processes that have arrived and are not  *)
(* finished: none is lost, none lingers.                                   *)
ReadyExact == ready = {p \in admitted : Unfinished(p)}

(* The simulator never has to stop a scheduler that keeps the contract.    *)
NeverStopped == result \notin {"too_long", "crashed"}

(* A process is given no more time than has passed since its arrival, and  *)
(* a finished one at most end_time - arrival_time + 1 of it.  The          *)
(* unsigned subtractions of the statistics rest on this.                   *)
ElapsedCoversService ==
  \A p \in Pids :
    /\ processed_time[p] > 0 => arrival_time[p] + processed_time[p] <= time
    /\ ~Unfinished(p) =>
         /\ arrival_time[p] + processing_time[p] <= end_time[p] + 1
         /\ end_time[p] < time

(* The averages of a successful simulation are computed without wrapping   *)
(* around: turnaround and wait are the differences of unbounded integers.  *)
StatisticsDoNotWrap ==
  result = "complete" =>
    \A p \in Pids :
      /\ calculate_turnaround_time(p) = end_time[p] - arrival_time[p] + 1
      /\ calculate_wait_time(p) = calculate_turnaround_time(p) - processing_time[p]
      /\ calculate_wait_time(p) >= 0

(* A reference for the length of the simulation: the processor is never    *)
(* idle while a process is ready, so the last unit of work is done at the  *)
(* latest arrival plus the work that arrives from then on, for the arrival *)
(* that makes this greatest.                                               *)
WorkFrom(p) ==
  MapThenSumSet(LAMBDA q : processing_time[q],
                {q \in Pids : arrival_time[q] >= arrival_time[p]})

Makespan == Max({arrival_time[p] + WorkFrom(p) : p \in Pids})

(* The order in which the scheduler runs the processes does not change     *)
(* when the simulation ends, nor whether it succeeds: it takes Makespan    *)
(* units, and fails exactly when that is more than TIMEOUT.                *)
MakespanIsFixed ==
  pc = "done" =>
    /\ result = "complete" <=> Makespan <= TIMEOUT
    /\ result = "complete" => time = Makespan

(* A time unit goes unused only when every process that has arrived has    *)
(* finished.                                                               *)
IdleOnlyWhenDone ==
  [][time' = time + 1 /\ processed_time' = processed_time
       => \A p \in Pids : arrival_time[p] <= time => ~Unfinished(p)]_vars

(* The simulation ends, with a verdict, for every workload.                *)
Terminates == <>(pc = "done")
===============================================================================
