------------------------------ MODULE Simulator ------------------------------
(***************************************************************************)
(* The discrete-time process scheduling simulator of                       *)
(* src/assignments/assignment4/simulator/simulator.c, from the moment the  *)
(* processes have been read (main, line 391) to the end of the program.    *)
(*                                                                         *)
(* simulator.c #includes one scheduler and calls its two functions,        *)
(*   add_to_ready_queue(process)        once per process, at its arrival   *)
(*   get_next_scheduled_process()       once per time unit.                *)
(* This module is the simulator's half of that interface: a scheduler      *)
(* module EXTENDS it, conjoins its own half to Admit and Account, and      *)
(* defines Next.                                                           *)
(*                                                                         *)
(* The array processes[] is indexed here by PID (the loader rejects        *)
(* repeated PIDs, lines 375-381).  The order of the array matters only for *)
(* the order of the add_to_ready_queue calls of one time unit, since every *)
(* process is added once; Admit takes the due processes in any order, and  *)
(* so covers every order of the lines of the schedule file.                *)
(***************************************************************************)
EXTENDS Limits, Integers, FiniteSets, FiniteSetsExt

CONSTANTS
  Pids,      \* the PIDs of the schedule file
  Arrivals,  \* the arrival times a process may have
  Bursts,    \* the processing times a process may have
  UINT       \* the number of values of an unsigned int (2^32)

ASSUME SimulatorAssumption ==
  /\ IsFiniteSet(Pids)
  /\ Pids # {}                         \* line 345
  /\ Pids \subseteq Nat \ {0}          \* line 355
  /\ TIMEOUT \in Nat \ {0}
  /\ Arrivals \subseteq 0 .. TIMEOUT - 1     \* line 365
  /\ Bursts \subseteq 1 .. TIMEOUT - 1       \* line 370
  /\ UINT \in Nat
  /\ TIMEOUT < UINT

(* What get_next_scheduled_process returns when nothing is to run.         *)
Idle == 0

VARIABLES
  arrival_time,     \* processes[p].initial.arrival_time
  processing_time,  \* processes[p].initial.processing_time
  processed_time,   \* processes[p].processed_time
  end_time,         \* processes[p].end_time
  time,             \* the loop counter of run_simulation
  admitted,         \* the processes add_to_ready_queue was called for
  pc,               \* "loop": at the loop test; "body": in the loop; "done"
  result            \* how run_simulation ended

workload == <<arrival_time, processing_time>>
accounts == <<processed_time, end_time>>
simVars == <<arrival_time, processing_time, processed_time, end_time, time,
             admitted, pc, result>>

(* Every number of time units a process may be recorded to have run: one   *)
(* more than it needs is noticed and ends the simulation.                  *)
SimTypeOK ==
  /\ arrival_time \in [Pids -> Arrivals]
  /\ processing_time \in [Pids -> Bursts]
  /\ processed_time \in [Pids -> 0 .. TIMEOUT]
  /\ end_time \in [Pids -> 0 .. TIMEOUT]
  /\ time \in 0 .. TIMEOUT
  /\ admitted \subseteq Pids
  /\ pc \in {"loop", "body", "done"}
  /\ result \in {"running", "complete", "unfinished", "too_long", "crashed"}

(***************************************************************************)
(* Initial states: any workload the loader accepts.                        *)
(***************************************************************************)
SimInit ==
  /\ arrival_time \in [Pids -> Arrivals]
  /\ processing_time \in [Pids -> Bursts]
  /\ processed_time = [p \in Pids |-> 0]
  /\ end_time = [p \in Pids |-> 0]
  /\ time = 0
  /\ admitted = {}
  /\ pc = "loop"
  /\ result = "running"

(***************************************************************************)
(* run_simulation                                                          *)
(***************************************************************************)
Unfinished(p) == processed_time[p] < processing_time[p]

still_running == \E p \in Pids : Unfinished(p)

(* Mutants of Due: an arrival is noticed a unit late, or a unit early.     *)
DueLate == {p \in Pids : arrival_time[p] + 1 = time}
DueEarly == {p \in Pids : arrival_time[p] = time + 1}

(* The processes whose arrival the loop of lines 183-187 acts on now.      *)
Due == {p \in Pids : arrival_time[p] = time}

(* The test of the for loop, when it holds.                                *)
EnterIteration ==
  /\ pc = "loop"
  /\ time < TIMEOUT
  /\ still_running
  /\ pc' = "body"
  /\ UNCHANGED <<workload, accounts, time, admitted, result>>

(* The test of the for loop, when it fails, and the return after it.       *)
LeaveLoop ==
  /\ pc = "loop"
  /\ ~(time < TIMEOUT /\ still_running)
  /\ pc' = "done"
  /\ result' = IF still_running THEN "unfinished" ELSE "complete"
  /\ UNCHANGED <<workload, accounts, time, admitted>>

(* The simulator's half of the call add_to_ready_queue(processes[p]).      *)
Admit(p) ==
  /\ pc = "body"
  /\ p \in Due \ admitted
  /\ admitted' = admitted \cup {p}
  /\ UNCHANGED <<workload, accounts, time, pc, result>>

(* The call get_next_scheduled_process() is made after the arrivals loop.  *)
AtGetNext == pc = "body" /\ Due \subseteq admitted

NextTimeUnit == time' = time + 1 /\ pc' = "loop" /\ UNCHANGED result

Stop(verdict) == pc' = "done" /\ result' = verdict /\ UNCHANGED time

(* Mutant of AccountIdle: only units that are used are counted.            *)
AccountIdleUncounted ==
  /\ pc' = "loop"
  /\ UNCHANGED <<accounts, time, result>>

(* The scheduler returned 0.                                               *)
AccountIdle ==
  /\ NextTimeUnit
  /\ UNCHANGED accounts

(* Mutant of AccountUnit: the end time is that of the next unit.           *)
AccountUnitEndsLate(p) ==
  /\ Unfinished(p)
  /\ processed_time' = [processed_time EXCEPT ![p] = @ + 1]
  /\ end_time' = IF processed_time[p] + 1 = processing_time[p]
                 THEN [end_time EXCEPT ![p] = time + 1]
                 ELSE end_time
  /\ NextTimeUnit

(* The scheduler returned a process that still needs the CPU.              *)
AccountUnit(p) ==
  /\ Unfinished(p)
  /\ processed_time' = [processed_time EXCEPT ![p] = @ + 1]
  /\ end_time' = IF processed_time[p] + 1 = processing_time[p]
                 THEN [end_time EXCEPT ![p] = time]
                 ELSE end_time
  /\ NextTimeUnit

(* Mutant of AccountOverrun: the test of line 206 is missing.              *)
AccountOverrunUnnoticed(p) ==
  /\ ~Unfinished(p)
  /\ processed_time' = [processed_time EXCEPT ![p] = @ + 1]
  /\ UNCHANGED end_time
  /\ NextTimeUnit

(* The scheduler returned a process that has finished.                     *)
AccountOverrun(p) ==
  /\ ~Unfinished(p)
  /\ processed_time' = [processed_time EXCEPT ![p] = @ + 1]
  /\ UNCHANGED end_time
  /\ Stop("too_long")

(* The array is indexed by PID here.  A PID that is not found has the      *)
(* index -1 in the code, which get_pid_index returns as an unsigned int.   *)
get_pid_index(pid) == IF pid \in Pids THEN pid ELSE UINT - 1

(* The scheduler returned a PID of no process.  The test `index < 0' of    *)
(* line 196, whose branch would return, does not hold of an unsigned int,  *)
(* and processes[UINT - 1] is accessed, some 80 GB beyond the array: the   *)
(* program is killed.                                                      *)
AccountUnknown(pid) ==
  /\ ~(get_pid_index(pid) < 0)
  /\ UNCHANGED accounts
  /\ Stop("crashed")

(* The simulator's half of a time unit for which the scheduler returned    *)
(* pid.                                                                    *)
Account(pid) ==
  /\ AtGetNext
  /\ UNCHANGED <<workload, admitted>>
  /\ \/ pid = Idle /\ AccountIdle
     \/ pid \in Pids /\ AccountUnit(pid)
     \/ pid \in Pids /\ AccountOverrun(pid)
     \/ pid \notin Pids \cup {Idle} /\ AccountUnknown(pid)

calculate_turnaround_time(p) == (end_time[p] - arrival_time[p] + 1) % UINT

calculate_wait_time(p) == (calculate_turnaround_time(p) - processed_time[p]) % UINT

(* The averages printed are these sums over the number of processes.       *)
TotalTurnaround == MapThenSumSet(calculate_turnaround_time, Pids)

TotalWait == MapThenSumSet(calculate_wait_time, Pids)

(***************************************************************************)
(* The order every scheduler sorts its arrivals in.                        *)
(***************************************************************************)
Before(p, q) ==
  \/ arrival_time[p] < arrival_time[q]
  \/ arrival_time[p] = arrival_time[q] /\ p < q
==============================================================================
