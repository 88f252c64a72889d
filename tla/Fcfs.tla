--------------------------------- MODULE Fcfs ---------------------------------
(***************************************************************************)
(* First come, first served: submissions/submission/fcfs.c (the same file  *)
(* as algorithms/fcfs.c) inside the simulator.                             *)
(*                                                                         *)
(* The scheduler's nodes copy what they need of a process, and count the   *)
(* processed time a second time: node_processed_time[p] is the field of    *)
(* p's node, processed_time[p] the simulator's.  Nothing but the calling   *)
(* discipline keeps the two equal.                                         *)
(***************************************************************************)
EXTENDS Simulator, ReadyList

VARIABLES
  process_list,         \* the PIDs of the nodes after the sentinel
  node_processed_time   \* the processed_time field of the process's node

schedVars == <<process_list, node_processed_time>>
vars == <<simVars, schedVars>>

TypeOK ==
  /\ SimTypeOK
  /\ process_list \in Seq(Pids)
  /\ node_processed_time \in [Pids -> 0 .. TIMEOUT]

Init ==
  /\ SimInit
  /\ process_list = <<>>
  /\ node_processed_time = [p \in Pids |-> 0]

add_to_ready_queue(p) ==
  /\ Admit(p)
  /\ process_list' = SortedInsert(process_list, p, arrival_time)
  /\ node_processed_time' = [node_processed_time EXCEPT ![p] = 0]

(* The nodes that get_next_scheduled_process does not walk past.           *)
NeedsTime ==
  {i \in DOMAIN process_list :
     node_processed_time[process_list[i]] < processing_time[process_list[i]]}

(* Mutants of ScheduleFirst: the last such node is scheduled; the finished *)
(* process is not removed.                                                 *)
ScheduleLast ==
  /\ NeedsTime # {}
  /\ LET i == Max(NeedsTime)
         p == process_list[i]
     IN  /\ Account(p)
         /\ node_processed_time' = [node_processed_time EXCEPT ![p] = @ + 1]
         /\ process_list' = IF node_processed_time[p] + 1 = processing_time[p]
                            THEN remove_next(process_list, i - 1)
                            ELSE process_list

ScheduleFirstForever ==
  /\ NeedsTime # {}
  /\ LET p == process_list[Min(NeedsTime)]
     IN  /\ Account(p)
         /\ node_processed_time' = [node_processed_time EXCEPT ![p] = @ + 1]
         /\ UNCHANGED process_list

(* The call returns the PID of the first such node.                        *)
ScheduleFirst ==
  /\ NeedsTime # {}
  /\ LET i == Min(NeedsTime)
         p == process_list[i]
     IN  /\ Account(p)
         /\ node_processed_time' = [node_processed_time EXCEPT ![p] = @ + 1]
         /\ process_list' = IF node_processed_time[p] + 1 = processing_time[p]
                            THEN remove_next(process_list, i - 1)
                            ELSE process_list

(* The call walks off the end of the list.                                 *)
ScheduleNone ==
  /\ NeedsTime = {}
  /\ Account(Idle)
  /\ UNCHANGED schedVars

get_next_scheduled_process == ScheduleFirst \/ ScheduleNone

Next ==
  \/ (EnterIteration \/ LeaveLoop) /\ UNCHANGED schedVars
  \/ \E p \in Pids : add_to_ready_queue(p)
  \/ get_next_scheduled_process

Spec == Init /\ [][Next]_vars

(* The program is sequential: while it can take a step, it does.           *)
FairSpec == Spec /\ WF_vars(Next)

(***************************************************************************)
(* Properties                                                              *)
(***************************************************************************)
Ready == ToSet(process_list)

Contract == INSTANCE ReadyContract WITH ready <- Ready

(* fcfs.c is a scheduler as simulator.c wants one: the PIDs on its list    *)
(* are the processes that arrived and have not finished, it returns one of *)
(* them whenever there is one, and with it the simulation ends.            *)
ImplementsContract == Contract!FairSpec

(* The two counts of a listed process's time agree, and the list is sorted *)
(* as line 65 says, without repetitions.                                   *)
ListFaithful ==
  /\ TypeOK
  /\ \A p \in Ready : node_processed_time[p] = processed_time[p]
  /\ SortedByArrival(process_list, arrival_time)

(* The example of readme.md: processes 1, 2 and 3 arriving at 0, 2 and 6   *)
(* and needing 10, 1 and 2 units wait 4.33 units on average, with an       *)
(* average turnaround of 8.67.                                             *)
ReadmeExample ==
  /\ result = "complete"
  /\ workload = << <<0, 2, 6>>, <<10, 1, 2>> >>
  => TotalWait = 13 /\ TotalTurnaround = 26 /\ Cardinality(Pids) = 3

(* What FCFS means, computed from the workload alone: a process finishes   *)
(* its processing time after the later of its arrival and the end of the   *)
(* last process before it in the order of arrival time and PID, and has    *)
(* had nothing before that.  The statistics of the readme's example are    *)
(* those the readme gives.                                                 *)
FcfsTimes ==
  /\ \A p \in Pids :
       processed_time[p] > 0 =>
         LET earlier == {q \in Pids : Before(q, p)}
             start == Max({arrival_time[p]} \cup {end_time[q] + 1 : q \in earlier})
         IN  /\ \A q \in earlier : ~Unfinished(q)
             /\ ~Unfinished(p) => end_time[p] = start + processing_time[p] - 1
             /\ Unfinished(p) => processed_time[p] = time - start
  /\ ReadmeExample
===============================================================================
