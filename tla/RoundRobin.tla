------------------------------ MODULE RoundRobin ------------------------------
(***************************************************************************)
(* Round robin: submissions/submission/rr.c inside the simulator.          *)
(***************************************************************************)
EXTENDS Simulator, ReadyList

CONSTANT QUANTUM   \* line 116 (3 there)

ASSUME QuantumAssumption == QUANTUM \in Nat \ {0}

VARIABLES
  process_list,         \* the PIDs of the nodes after the sentinel
  node_processed_time,  \* the processed_time field of the process's node
  quantum_used          \* the quantum_used field of the process's node

schedVars == <<process_list, node_processed_time, quantum_used>>
vars == <<simVars, schedVars>>

TypeOK ==
  /\ SimTypeOK
  /\ process_list \in Seq(Pids)
  /\ node_processed_time \in [Pids -> 0 .. TIMEOUT]
  /\ quantum_used \in [Pids -> 0 .. TIMEOUT]

Init ==
  /\ SimInit
  /\ process_list = <<>>
  /\ node_processed_time = [p \in Pids |-> 0]
  /\ quantum_used = [p \in Pids |-> 0]

add_to_ready_queue(p) ==
  /\ Admit(p)
  /\ process_list' = SortedInsert(process_list, p, arrival_time)
  /\ node_processed_time' = [node_processed_time EXCEPT ![p] = 0]
  /\ quantum_used' = [quantum_used EXCEPT ![p] = 0]

(* Mutants of ListAfter: the process is not removed before it is added at  *)
(* the end; the quantum is tested with >=, or one unit early; it is tested *)
(* before the end of the process.                                          *)
ListAfterAddedTwice(processed, used) ==
  LET p == Head(process_list)
  IN  IF processed = processing_time[p] THEN remove_next(process_list, 0)
      ELSE IF used = QUANTUM THEN AddLast(process_list, p)
      ELSE process_list

ListAfterAtLeast(processed, used) ==
  LET p == Head(process_list)
      rest == remove_next(process_list, 0)
  IN  IF processed = processing_time[p] THEN rest
      ELSE IF used >= QUANTUM THEN AddLast(rest, p)
      ELSE process_list

ListAfterEarly(processed, used) ==
  LET p == Head(process_list)
      rest == remove_next(process_list, 0)
  IN  IF processed = processing_time[p] THEN rest
      ELSE IF used = QUANTUM - 1 THEN AddLast(rest, p)
      ELSE process_list

ListAfterQuantumFirst(processed, used) ==
  LET p == Head(process_list)
      rest == remove_next(process_list, 0)
  IN  IF used = QUANTUM THEN AddLast(rest, p)
      ELSE IF processed = processing_time[p] THEN rest
      ELSE process_list

(* What becomes of the list after its head ran a unit, with which it has   *)
(* had `processed' units in all and `used' of its quantum: a finished      *)
(* process is freed, one whose quantum is used up goes to the end.         *)
ListAfter(processed, used) ==
  LET p == Head(process_list)
      rest == remove_next(process_list, 0)
  IN  IF processed = processing_time[p] THEN rest
      ELSE IF used = QUANTUM THEN AddLast(rest, p)
      ELSE process_list

(* Nothing sets quantum_used back to 0 when the process goes to the end.   *)
ScheduleHead ==
  /\ process_list # <<>>
  /\ LET p == Head(process_list)
     IN  /\ Account(p)
         /\ node_processed_time' = [node_processed_time EXCEPT ![p] = @ + 1]
         /\ quantum_used' = [quantum_used EXCEPT ![p] = @ + 1]
         /\ process_list' = ListAfter(node_processed_time'[p], quantum_used'[p])

ScheduleNone ==
  /\ process_list = <<>>
  /\ Account(Idle)
  /\ UNCHANGED schedVars

get_next_scheduled_process == ScheduleHead \/ ScheduleNone

Next ==
  \/ (EnterIteration \/ LeaveLoop) /\ UNCHANGED schedVars
  \/ \E p \in Pids : add_to_ready_queue(p)
  \/ get_next_scheduled_process

Spec == Init /\ [][Next]_vars

(* The program is sequential: while it can take a step, it does.           *)
FairSpec == Spec /\ WF_vars(Next)

(***************************************************************************)
(* Properties                                                              *)
(***************************************************************************)
Ready == ToSet(process_list)

Contract == INSTANCE ReadyContract WITH ready <- Ready

(* rr.c is a scheduler as simulator.c wants one, and with it the           *)
(* simulation ends.                                                        *)
ImplementsContract == Contract!FairSpec

(* The counts of a listed process's node agree with the simulator's, and   *)
(* no process is listed twice.                                             *)
ListFaithful ==
  /\ TypeOK
  /\ \A p \in Ready : /\ node_processed_time[p] = processed_time[p]
                      /\ quantum_used[p] = processed_time[p]
  /\ IsInjective(process_list)

(* Who is behind the head of the list: processes that have had no turn, or *)
(* one turn, of QUANTUM units; those with the same number of turns are in  *)
(* the order of arrival time and PID.  Insertion by arrival time into a    *)
(* list that rotation has put out of that order still puts a new process   *)
(* where it belongs.                                                       *)
TurnsInArrivalOrder ==
  \A i, j \in 2 .. Len(process_list) :
    LET p == process_list[i]
        q == process_list[j]
    IN  /\ processed_time[p] \in {0, QUANTUM}
        /\ i < j /\ processed_time[p] = processed_time[q] => Before(p, q)

(* First turns are given in the order of arrival time and PID, and none is *)
(* cut short: a process that has run at all was preceded by a whole turn   *)
(* of every process before it.                                             *)
FirstTurnsComplete ==
  \A p, q \in Pids :
    Before(p, q) /\ processed_time[q] > 0
      => processed_time[p] >= Min({QUANTUM, processing_time[p]})

(* A process loses the processor at most once: on its second turn it runs  *)
(* until it has finished (which is not what round robin does: see          *)
(* SwitchesByModulo).                                                      *)
SecondTurnRunsToCompletion ==
  [][\A p \in Pids :
       processed_time[p] > QUANTUM /\ Unfinished(p) /\ time' # time
         => processed_time'[p] = processed_time[p] + 1]_vars

(* What line 109 says: "The process switches via a modulo operation on the *)
(* processed_time", with QUANTUM (line 108).  When a process has had a     *)
(* multiple of QUANTUM units and needs more, another one on the list is    *)
(* next.                                                                   *)
SwitchesByModulo ==
  [][\A p \in Ready :
       /\ processed_time'[p] = processed_time[p] + 1
       /\ processed_time'[p] % QUANTUM = 0
       /\ processed_time'[p] < processing_time[p]
       /\ Len(process_list) > 1
       => Head(process_list') # p]_vars

(* What line 67 says of the list: "Keeps a list of all processes, sorted   *)
(* by arrival time, then pid".                                             *)
SortedList == SortedByArrival(process_list, arrival_time)
===============================================================================
