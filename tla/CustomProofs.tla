----------------------------- MODULE CustomProofs -----------------------------
(***************************************************************************)
(* custom.c keeps the contract of simulator.c, for any set of processes    *)
(* and any workload, and the histories its scores are computed from say    *)
(* what happened.                                                          *)
(*                                                                         *)
(* The contract cannot be had without the histories: the smart queue is    *)
(* searched up to the first node without one, so that 0 is returned with   *)
(* no process ready only because every node has its history.  The          *)
(* invariant therefore joins that of the contract, HistoriesExact, and     *)
(* what is true of a turn while it lasts.                                  *)
(***************************************************************************)
EXTENDS Custom, OperatorProofs

C == INSTANCE ReadyContractProofs WITH ready <- Ready

(* A turn ends with its quantum, 2 units from the fast queue and 4 from    *)
(* the smart queue, and only a first turn is from the fast queue.          *)
InTurn(p, level) ==
  /\ quantum_used[p] < (level + 1) * 2
  /\ level = Fast <=> reschedule_count[p] = 0

TurnInv == current # NULL => InTurn(current, priority_level)

CInv == C!IInv /\ HistoriesExact /\ TurnInv

-----------------------------------------------------------------------------
(* The assumption of the contract's module is that of this one.            *)
LEMMA ContractAssumption == C!IsFiniteSet(Pids)
  BY SimulatorAssumption DEF C!IsFiniteSet, IsFiniteSet

(* The simulator's half of the calls is the same on both sides.            *)
LEMMA SameSimulator ==
  /\ C!SimInit <=> SimInit
  /\ C!SimTypeOK <=> SimTypeOK
  /\ C!EnterIteration <=> EnterIteration
  /\ C!LeaveLoop <=> LeaveLoop
  /\ \A p : C!Admit(p) <=> Admit(p)
  /\ \A p : C!Account(p) <=> Account(p)
  /\ \A p : C!Unfinished(p) <=> Unfinished(p)
<1>1. (C!SimInit <=> SimInit) /\ (C!SimTypeOK <=> SimTypeOK)
  BY DEF C!SimInit, SimInit, C!SimTypeOK, SimTypeOK
<1>2. \A p : C!Unfinished(p) <=> Unfinished(p)
  BY DEF C!Unfinished, Unfinished
<1>3. (C!EnterIteration <=> EnterIteration) /\ (C!LeaveLoop <=> LeaveLoop)
  BY DEF C!EnterIteration, EnterIteration, C!LeaveLoop, LeaveLoop,
         C!still_running, still_running, C!Unfinished, Unfinished,
         C!workload, workload, C!accounts, accounts
<1>4. \A p : C!Admit(p) <=> Admit(p)
  BY DEF C!Admit, Admit, C!Due, Due, C!workload, workload, C!accounts, accounts
<1>5. \A p : C!Account(p) <=> Account(p)
  BY DEF C!Account, Account, C!AtGetNext, AtGetNext, C!Due, Due, C!Idle, Idle,
         C!AccountIdle, AccountIdle, C!AccountUnit, AccountUnit,
         C!AccountOverrun, AccountOverrun, C!AccountUnknown, AccountUnknown,
         C!get_pid_index, get_pid_index, C!NextTimeUnit, NextTimeUnit,
         C!Stop, Stop, C!Unfinished, Unfinished,
         C!workload, workload, C!accounts, accounts
<1> QED
  BY <1>1, <1>2, <1>3, <1>4, <1>5

(* The ready processes have been admitted and need more time.              *)
LEMMA ReadyProcesses ==
  ASSUME CInv
  PROVE  /\ SimTypeOK
         /\ Ready = {p \in admitted : Unfinished(p)}
         /\ Ready \subseteq Pids
         /\ arrival_time \in [Pids -> Nat] /\ Pids \subseteq Nat /\ NULL \notin Pids
<1>1. SimTypeOK /\ Ready \subseteq Pids
  BY SameSimulator DEF CInv, C!IInv, C!TypeOK
<1>2. Ready = {p \in admitted : Unfinished(p)}
  BY SameSimulator DEF CInv, C!IInv, C!ReadyExact
<1>3. Arrivals \subseteq Nat /\ Pids \subseteq Nat /\ NULL \notin Pids
  BY SimulatorAssumption DEF NULL
<1>4. arrival_time \in [Pids -> Nat]
  BY <1>1, <1>3 DEF SimTypeOK
<1> QED
  BY <1>1, <1>2, <1>3, <1>4

(* The two queues hold each ready process once, but for the current one.   *)
LEMMA QueuesAreApart ==
  ASSUME CInv
  PROVE  /\ ListsOf(priority_queues, Queues, Pids)
         /\ priority_queues \in [Queues -> Seq(Pids)]
         /\ current \in Pids \cup {NULL} /\ priority_level \in Queues
         /\ \A queue \in Queues : Queued(queue) = ToSet(priority_queues[queue])
         /\ Waiting = {p \in Ready : p # current}
         /\ Waiting = Queued(Fast) \cup Queued(Smart)
         /\ Queued(Fast) \cap Queued(Smart) = {}
         /\ current # NULL => current \in Ready
         /\ process_histories = Ready
<1>1. /\ priority_queues \in [Queues -> Seq(Pids)]
      /\ current \in Pids \cup {NULL} /\ priority_level \in Queues
      /\ process_histories = Ready
  BY DEF CInv, HistoriesExact, HistoriesMatchNodes, NodesFaithful, TypeOK
<1>2. DOMAIN priority_queues = Queues
  BY <1>1
<1>3. Queued(Fast) \cap Queued(Smart) = {}
  BY DEF CInv, HistoriesExact, NodesFaithful
<1>4. ASSUME NEW l \in Queues, NEW m \in Queues, l # m
      PROVE  ToSet(priority_queues[l]) \cap ToSet(priority_queues[m]) = {}
  BY <1>3, <1>4 DEF Queues, Queued
<1>5. Apart(priority_queues)
  BY <1>2, <1>4 DEF Apart, CInv, HistoriesExact, NodesFaithful
<1>6. Waiting = {p \in Ready : p # current} /\ (current # NULL => current \in Ready)
  BY DEF CInv, HistoriesExact, NodesFaithful, Ready
<1> QED
  BY <1>1, <1>3, <1>5, <1>6 DEF Queued, Waiting, ListsOf

(* The fields of the nodes and of the histories are natural numbers, and   *)
(* those of the ready processes count what they are to count.              *)
LEMMA Fields ==
  ASSUME CInv
  PROVE  /\ node_processed_time \in [Pids -> 0 .. TIMEOUT]
         /\ quantum_used \in [Pids -> 0 .. TIMEOUT]
         /\ wait_time \in [Pids -> 0 .. TIMEOUT]
         /\ reschedule_count \in [Pids -> 0 .. TIMEOUT]
         /\ processed_time \in [Pids -> 0 .. TIMEOUT]
         /\ TIMEOUT \in Nat /\ time \in Nat
<1>1. /\ processed_time \in [Pids -> 0 .. TIMEOUT] /\ time \in 0 .. TIMEOUT /\ TIMEOUT \in Nat
  BY ReadyProcesses, SimulatorAssumption DEF SimTypeOK
<1> QED
  BY <1>1 DEF CInv, HistoriesExact, NodesFaithful, TypeOK

-----------------------------------------------------------------------------
(* Before anything has arrived the queues are empty.                       *)
LEMMA InitCInv == Init => C!Init /\ CInv
<1> SUFFICES ASSUME Init PROVE C!Init /\ CInv
  OBVIOUS
<1>1. \A queue \in Queues : priority_queues[queue] = <<>> /\ Queued(queue) = {}
  BY DEF Init, Queued, ToSet
<1>2. Waiting = {} /\ Ready = {}
  BY <1>1 DEF Init, Waiting, Ready, Queues
<1>3. C!Init
  BY <1>2, SameSimulator DEF Init, C!Init
<1>4. C!IInv
  BY <1>3, C!InitInv, SimulatorAssumption, ContractAssumption
<1>5. TypeOK
  <2>1. SimTypeOK
    BY <1>4, SameSimulator DEF C!IInv, C!TypeOK
  <2> QED
    BY <2>1, SimulatorAssumption DEF Init, TypeOK, Queues
<1>6. /\ \A queue \in Queues : IsInjective(priority_queues[queue])
      /\ SortedByArrival(priority_queues[Fast], arrival_time)
      /\ Queued(Fast) = {} /\ Queued(Smart) = {}
  BY <1>1 DEF IsInjective, SortedByArrival, Queues
<1>7. NodesFaithful
  BY <1>2, <1>5, <1>6 DEF NodesFaithful
<1>8. HistoriesExact
  BY <1>2, <1>7
     DEF Init, HistoriesExact, HistoriesMatchNodes, WaitTimeExact, RescheduleCountExact
<1> QED
  BY <1>3, <1>4, <1>8 DEF Init, CInv, TurnInv

(* An arrival goes to the fast queue, in its place.                        *)
LEMMA ArrivalEntersFast ==
  ASSUME CInv, NEW p \in Pids, p \notin Ready,
         priority_queues' =
           [priority_queues EXCEPT ![Fast] = SortedInsert(@, p, arrival_time)]
  PROVE  /\ ListsOf(priority_queues', Queues, Pids)
         /\ Queued(Fast)' = Queued(Fast) \cup {p} /\ Queued(Smart)' = Queued(Smart)
         /\ SortedByArrival(priority_queues'[Fast], arrival_time)
<1>1. ListsOf(priority_queues, Queues, Pids) /\ Fast \in Queues
  BY QueuesAreApart DEF Queues
<1>2. OrderedList(priority_queues[Fast], Pids, arrival_time)
  BY <1>1, QueuesAreApart, ReadyProcesses
     DEF CInv, HistoriesExact, NodesFaithful, OrderedList
<1>3. OnNone(p, priority_queues, Queues)
  BY QueuesAreApart DEF OnNone, Queues
<1>4. Replaced(priority_queues', priority_queues, Fast,
               SortedInsert(priority_queues[Fast], p, arrival_time))
  BY DEF Replaced
<1> DEFINE new == priority_queues'
           arrival == arrival_time
<1>5. /\ ListsOf(new, Queues, Pids)
      /\ ListGains(new, priority_queues, Queues, Fast, p)
      /\ OrderedList(new[Fast], Pids, arrival)
  <2>1. /\ Replaced(new, priority_queues, Fast, SortedInsert(priority_queues[Fast], p, arrival))
        /\ OrderedList(priority_queues[Fast], Pids, arrival)
    BY <1>2, <1>4
  <2> HIDE DEF new, arrival
  <2> QED
    BY <1>1, <1>3, <2>1, SortedIntoLists
<1>6. Fast # Smart /\ Smart \in Queues
  BY DEF Fast, Smart, Queues
<1> QED
  BY <1>1, <1>5, <1>6 DEF ListGains, OrderedList, Queued

(* add_to_ready_queue is the contract's Add, and starts a history.         *)
LEMMA AddRefines ==
  ASSUME CInv, NEW p \in Pids, add_to_ready_queue(p)
  PROVE  C!Add(p) /\ (C!IInv' => HistoriesExact' /\ TurnInv')
<1>1. /\ p \notin admitted /\ p \notin Ready /\ arrival_time[p] = time
      /\ UNCHANGED <<arrival_time, processing_time, processed_time, time, current,
                     priority_level>>
      /\ priority_queues' =
           [priority_queues EXCEPT ![Fast] = SortedInsert(@, p, arrival_time)]
      /\ node_processed_time' = [node_processed_time EXCEPT ![p] = 0]
      /\ quantum_used' = [quantum_used EXCEPT ![p] = 0]
      /\ wait_time' = [wait_time EXCEPT ![p] = 0]
      /\ reschedule_count' = [reschedule_count EXCEPT ![p] = 0]
      /\ process_histories' = process_histories \cup {p}
  BY ReadyProcesses
     DEF add_to_ready_queue, init_process_history, Admit, Due, workload, accounts
<1>2. /\ ListsOf(priority_queues', Queues, Pids)
      /\ Queued(Fast)' = Queued(Fast) \cup {p} /\ Queued(Smart)' = Queued(Smart)
      /\ SortedByArrival(priority_queues'[Fast], arrival_time)
  BY <1>1, ArrivalEntersFast
<1>3. Waiting' = Waiting \cup {p} /\ Ready' = Ready \cup {p}
  BY <1>1, <1>2 DEF Waiting, Ready
<1>4. C!Add(p)
  BY <1>3, SameSimulator DEF C!Add, add_to_ready_queue
<1>5. processed_time[p] = 0 /\ p # current
  BY <1>1, SameSimulator, QueuesAreApart, ReadyProcesses
     DEF CInv, C!IInv, C!AdmissionInv
<1>6. ASSUME C!IInv' PROVE HistoriesExact' /\ TurnInv'
  <2>1. TypeOK'
    <3>1. SimTypeOK'
      BY <1>6, SameSimulator DEF C!IInv, C!TypeOK, C!SimTypeOK, SimTypeOK
    <3>2. /\ node_processed_time' \in [Pids -> 0 .. TIMEOUT]
          /\ quantum_used' \in [Pids -> 0 .. TIMEOUT]
          /\ wait_time' \in [Pids -> 0 .. TIMEOUT]
          /\ reschedule_count' \in [Pids -> 0 .. TIMEOUT]
      BY <1>1, Fields
    <3>3. /\ priority_queues' \in [Queues -> Seq(Pids)] /\ current' \in Pids \cup {NULL}
          /\ priority_level' \in Queues /\ process_histories' \subseteq Pids
      BY <1>1, <1>2, QueuesAreApart, ReadyProcesses DEF ListsOf
    <3> QED
      BY <3>1, <3>2, <3>3 DEF TypeOK
  <2>2. ASSUME NEW q \in Ready'
        PROVE  /\ node_processed_time'[q] = processed_time'[q]
               /\ wait_time'[q] + processed_time'[q] = time' - arrival_time'[q]
               /\ processed_time'[q] =
                    quantum_used'[q]
                      + (IF reschedule_count'[q] = 0 THEN 0
                         ELSE 2 + 4 * (reschedule_count'[q] - 1))
    <3>1. CASE q = p
      BY <3>1, <1>1, <1>5, Fields
    <3>2. CASE q # p
      <4>1. q \in Ready /\ q \in Pids
        BY <3>2, <2>2, <1>3, ReadyProcesses
      <4>2. /\ node_processed_time'[q] = node_processed_time[q]
            /\ wait_time'[q] = wait_time[q] /\ quantum_used'[q] = quantum_used[q]
            /\ reschedule_count'[q] = reschedule_count[q]
        BY <3>2, <4>1, <1>1, Fields
      <4> QED
        BY <4>1, <4>2, <1>1
           DEF CInv, HistoriesExact, NodesFaithful, WaitTimeExact, RescheduleCountExact
    <3> QED
      BY <3>1, <3>2
  <2>3. \A q \in Waiting' : q # current' /\ quantum_used'[q] = 0
    <3>1. \A q \in Waiting : q # current /\ quantum_used[q] = 0 /\ q \in Pids
      BY QueuesAreApart, ReadyProcesses DEF CInv, HistoriesExact, NodesFaithful
    <3> QED
      BY <3>1, <1>1, <1>3, <1>5, Fields
  <2>4. /\ \A queue \in Queues : IsInjective(priority_queues'[queue])
        /\ \A q \in Queued(Fast)' : processed_time'[q] = 0
        /\ \A q \in Queued(Smart)' : processed_time'[q] > 0
    <3>1. DOMAIN priority_queues' = Queues
      BY <1>2 DEF ListsOf
    <3> QED
      BY <3>1, <1>1, <1>2, <1>5
         DEF Apart, ListsOf, CInv, HistoriesExact, NodesFaithful
  <2>5. HistoriesMatchNodes'
    BY <1>1, <1>3 DEF CInv, HistoriesExact, HistoriesMatchNodes
  <2>6. NodesFaithful'
    BY <2>1, <2>2, <2>3, <2>4, <1>1, <1>2 DEF NodesFaithful
  <2>7. TurnInv'
    BY <1>1, <1>5, QueuesAreApart, Fields DEF CInv, TurnInv, InTurn
  <2> QED
    BY <2>2, <2>5, <2>6, <2>7 DEF HistoriesExact, WaitTimeExact, RescheduleCountExact
<1> QED
  BY <1>4, <1>6
-----------------------------------------------------------------------------
(* What get_next_scheduled_process has when it starts to account for the   *)
(* unit: a ready process in its turn, out of the queues, which are         *)
(* otherwise as before.                                                    *)
Chosen(p, level, queues) ==
  /\ p \in Ready /\ current \in {p, NULL} /\ level \in Queues
  /\ ListsOf(queues, Queues, Pids)
  /\ \A queue \in Queues : ToSet(queues[queue]) = Queued(queue) \ {p}
  /\ SortedByArrival(queues[Fast], arrival_time)
  /\ InTurn(p, level)

LEMMA CurrentIsChosen ==
  ASSUME CInv, current # NULL
  PROVE  Chosen(current, priority_level, priority_queues)
<1>1. \A queue \in Queues : current \notin Queued(queue)
  BY QueuesAreApart DEF Queues
<1>2. SortedByArrival(priority_queues[Fast], arrival_time) /\ InTurn(current, priority_level)
  BY DEF CInv, HistoriesExact, NodesFaithful, TurnInv
<1> QED
  BY <1>1, <1>2, QueuesAreApart DEF Chosen

(* A process that waits begins a turn: its first from the fast queue, a    *)
(* later one from the smart queue.                                         *)
LEMMA WaitingTurns ==
  ASSUME CInv
  PROVE  /\ \A p \in Queued(Fast) : InTurn(p, Fast)
         /\ \A p \in Queued(Smart) : InTurn(p, Smart)
<1>1. ASSUME NEW p \in Waiting
      PROVE  /\ quantum_used[p] = 0 /\ reschedule_count[p] \in Nat
             /\ processed_time[p] =
                  (IF reschedule_count[p] = 0 THEN 0 ELSE 2 + 4 * (reschedule_count[p] - 1))
  BY <1>1, QueuesAreApart, ReadyProcesses, Fields
     DEF CInv, HistoriesExact, NodesFaithful, RescheduleCountExact
<1>2. /\ \A p \in Queued(Fast) : p \in Waiting /\ processed_time[p] = 0
      /\ \A p \in Queued(Smart) : p \in Waiting /\ processed_time[p] > 0
  BY DEF Waiting, CInv, HistoriesExact, NodesFaithful
<1> QED
  BY <1>1, <1>2 DEF InTurn, Fast, Smart

(* The node at index end taken out of a queue.                             *)
LEMMA TakenIsChosen ==
  ASSUME CInv, current = NULL, NEW level \in Queues,
         NEW end \in 0 .. Len(priority_queues[level]) - 1, level = Fast => end = 0
  PROVE  LET p == priority_queues[level][end + 1]
             queues == [priority_queues EXCEPT ![level] = remove_next(@, end)]
         IN  p \in Queued(level) /\ Chosen(p, level, queues)
<1> DEFINE list == priority_queues[level]
           p == list[end + 1]
           queues == [priority_queues EXCEPT ![level] = remove_next(@, end)]
<1>1. /\ ListsOf(priority_queues, Queues, Pids) /\ list \in Seq(Pids)
      /\ \A l \in Queues : Queued(l) = ToSet(priority_queues[l])
      /\ DOMAIN priority_queues = Queues
      /\ level \in Queues /\ end \in 0 .. Len(priority_queues[level]) - 1
  BY QueuesAreApart
<1>2. /\ ListsOf(queues, Queues, Pids) /\ queues[level] = remove_next(list, end)
      /\ \A l \in Queues : l # level => queues[l] = priority_queues[l]
      /\ p \in ToSet(list)
      /\ \A l \in Queues : ToSet(queues[l]) = ToSet(priority_queues[l]) \ {p}
  <2>1. Replaced(queues, priority_queues, level, remove_next(priority_queues[level], end))
    BY DEF Replaced
  <2>2. /\ queues[level] = remove_next(list, end)
        /\ \A l \in Queues : l # level => queues[l] = priority_queues[l]
    BY <1>1
  <2> HIDE DEF queues
  <2>3. /\ ListsOf(queues, Queues, Pids)
        /\ priority_queues[level][end + 1] \in ToSet(priority_queues[level])
        /\ ListsLose(queues, priority_queues, Queues, priority_queues[level][end + 1])
    BY <1>1, <2>1, TakenOutOfLists
  <2> QED
    BY <2>3, <2>2 DEF ListsLose
<1>3. SortedByArrival(queues[Fast], arrival_time)
  <2>1. SortedByArrival(priority_queues[Fast], arrival_time)
    BY DEF CInv, HistoriesExact, NodesFaithful
  <2>2. CASE level = Fast
    <3>1. OrderedList(list, Pids, arrival_time) /\ list # <<>>
      BY <2>1, <2>2, <1>1, ReadyProcesses DEF OrderedList
    <3>2. OrderedList(remove_next(list, 0), Pids, arrival_time)
      BY <3>1, SortedWithoutHead
    <3> QED
      BY <3>2, <2>2, <1>2 DEF OrderedList
  <2>3. CASE level # Fast
    BY <2>1, <2>3, <1>2 DEF Queues
  <2> QED
    BY <2>2, <2>3
<1> HIDE DEF queues, p
<1>4. p \in Queued(level) /\ p \in Ready /\ InTurn(p, level)
  BY <1>1, <1>2, QueuesAreApart, WaitingTurns DEF Queues
<1>5. Chosen(p, level, queues)
  BY <1>1, <1>2, <1>3, <1>4 DEF Chosen
<1> QED
  BY <1>4, <1>5 DEF p, queues

(* The three ways a time unit ends for the process that had it.            *)
Effect(p, level, queues) ==
  LET finished == processed_time[p] + 1 = processing_time[p]
      quantumUp == quantum_used[p] + 1 >= (level + 1) * 2
  IN  /\ p \in Pids /\ p \in Ready /\ Account(p) /\ priority_level' = level
      /\ processed_time[p] < processing_time[p] /\ time' = time + 1
      /\ node_processed_time' = [node_processed_time EXCEPT ![p] = processed_time[p] + 1]
      /\ processed_time' = [processed_time EXCEPT ![p] = processed_time[p] + 1]
      /\ UNCHANGED <<arrival_time, processing_time, admitted>>
      /\ \A q \in Pids : wait_time'[q] = wait_time[q] + (IF q \in Waiting \ {p} THEN 1 ELSE 0)
      /\ ListsOf(priority_queues', Queues, Pids) /\ priority_queues'[Fast] = queues[Fast]
      /\ Queued(Fast)' = Queued(Fast) \ {p}
      /\ \/ /\ finished /\ current' = NULL
            /\ quantum_used' = [quantum_used EXCEPT ![p] = @ + 1]
            /\ process_histories' = Ready \ {p} /\ UNCHANGED reschedule_count
            /\ Queued(Smart)' = Queued(Smart) \ {p}
         \/ /\ ~finished /\ quantumUp /\ current' = NULL
            /\ quantum_used' = [quantum_used EXCEPT ![p] = 0]
            /\ reschedule_count' = [reschedule_count EXCEPT ![p] = @ + 1]
            /\ process_histories' = Ready
            /\ Queued(Smart)' = (Queued(Smart) \ {p}) \cup {p}
         \/ /\ ~finished /\ ~quantumUp /\ current' = p
            /\ quantum_used' = [quantum_used EXCEPT ![p] = @ + 1]
            /\ process_histories' = Ready /\ UNCHANGED reschedule_count
            /\ Queued(Smart)' = Queued(Smart) \ {p}

LEMMA ExecuteEffect ==
  ASSUME CInv, NEW p, NEW level, NEW queues, Chosen(p, level, queues),
         Execute(p, level, queues)
  PROVE  Effect(p, level, queues)
<1> DEFINE finished == processed_time[p] + 1 = processing_time[p]
           quantumUp == quantum_used[p] + 1 >= (level + 1) * 2
<1>1. /\ p \in Pids /\ p \in Ready /\ processed_time[p] < processing_time[p]
      /\ node_processed_time[p] = processed_time[p]
  BY ReadyProcesses DEF Chosen, CInv, HistoriesExact, NodesFaithful, Unfinished
<1>2. /\ Account(p) /\ priority_level' = level
      /\ node_processed_time' = [node_processed_time EXCEPT ![p] = processed_time[p] + 1]
      /\ update_wait_times(queues)
  <2>1. node_processed_time' = [node_processed_time EXCEPT ![p] = @ + 1]
    BY DEF Execute
  <2> QED
    BY <1>1, <2>1, Fields DEF Execute
<1>3. /\ processed_time' = [processed_time EXCEPT ![p] = processed_time[p] + 1]
      /\ UNCHANGED <<arrival_time, processing_time, admitted>> /\ time' = time + 1
  <2>1. /\ processed_time' = [processed_time EXCEPT ![p] = @ + 1]
        /\ UNCHANGED <<arrival_time, processing_time, admitted>> /\ time' = time + 1
    BY <1>1, <1>2, ReadyProcesses, SimulatorAssumption
       DEF Account, AccountUnit, AccountOverrun, Unfinished, workload, Idle, NextTimeUnit
  <2> QED
    BY <1>1, <2>1, Fields
<1>4. /\ ListsOf(queues, Queues, Pids)
      /\ ToSet(queues[Fast]) = Queued(Fast) \ {p} /\ ToSet(queues[Smart]) = Queued(Smart) \ {p}
      /\ Fast \in Queues /\ Smart \in Queues /\ Fast # Smart
  BY DEF Chosen, Queues, Fast, Smart
<1>5. \A q \in Pids : wait_time'[q] = wait_time[q] + (IF q \in Waiting \ {p} THEN 1 ELSE 0)
  <2>1. \A q \in Pids : wait_time'[q] =
          wait_time[q] + (IF /\ q \in process_histories
                             /\ \E queue \in Queues : q \in ToSet(queues[queue])
                          THEN 1 ELSE 0)
    BY <1>2 DEF update_wait_times
  <2>2. \A q : (\E queue \in Queues : q \in ToSet(queues[queue])) <=> q \in Waiting \ {p}
    BY <1>4 DEF Waiting, Queues
  <2>3. \A q \in Waiting : q \in process_histories
    BY QueuesAreApart
  <2>4. \A q \in Pids : (/\ q \in process_histories
                         /\ \E queue \in Queues : q \in ToSet(queues[queue]))
                        <=> q \in Waiting \ {p}
    BY <2>2, <2>3
  <2> QED
    BY <2>1, <2>4
<1>6. process_histories = Ready
  BY QueuesAreApart
<1>7. CASE finished /\ Finish(p, queues)
  <2>1. /\ priority_queues' = queues /\ current' = NULL
        /\ quantum_used' = [quantum_used EXCEPT ![p] = @ + 1]
        /\ process_histories' = Ready \ {p} /\ UNCHANGED reschedule_count
    BY <1>6, <1>7 DEF Finish
  <2>2. /\ Queued(Fast)' = Queued(Fast) \ {p} /\ Queued(Smart)' = Queued(Smart) \ {p}
        /\ ListsOf(priority_queues', Queues, Pids) /\ priority_queues'[Fast] = queues[Fast]
    BY <1>4, <2>1 DEF Queued
  <2> QED
    BY <1>1, <1>2, <1>3, <1>5, <1>7, <2>1, <2>2 DEF Effect
<1>8. CASE ~finished /\ quantumUp /\ Reschedule(p, queues)
  <2>1. /\ priority_queues' = [queues EXCEPT ![Smart] = AddLast(@, p)] /\ current' = NULL
        /\ quantum_used' = [quantum_used EXCEPT ![p] = 0]
        /\ reschedule_count' = [reschedule_count EXCEPT ![p] = @ + 1]
        /\ process_histories' = Ready
    BY <1>6, <1>8 DEF Reschedule, move_to_smart_queue
  <2>2. /\ ListsOf(priority_queues', Queues, Pids)
        /\ \A l \in Queues : l # Smart => priority_queues'[l] = queues[l]
        /\ ListGains(priority_queues', queues, Queues, Smart, p)
    <3>1. OnNone(p, queues, Queues)
      BY <1>4 DEF OnNone, Queues
    <3>2. Replaced(priority_queues', queues, Smart, AddLast(queues[Smart], p))
      BY <2>1 DEF Replaced
    <3> DEFINE new == priority_queues'
    <3>3. Replaced(new, queues, Smart, AddLast(queues[Smart], p))
      BY <3>2
    <3> HIDE DEF new
    <3>4. /\ ListsOf(new, Queues, Pids)
          /\ \A l \in Queues : l # Smart => new[l] = queues[l]
          /\ ListGains(new, queues, Queues, Smart, p)
      BY <1>1, <1>4, <3>1, <3>3, AddedLastToLists
    <3> QED
      BY <3>4 DEF new
  <2>3. /\ Queued(Fast)' = Queued(Fast) \ {p}
        /\ Queued(Smart)' = (Queued(Smart) \ {p}) \cup {p}
        /\ priority_queues'[Fast] = queues[Fast]
    BY <1>4, <2>2 DEF Queued, ListGains
  <2> QED
    BY <1>1, <1>2, <1>3, <1>5, <1>8, <2>1, <2>2, <2>3 DEF Effect
<1>9. CASE ~finished /\ ~quantumUp /\ KeepProcessor(p, queues)
  <2>1. /\ priority_queues' = queues /\ current' = p
        /\ quantum_used' = [quantum_used EXCEPT ![p] = @ + 1]
        /\ process_histories' = Ready /\ UNCHANGED reschedule_count
    BY <1>6, <1>9 DEF KeepProcessor
  <2>2. /\ Queued(Fast)' = Queued(Fast) \ {p} /\ Queued(Smart)' = Queued(Smart) \ {p}
        /\ ListsOf(priority_queues', Queues, Pids) /\ priority_queues'[Fast] = queues[Fast]
    BY <1>4, <2>1 DEF Queued
  <2> QED
    BY <1>1, <1>2, <1>3, <1>5, <1>9, <2>1, <2>2 DEF Effect
<1> QED
  BY <1>1, <1>7, <1>8, <1>9 DEF Execute

(* The processes waiting and ready after the unit.                         *)
LEMMA ReadyAfter ==
  ASSUME CInv, NEW p, NEW level, NEW queues, Chosen(p, level, queues),
         Effect(p, level, queues)
  PROVE  /\ current' = NULL \/ current' = p
         /\ \A q \in Waiting' : q # current' /\ q \in Ready /\ (q # p => q \in Waiting)
         /\ Ready \ {p} \subseteq Waiting
         /\ p \in Waiting' => /\ processed_time[p] + 1 # processing_time[p]
                              /\ quantum_used'[p] = 0 /\ p \notin Queued(Fast)'
         /\ Ready' = IF processed_time[p] + 1 = processing_time[p]
                     THEN Ready \ {p} ELSE Ready
<1>1. /\ p # NULL /\ p \in Pids /\ p \in Ready /\ current \in {p, NULL}
      /\ Ready = Waiting \cup ({current} \ {NULL})
      /\ Waiting = Queued(Fast) \cup Queued(Smart)
      /\ Waiting' = Queued(Fast)' \cup Queued(Smart)'
      /\ Ready' = Waiting' \cup ({current'} \ {NULL})
      /\ NULL \notin Ready
  BY ReadyProcesses DEF Effect, Chosen, Ready, Waiting
<1>2. Ready \ {p} \subseteq Waiting /\ Waiting \subseteq Ready /\ Waiting \ {p} = Ready \ {p}
  BY <1>1
<1>3. Queued(Fast)' = Queued(Fast) \ {p} /\ quantum_used \in [Pids -> 0 .. TIMEOUT]
  BY Fields DEF Effect
<1>4. CASE /\ processed_time[p] + 1 # processing_time[p] /\ current' = NULL
           /\ quantum_used' = [quantum_used EXCEPT ![p] = 0]
           /\ Queued(Smart)' = (Queued(Smart) \ {p}) \cup {p}
  <2>1. Waiting' = (Waiting \ {p}) \cup {p} /\ quantum_used'[p] = 0
    BY <1>1, <1>3, <1>4
  <2> QED
    BY <2>1, <1>1, <1>2, <1>3, <1>4
<1>5. CASE /\ current' = IF processed_time[p] + 1 = processing_time[p] THEN NULL ELSE p
           /\ Queued(Smart)' = Queued(Smart) \ {p}
  <2>1. Waiting' = Waiting \ {p}
    BY <1>1, <1>3, <1>5
  <2> QED
    BY <2>1, <1>1, <1>2, <1>5
<1> QED
  BY <1>4, <1>5 DEF Effect

(* What a turn's unit does to the counters of the process that has it.     *)
ServiceOf(used, count) == used + (IF count = 0 THEN 0 ELSE 2 + 4 * (count - 1))

LEMMA UnitOfTurn ==
  ASSUME NEW used \in Nat, NEW count \in Nat, NEW level \in Queues,
         used < (level + 1) * 2, level = Fast <=> count = 0
  PROVE  /\ ServiceOf(used, count) + 1 = ServiceOf(used + 1, count)
         /\ used + 1 >= (level + 1) * 2 =>
              /\ ServiceOf(used, count) + 1 = ServiceOf(0, count + 1)
              /\ count + 1 <= ServiceOf(used, count) + 1
         /\ used <= ServiceOf(used, count)
<1>1. CASE level = 0 /\ count = 0
  BY <1>1 DEF ServiceOf
<1>2. CASE level = 1 /\ count # 0
  BY <1>2 DEF ServiceOf
<1> QED
  BY <1>1, <1>2 DEF Queues, Fast, Smart
(* get_next_scheduled_process, with a process to run, is the contract's    *)
(* Run of it, and the histories count the unit.                            *)
LEMMA ExecuteRefines ==
  ASSUME CInv, NEW p, NEW level, NEW queues, Chosen(p, level, queues),
         Execute(p, level, queues)
  PROVE  p \in Pids /\ C!Run(p) /\ (C!IInv' => HistoriesExact' /\ TurnInv')
<1> DEFINE runs == processed_time[p] + 1
           used == quantum_used[p]
           count == reschedule_count[p]
           finished == runs = processing_time[p]
           quantumUp == used + 1 >= (level + 1) * 2
<1>1. Effect(p, level, queues)
  BY ExecuteEffect
<1>2. /\ p \in Pids /\ p \in Ready /\ Account(p) /\ priority_level' = level
      /\ time' = time + 1 /\ priority_queues'[Fast] = queues[Fast]
      /\ node_processed_time' = [node_processed_time EXCEPT ![p] = runs]
      /\ processed_time' = [processed_time EXCEPT ![p] = runs]
      /\ UNCHANGED <<arrival_time, processing_time, admitted>>
      /\ \A q \in Pids : wait_time'[q] = wait_time[q] + (IF q \in Waiting \ {p} THEN 1 ELSE 0)
      /\ ListsOf(priority_queues', Queues, Pids)
      /\ Queued(Fast)' = Queued(Fast) \ {p}
      /\ level \in Queues /\ InTurn(p, level)
      /\ SortedByArrival(queues[Fast], arrival_time)
      /\ Queued(Smart)' = (Queued(Smart) \ {p}) \/ Queued(Smart)' = (Queued(Smart) \ {p}) \cup {p}
  BY <1>1 DEF Effect, Chosen
<1>3. \/ /\ finished /\ current' = NULL
         /\ quantum_used' = [quantum_used EXCEPT ![p] = used + 1]
         /\ process_histories' = Ready \ {p} /\ UNCHANGED reschedule_count
      \/ /\ ~finished /\ quantumUp /\ current' = NULL
         /\ quantum_used' = [quantum_used EXCEPT ![p] = 0]
         /\ reschedule_count' = [reschedule_count EXCEPT ![p] = count + 1]
         /\ process_histories' = Ready
      \/ /\ ~finished /\ ~quantumUp /\ current' = p
         /\ quantum_used' = [quantum_used EXCEPT ![p] = used + 1]
         /\ process_histories' = Ready /\ UNCHANGED reschedule_count
  BY <1>1 DEF Effect
<1>4. /\ \A q \in Waiting' : q # current' /\ q \in Ready /\ (q # p => q \in Waiting)
      /\ Ready \ {p} \subseteq Waiting
      /\ p \in Waiting' => ~finished /\ quantum_used'[p] = 0 /\ p \notin Queued(Fast)'
      /\ Ready' = IF finished THEN Ready \ {p} ELSE Ready
  BY <1>1, ReadyAfter
<1>5. C!Run(p)
  BY <1>2, <1>4, SameSimulator DEF C!Run
<1>6. ASSUME C!IInv' PROVE HistoriesExact' /\ TurnInv'
  <2>1. SimTypeOK'
    BY <1>6, SameSimulator DEF C!IInv, C!TypeOK, C!SimTypeOK, SimTypeOK
  <2>2. /\ runs \in 0 .. TIMEOUT /\ time' \in 0 .. TIMEOUT /\ TIMEOUT \in Nat
        /\ used \in Nat /\ count \in Nat /\ processed_time[p] \in Nat /\ wait_time[p] \in Nat
        /\ processed_time[p] = ServiceOf(used, count)
        /\ wait_time[p] + processed_time[p] = time - arrival_time[p]
        /\ arrival_time[p] \in Nat /\ Ready \subseteq Pids /\ time \in Nat
    <3>1. processed_time'[p] = runs
      BY <1>2, Fields
    <3>2. used \in 0 .. TIMEOUT /\ count \in 0 .. TIMEOUT /\ wait_time[p] \in 0 .. TIMEOUT
      BY <1>2, Fields
    <3> QED
      BY <2>1, <3>1, <3>2, <1>2, Fields, ReadyProcesses
         DEF SimTypeOK, CInv, HistoriesExact, WaitTimeExact, RescheduleCountExact, ServiceOf
  <2>3. /\ runs = ServiceOf(used + 1, count)
        /\ quantumUp => runs = ServiceOf(0, count + 1) /\ count + 1 <= runs
        /\ used + 1 <= runs
    <3>1. used < (level + 1) * 2 /\ (level = Fast <=> count = 0)
      BY <1>2 DEF InTurn
    <3> HIDE DEF used, count
    <3> QED
      BY <3>1, <2>2, <1>2, UnitOfTurn
  <2>4. ASSUME NEW q \in Ready, q # p
        PROVE  /\ node_processed_time'[q] = node_processed_time[q]
               /\ processed_time'[q] = processed_time[q]
               /\ wait_time'[q] = wait_time[q] + 1
               /\ quantum_used'[q] = quantum_used[q]
               /\ reschedule_count'[q] = reschedule_count[q]
               /\ q \in Pids /\ arrival_time[q] \in Nat
               /\ wait_time[q] + processed_time[q] = time - arrival_time[q]
               /\ wait_time[q] \in Nat /\ processed_time[q] \in Nat
    <3>1. q \in Waiting /\ q \in Pids
      BY <2>4, <2>2, <1>4
    <3> QED
      BY <2>4, <3>1, <1>2, <1>3, Fields, ReadyProcesses DEF CInv, HistoriesExact, WaitTimeExact
  <2>5. ASSUME NEW q \in Ready'
        PROVE  /\ node_processed_time'[q] = processed_time'[q]
               /\ wait_time'[q] + processed_time'[q] = time' - arrival_time'[q]
               /\ processed_time'[q] = ServiceOf(quantum_used'[q], reschedule_count'[q])
    <3>1. q \in Ready /\ (q = p => ~finished)
      BY <2>5, <1>4
    <3>2. CASE q = p
      <4>1. /\ node_processed_time'[p] = runs /\ processed_time'[p] = runs
            /\ wait_time'[p] = wait_time[p]
        BY <1>2, <2>2, Fields
      <4>2. runs = ServiceOf(quantum_used'[p], reschedule_count'[p])
        <5>1. \/ quantum_used'[p] = used + 1 /\ reschedule_count'[p] = count
              \/ quantumUp /\ quantum_used'[p] = 0 /\ reschedule_count'[p] = count + 1
          BY <1>2, <1>3, <3>1, <3>2, Fields
        <5> QED
          BY <5>1, <2>3
      <4> QED
        BY <3>2, <4>1, <4>2, <1>2, <2>2
    <3>3. CASE q # p
      <4>1. /\ node_processed_time[q] = processed_time[q]
            /\ processed_time[q] = ServiceOf(quantum_used[q], reschedule_count[q])
        BY <3>1 DEF CInv, HistoriesExact, NodesFaithful, RescheduleCountExact, ServiceOf
      <4> QED
        BY <3>1, <3>3, <4>1, <2>2, <2>4, <1>2
    <3> QED
      BY <3>2, <3>3
  <2>6. /\ node_processed_time' \in [Pids -> 0 .. TIMEOUT]
        /\ quantum_used' \in [Pids -> 0 .. TIMEOUT]
        /\ reschedule_count' \in [Pids -> 0 .. TIMEOUT]
        /\ process_histories' \subseteq Pids
    <3>1. /\ used + 1 \in 0 .. TIMEOUT /\ 0 \in 0 .. TIMEOUT
          /\ quantumUp => count + 1 \in 0 .. TIMEOUT
      BY <2>2, <2>3
    <3> QED
      BY <3>1, <1>2, <1>3, <2>2, Fields
  <2>7. wait_time' \in [Pids -> 0 .. TIMEOUT]
    <3>1. ASSUME NEW q \in Pids PROVE wait_time'[q] \in 0 .. TIMEOUT
      <4>1. wait_time[q] \in 0 .. TIMEOUT
        BY Fields
      <4>2. CASE q \in Waiting \ {p}
        <5>1. q \in Ready /\ q # p
          BY <4>2, QueuesAreApart
        <5> QED
          BY <5>1, <2>2, <2>4, <1>2
      <4>3. CASE q \notin Waiting \ {p}
        BY <4>1, <4>3, <1>2
      <4> QED
        BY <4>2, <4>3
    <3>2. wait_time' = [q \in Pids |-> wait_time'[q]]
      BY <1>1, Fields DEF Effect, Execute, update_wait_times
    <3> QED
      BY <3>1, <3>2
  <2>8. TypeOK'
    <3>1. /\ priority_queues' \in [Queues -> Seq(Pids)] /\ current' \in Pids \cup {NULL}
          /\ priority_level' \in Queues
      BY <1>2, <1>3 DEF ListsOf
    <3> QED
      BY <2>1, <2>6, <2>7, <3>1 DEF TypeOK
  <2>9. \A q \in Waiting' : q # current' /\ quantum_used'[q] = 0
    <3> SUFFICES ASSUME NEW q \in Waiting' PROVE q # current' /\ quantum_used'[q] = 0
      OBVIOUS
    <3>1. CASE q = p
      BY <3>1, <1>4
    <3>2. CASE q # p
      BY <3>2, <1>4, <2>4 DEF CInv, HistoriesExact, NodesFaithful
    <3> QED
      BY <3>1, <3>2
  <2>10. /\ \A queue \in Queues : IsInjective(priority_queues'[queue])
         /\ \A q \in Queued(Fast)' : processed_time'[q] = 0
         /\ \A q \in Queued(Smart)' : processed_time'[q] > 0
         /\ SortedByArrival(priority_queues'[Fast], arrival_time')
    <3>1. DOMAIN priority_queues' = Queues
      BY <1>2 DEF ListsOf
    <3>2. /\ \A q \in Queued(Fast) : processed_time[q] = 0 /\ q \in Ready
          /\ \A q \in Queued(Smart) : processed_time[q] > 0 /\ q \in Ready
      BY DEF CInv, HistoriesExact, NodesFaithful, Ready, Waiting
    <3>3. \A q \in Queued(Fast)' : processed_time'[q] = 0
      BY <3>2, <1>2, <2>4
    <3>4. processed_time'[p] > 0
      BY <1>2, <2>2, Fields
    <3>5. \A q \in Queued(Smart)' : processed_time'[q] > 0
      BY <3>2, <3>4, <1>2, <2>4
    <3> QED
      BY <3>1, <3>3, <3>5, <1>2 DEF Apart, ListsOf
  <2>11. HistoriesMatchNodes'
    BY <1>3, <1>4 DEF HistoriesMatchNodes
  <2>12. TurnInv'
    <3>1. CASE current' # NULL
      <4>1. current' = p /\ ~quantumUp /\ quantum_used'[p] = used + 1 /\ reschedule_count'[p] = count
        BY <3>1, <1>2, <1>3, Fields
      <4>2. used + 1 < (level + 1) * 2 /\ (level = Fast <=> count = 0)
        BY <4>1, <1>2, <2>2 DEF InTurn, Queues, Fast, Smart
      <4> QED
        BY <4>1, <4>2, <1>2 DEF TurnInv, InTurn
    <3> QED
      BY <3>1 DEF TurnInv
  <2>13. NodesFaithful'
    BY <2>5, <2>8, <2>9, <2>10 DEF NodesFaithful
  <2>14. WaitTimeExact' /\ RescheduleCountExact'
    BY <2>5 DEF WaitTimeExact, RescheduleCountExact, ServiceOf
  <2> QED
    BY <2>11, <2>12, <2>13, <2>14 DEF HistoriesExact
<1> QED
  BY <1>2, <1>5, <1>6
(* When get_next_scheduled_process finds nothing to score, nothing waits:  *)
(* every node has its history.                                             *)
LEMMA NothingScored ==
  ASSUME CInv, ScheduleNone
  PROVE  Ready = {}
<1>1. current = NULL /\ priority_queues[Fast] = <<>> /\ Scored = {}
  BY DEF ScheduleNone
<1>2. priority_queues[Smart] \in Seq(Pids)
  BY QueuesAreApart DEF Queues
<1>3. ASSUME priority_queues[Smart] # <<>> PROVE FALSE
  <2>1. 1 \in DOMAIN priority_queues[Smart] /\ \A j \in 1 .. 1 : j = 1
    BY <1>2, <1>3
  <2>2. priority_queues[Smart][1] \in Waiting
    BY <2>1 DEF Waiting, Queued, ToSet
  <2>3. priority_queues[Smart][1] \in process_histories
    BY <2>2, QueuesAreApart
  <2>4. 1 \in Scored
    BY <2>1, <2>3 DEF Scored
  <2> QED
    BY <2>4, <1>1
<1> QED
  BY <1>1, <1>3 DEF Ready, Waiting, Queued, ToSet

(* The current process keeps its queue; otherwise the first of the fast    *)
(* queue is taken, and one of the smart queue when the fast one is empty.  *)
InOrder(p, level) ==
  IF current # NULL THEN current = p /\ priority_level = level
  ELSE IF level = Fast THEN \A q \in Queued(Fast) : q # p => Before(p, q)
  ELSE Queued(Fast) = {}

LEMMA HeadIsFirst ==
  ASSUME CInv, priority_queues[Fast] # <<>>, NEW q \in Queued(Fast),
         q # priority_queues[Fast][1]
  PROVE  Before(priority_queues[Fast][1], q)
<1> DEFINE list == priority_queues[Fast]
<1>1. list \in Seq(Pids) /\ SortedByArrival(list, arrival_time)
  BY QueuesAreApart DEF CInv, HistoriesExact, NodesFaithful, Queues
<1>2. PICK i \in 1 .. Len(list) : list[i] = q
  BY <1>1 DEF Queued, ToSet
<1>3. 1 \in 1 .. Len(list) /\ 1 < i
  BY <1>1, <1>2
<1> QED
  BY <1>1, <1>2, <1>3 DEF SortedByArrival, Before

(* The process executed is the current one, or one taken from a queue.     *)
LEMMA ExecutedIsChosen ==
  ASSUME CInv
  PROVE  /\ ScheduleCurrent => \E p, level, queues :
              Chosen(p, level, queues) /\ InOrder(p, level) /\ Execute(p, level, queues)
         /\ ScheduleFast => \E p, level, queues :
              Chosen(p, level, queues) /\ InOrder(p, level) /\ Execute(p, level, queues)
         /\ ScheduleSmart => \E p, level, queues :
              Chosen(p, level, queues) /\ InOrder(p, level) /\ Execute(p, level, queues)
<1>1. ASSUME ScheduleCurrent
      PROVE  \E p, level, queues :
               Chosen(p, level, queues) /\ InOrder(p, level) /\ Execute(p, level, queues)
  BY <1>1, CurrentIsChosen DEF ScheduleCurrent, InOrder
<1>2. ASSUME ScheduleFast
      PROVE  \E p, level, queues :
               Chosen(p, level, queues) /\ InOrder(p, level) /\ Execute(p, level, queues)
  <2> DEFINE list == priority_queues[Fast]
             p == list[0 + 1]
             queues == [priority_queues EXCEPT ![Fast] = remove_next(@, 0)]
  <2>1. list \in Seq(Pids) /\ list # <<>> /\ Fast \in Queues /\ current = NULL
    BY <1>2, QueuesAreApart DEF ScheduleFast, Queues
  <2>2. 0 \in 0 .. Len(list) - 1 /\ Head(list) = p
    BY <2>1
  <2>3. Execute(p, Fast, queues)
    BY <1>2, <2>2 DEF ScheduleFast
  <2>4. Chosen(p, Fast, queues)
    BY <2>1, <2>2, TakenIsChosen
  <2>5. InOrder(p, Fast)
    BY <2>1, HeadIsFirst DEF InOrder
  <2> HIDE DEF p, queues
  <2> QED
    BY <2>3, <2>4, <2>5
<1>3. ASSUME ScheduleSmart
      PROVE  \E p, level, queues :
               Chosen(p, level, queues) /\ InOrder(p, level) /\ Execute(p, level, queues)
  <2> DEFINE list == priority_queues[Smart]
  <2>1. list \in Seq(Pids) /\ Smart \in Queues /\ current = NULL /\ Smart # Fast
    BY <1>3, QueuesAreApart DEF ScheduleSmart, Queues, Smart, Fast
  <2>2. PICK i \in Best :
          Execute(list[i], Smart, [priority_queues EXCEPT ![Smart] = remove_next(@, i - 1)])
    BY <1>3 DEF ScheduleSmart
  <2>3. i \in DOMAIN list
    BY DEF Best, Scored
  <2> DEFINE end == i - 1
             p == list[end + 1]
             queues == [priority_queues EXCEPT ![Smart] = remove_next(@, end)]
  <2>4. end \in 0 .. Len(list) - 1 /\ end + 1 = i
    BY <2>1, <2>3
  <2>5. Execute(p, Smart, queues)
    BY <2>2, <2>4
  <2> HIDE DEF end
  <2>6. Chosen(p, Smart, queues)
    BY <2>1, <2>4, TakenIsChosen
  <2>7. InOrder(p, Smart)
    BY <1>3, <2>1 DEF ScheduleSmart, InOrder, Queued, ToSet
  <2> HIDE DEF p, queues
  <2> QED
    BY <2>5, <2>6, <2>7
<1> QED
  BY <1>1, <1>2, <1>3

(* Every step of the program is a step of the contract, or changes nothing *)
(* the contract speaks of, and keeps the invariant.                        *)
LEMMA StepRefines ==
  ASSUME CInv, [Next]_vars
  PROVE  [C!Next]_(C!vars) /\ CInv'
<1>1. CASE (EnterIteration \/ LeaveLoop) /\ UNCHANGED schedVars
  <2>1. Ready' = Ready /\ Waiting' = Waiting /\ \A q \in Queues : Queued(q)' = Queued(q)
    BY <1>1 DEF Ready, Waiting, Queued, schedVars
  <2>2. C!Next
    BY <1>1, <2>1, SameSimulator DEF C!Next
  <2>3. C!IInv'
    BY <2>2, C!NextKeepsInv, SimulatorAssumption, ContractAssumption DEF CInv
  <2>4. SimTypeOK'
    BY <2>3, SameSimulator DEF C!IInv, C!TypeOK, C!SimTypeOK, SimTypeOK
  <2>5. UNCHANGED <<arrival_time, processed_time, time>>
    BY <1>1 DEF EnterIteration, LeaveLoop, workload, accounts
  <2>6. NodesFaithful' /\ TurnInv' /\ HistoriesMatchNodes'
    BY <1>1, <2>1, <2>4, <2>5
       DEF CInv, HistoriesExact, NodesFaithful, TypeOK, HistoriesMatchNodes, TurnInv, InTurn,
           Queues, Queued, schedVars, nodeVars, historyVars
  <2>7. WaitTimeExact' /\ RescheduleCountExact'
    BY <1>1, <2>1, <2>5
       DEF CInv, HistoriesExact, WaitTimeExact, RescheduleCountExact,
           schedVars, nodeVars, historyVars
  <2> QED
    BY <2>2, <2>3, <2>6, <2>7 DEF CInv, HistoriesExact
<1>2. CASE \E p \in Pids : add_to_ready_queue(p)
  <2>1. PICK p \in Pids : add_to_ready_queue(p)
    BY <1>2
  <2>2. C!Next /\ (C!IInv' => HistoriesExact' /\ TurnInv')
    BY <2>1, AddRefines DEF C!Next
  <2> QED
    BY <2>2, C!NextKeepsInv, SimulatorAssumption, ContractAssumption DEF CInv
<1>3. CASE ScheduleCurrent \/ ScheduleFast \/ ScheduleSmart
  <2>1. PICK p, level, queues : Chosen(p, level, queues) /\ Execute(p, level, queues)
    BY <1>3, ExecutedIsChosen
  <2>2. p \in Pids /\ C!Run(p) /\ (C!IInv' => HistoriesExact' /\ TurnInv')
    BY <2>1, ExecuteRefines
  <2>3. C!Next
    BY <2>2 DEF C!Next
  <2> QED
    BY <2>2, <2>3, C!NextKeepsInv, SimulatorAssumption, ContractAssumption DEF CInv
<1>4. CASE ScheduleNone
  <2>1. /\ Ready = {} /\ Ready' = Ready /\ Waiting' = Waiting
        /\ Queued(Fast)' = Queued(Fast) /\ Queued(Smart)' = Queued(Smart)
    BY <1>4, NothingScored DEF ScheduleNone, Ready, Waiting, Queued
  <2>2. C!RunNone
    BY <1>4, <2>1, SameSimulator DEF ScheduleNone, C!RunNone, C!Idle, Idle
  <2>3. C!Next /\ C!IInv'
    BY <2>2, C!NextKeepsInv, SimulatorAssumption, ContractAssumption DEF C!Next, CInv
  <2>4. SimTypeOK'
    BY <2>3, SameSimulator DEF C!IInv, C!TypeOK, C!SimTypeOK, SimTypeOK
  <2>5. arrival_time' = arrival_time /\ current' = NULL /\ priority_level' \in Queues
    BY <1>4, QueuesAreApart DEF ScheduleNone, Account, workload, Queues
  <2>6. Queued(Fast) = {} /\ Queued(Smart) = {}
    BY <2>1 DEF Ready, Waiting
  <2>7. NodesFaithful'
    BY <1>4, <2>1, <2>4, <2>5, <2>6
       DEF ScheduleNone, CInv, HistoriesExact, NodesFaithful, TypeOK, nodeVars, historyVars
  <2>8. HistoriesMatchNodes' /\ WaitTimeExact' /\ RescheduleCountExact' /\ TurnInv'
    BY <1>4, <2>1, <2>5
       DEF ScheduleNone, CInv, HistoriesExact, HistoriesMatchNodes, WaitTimeExact,
           RescheduleCountExact, TurnInv, historyVars
  <2> QED
    BY <2>3, <2>7, <2>8 DEF CInv, HistoriesExact
<1>5. CASE UNCHANGED vars
  <2>1. UNCHANGED C!vars
    BY <1>5 DEF vars, simVars, schedVars, C!vars, C!simVars, Ready, Waiting, Queued
  <2>2. C!IInv'
    BY <2>1, C!NextKeepsInv, SimulatorAssumption, ContractAssumption DEF CInv
  <2>3. HistoriesExact' /\ TurnInv'
    BY <1>5 DEF vars, simVars, schedVars, nodeVars, historyVars, CInv, HistoriesExact,
                NodesFaithful, HistoriesMatchNodes, WaitTimeExact, RescheduleCountExact,
                TypeOK, SimTypeOK, Ready, Waiting, Queued, TurnInv, InTurn
  <2> QED
    BY <2>1, <2>2, <2>3 DEF CInv
<1> QED
  BY <1>1, <1>2, <1>3, <1>4, <1>5 DEF Next, get_next_scheduled_process

-----------------------------------------------------------------------------
(* The invariant holds throughout.                                         *)
THEOREM Invariance == Spec => []CInv
  BY InitCInv, StepRefines, PTL DEF Spec

(* custom.c implements the contract (its safety part; that the simulation  *)
(* ends is checked by TLC).                                                *)
THEOREM CustomKeepsContract == Spec => C!Spec
  BY InitCInv, StepRefines, PTL DEF Spec, C!Spec

(* The nodes and the histories say what happened: a process has a history  *)
(* exactly as long as it has a node, wait_time counts the units in which   *)
(* it did not run, and reschedule_count the turns it has had.              *)
THEOREM HistoriesAreExact == Spec => []HistoriesExact
<1>1. CInv => HistoriesExact
  BY DEF CInv
<1> QED
  BY <1>1, Invariance, PTL
-----------------------------------------------------------------------------
(* The score of a process that has waited w - 1 units, run r in k - 1      *)
(* turns, and needs m in all.                                              *)
Score(w, r, m, k) ==
  LET earned == 10 * w * (m - r + 1) + 12 * (m + 1) * (r + 1)
      penalty == 5 * k * (r + 1) * (m - r + 1)
  IN  [num |-> earned - penalty, size |-> earned + penalty, den |-> (r + 1) * (m - r + 1)]

(* Of two processes that have run r units, R - 1, in k - 1 turns, and need *)
(* A - 1 and B - 1 more, B <= A, the one that has waited b - 1 units, more *)
(* than the a - 1 of the other, scores more by 10 R A B at the least, the  *)
(* denominators multiplied out ...                                         *)
LEMMA LongerWaitScoresMore ==
  ASSUME NEW r \in Nat, NEW k \in Nat, NEW a \in Nat, NEW b \in Nat,
         NEW A \in Nat, NEW B \in Nat, NEW R \in Nat, R = r + 1,
         B <= A, a < b
  PROVE  (10 * b * B + 12 * (B + r) * R - 5 * k * R * B) * (R * A)
           - (10 * a * A + 12 * (A + r) * R - 5 * k * R * A) * (R * B)
             >= R * (10 * (A * B))
<1>1. /\ A * B \in Nat /\ b - a \in Nat /\ b - a >= 1
      /\ A - B \in Nat /\ r * R \in Nat
  OBVIOUS
<1> DEFINE wait == (b - a) * (A * B)
           need == (r * R) * (A - B)
<1>2. wait \in Nat /\ need \in Nat /\ wait >= A * B
  BY <1>1
<1>3. (10 * b * B + 12 * (B + r) * R - 5 * k * R * B) * (R * A)
        - (10 * a * A + 12 * (A + r) * R - 5 * k * R * A) * (R * B)
          = R * (10 * wait + 12 * need)
  OBVIOUS
<1> HIDE DEF wait, need
<1>4. /\ 10 * wait + 12 * need \in Nat /\ 10 * (A * B) \in Nat
      /\ 10 * wait + 12 * need >= 10 * (A * B)
  BY <1>1, <1>2
<1>5. \A x, y \in Nat : x >= y => R * x >= R * y
  OBVIOUS
<1> QED
  BY <1>3, <1>4, <1>5

(* ... and no term is so great that rounding can lose that: each of the    *)
(* factors is at most t, the time limit.                                   *)
LEMMA ScoreIsBounded ==
  ASSUME NEW t \in Nat, NEW r \in Nat, NEW k \in Nat, NEW b \in Nat, NEW A \in Nat,
         NEW B \in Nat, NEW R \in Nat, R = r + 1, B >= 1, R <= t, k <= t, b <= t, t >= 1
  PROVE  (10 * b * B + 12 * (B + r) * R + 5 * k * R * B) * (R * A)
           <= R * (27 * ((t * t) * (A * B)))
<1> DEFINE AB == A * B
<1>1. \A x, y, z \in Nat : x <= y => z * x <= z * y /\ x * z <= y * z
  OBVIOUS
<1>2. /\ t * t \in Nat /\ AB \in Nat /\ R * R \in Nat /\ k * R \in Nat
      /\ b * AB \in Nat /\ R * R * AB \in Nat /\ k * R * AB \in Nat
      /\ (t * t) * AB \in Nat
  OBVIOUS
<1>3. b <= t * t /\ R * R <= t * t /\ k * R <= t * t
  <2>1. t <= t * t /\ R * R <= t * R /\ t * R <= t * t /\ k * R <= t * R
    BY <1>1
  <2>2. t * R \in Nat
    OBVIOUS
  <2> QED
    BY <1>2, <2>1, <2>2
<1>4. b * AB <= (t * t) * AB /\ (R * R) * AB <= (t * t) * AB /\ (k * R) * AB <= (t * t) * AB
  BY <1>1, <1>2, <1>3
<1>5. (B + r) * (R * A) <= (R * R) * AB
  <2>1. B + r <= B * R
    <3>1. r <= r * B /\ B * R = B * r + B
      BY <1>1
    <3> QED
      BY <3>1
  <2>2. B + r \in Nat /\ B * R \in Nat /\ R * A \in Nat
    OBVIOUS
  <2>3. (B + r) * (R * A) <= (B * R) * (R * A)
    BY <1>1, <2>1, <2>2
  <2>4. (B * R) * (R * A) = (R * R) * AB
    OBVIOUS
  <2> QED
    BY <2>3, <2>4
<1> DEFINE x == b * AB
           y == (B + r) * (R * A)
           z == (k * R) * AB
           w == (t * t) * AB
<1>6. x \in Nat /\ y \in Nat /\ z \in Nat /\ w \in Nat /\ x <= w /\ y <= w /\ z <= w
  <2>1. y \in Nat
    OBVIOUS
  <2> QED
    BY <1>2, <1>4, <1>5, <2>1
<1>7. (10 * b * B + 12 * (B + r) * R + 5 * k * R * B) * (R * A)
        = R * (10 * x + 12 * y + 5 * z)
  OBVIOUS
<1>8. R * (27 * ((t * t) * (A * B))) = R * (27 * w)
  OBVIOUS
<1> HIDE DEF x, y, z, w, AB
<1>9. 10 * x + 12 * y + 5 * z \in Nat /\ 27 * w \in Nat /\ 10 * x + 12 * y + 5 * z <= 27 * w
  BY <1>6
<1> QED
  BY <1>1, <1>7, <1>8, <1>9

(* So the difference of the scores is more than rounding can hide.         *)
LEMMA LongerWaitIsBetter ==
  ASSUME NEW t \in Nat, NEW r \in Nat, NEW k \in Nat, NEW a \in Nat, NEW b \in Nat,
         NEW m \in Nat, NEW n \in Nat, t >= 1,
         0 < r, r < t, r < m, r < n, a < b, b <= t, n <= m, k <= t,
         PRECISION >= 6 * t * t
  PROVE  Better(Score(b, r, n, k), Score(a, r, m, k))
<1> DEFINE R == r + 1
           A == m - r + 1
           B == n - r + 1
<1>1. /\ R \in Nat /\ R >= 1 /\ R <= t /\ R = r + 1
      /\ A \in Nat /\ A >= 1 /\ B \in Nat /\ B >= 1 /\ B <= A
      /\ m + 1 = A + r /\ n + 1 = B + r /\ a <= t
  OBVIOUS
<1> HIDE DEF R, A, B
<1> DEFINE more == 10 * b * B + 12 * (B + r) * R
           less == 10 * a * A + 12 * (A + r) * R
           moreOff == 5 * k * R * B
           lessOff == 5 * k * R * A
           gap == (more - moreOff) * (R * A) - (less - lessOff) * (R * B)
           sum == (more + moreOff) * (R * A) + (less + lessOff) * (R * B)
           AB == A * B
           T == t * t
<1>2. gap >= R * (10 * AB)
  BY <1>1, LongerWaitScoresMore
<1>3. (more + moreOff) * (R * A) <= R * (27 * (T * AB))
  BY <1>1, ScoreIsBounded
<1>4. (less + lessOff) * (R * B) <= R * (27 * (T * AB))
  <2>1. (less + lessOff) * (R * B) <= R * (27 * ((t * t) * (B * A)))
    BY <1>1, ScoreIsBounded
  <2>2. B * A = A * B
    BY <1>1
  <2> QED
    BY <2>1, <2>2
<1>5. /\ more \in Nat /\ less \in Nat /\ moreOff \in Nat /\ lessOff \in Nat
      /\ R * A \in Nat /\ R * B \in Nat /\ AB \in Nat /\ AB >= 1 /\ T \in Nat /\ T >= 1
  <2>1. /\ k * R * B \in Nat /\ k * R * A \in Nat /\ b * B \in Nat /\ a * A \in Nat
        /\ (B + r) * R \in Nat /\ (A + r) * R \in Nat
    BY <1>1
  <2>2. \A x, y \in Nat : x * y \in Nat /\ (x >= 1 /\ y >= 1 => x * y >= 1)
    OBVIOUS
  <2> QED
    BY <1>1, <2>1, <2>2
<1>6. gap \in Int /\ sum \in Nat /\ PRECISION \in Nat \ {0} /\ PRECISION >= 6 * T
  <2>1. \A x, y \in Nat : x * y \in Nat
    OBVIOUS
  <2>2. (more + moreOff) * (R * A) \in Nat /\ (less + lessOff) * (R * B) \in Nat
    BY <1>5, <2>1
  <2>3. \A x, y \in Int : x * y \in Int /\ x - y \in Int
    OBVIOUS
  <2>4. gap \in Int
    BY <1>5, <2>3
  <2> HIDE DEF gap, more, less, moreOff, lessOff
  <2> QED
    BY <2>2, <2>4, PrecisionAssumption
<1> DEFINE unit == R * AB
<1>7. unit \in Nat /\ unit >= 1 /\ T * unit \in Nat /\ T * unit >= 1
  <2>1. \A x, y \in Nat : x * y \in Nat /\ (x >= 1 /\ y >= 1 => x * y >= 1)
    OBVIOUS
  <2> QED
    BY <1>1, <1>5, <2>1
<1>8. R * (10 * AB) = 10 * unit /\ R * (27 * (T * AB)) = 27 * (T * unit)
  BY <1>1, <1>5
<1>9. gap >= 10 * unit /\ sum <= 54 * (T * unit)
  <2>1. (more + moreOff) * (R * A) \in Int /\ (less + lessOff) * (R * B) \in Int
    <3>1. \A x, y \in Nat : x * y \in Int
      OBVIOUS
    <3> QED
      BY <1>5, <3>1
  <2> HIDE DEF more, less, moreOff, lessOff
  <2> QED
    BY <1>2, <1>3, <1>4, <1>7, <1>8, <2>1
<1> HIDE DEF gap, sum, unit, T
<1>10. PRECISION * gap > sum
  <2>1. PRECISION * gap >= (6 * T) * gap
    <3>1. gap \in Nat /\ 6 * T \in Nat
      BY <1>5, <1>6, <1>7, <1>9
    <3>2. \A x, y, z \in Nat : x >= y => x * z >= y * z
      OBVIOUS
    <3> QED
      BY <1>6, <3>1, <3>2
  <2>2. (6 * T) * gap >= (6 * T) * (10 * unit)
    <3>1. gap \in Nat /\ 6 * T \in Nat /\ 10 * unit \in Nat
      BY <1>5, <1>6, <1>7, <1>9
    <3>2. \A x, y, z \in Nat : x >= y => z * x >= z * y
      OBVIOUS
    <3> QED
      BY <1>9, <3>1, <3>2
  <2>3. (6 * T) * (10 * unit) = 60 * (T * unit)
    BY <1>5, <1>7
  <2>4. PRECISION * gap \in Int /\ (6 * T) * gap \in Int
    BY <1>5, <1>6
  <2> QED
    BY <1>6, <1>7, <1>9, <2>1, <2>2, <2>3, <2>4
<1>11. gap > sum \div PRECISION
  <2> DEFINE d == sum \div PRECISION
  <2>1. d \in Nat /\ sum = PRECISION * d + (sum % PRECISION) /\ sum % PRECISION \in 0 .. PRECISION - 1
    BY <1>6, Division
  <2> HIDE DEF d
  <2>2. PRECISION * d \in Int /\ PRECISION * gap \in Int
    BY <1>6, <2>1
  <2>3. PRECISION * d < PRECISION * gap
    BY <1>6, <1>10, <2>1, <2>2
  <2>4. \A x, y \in Int : x >= y => PRECISION * x >= PRECISION * y
    BY <1>6
  <2>5. d < gap
    BY <1>6, <2>1, <2>2, <2>3, <2>4
  <2> QED
    BY <2>5 DEF d
<1> QED
  BY <1>1, <1>11 DEF Better, Rounding, Score, gap, sum, R, A, B

(* Of the processes of the smart queue that have run just as long, none is *)
(* taken past one that has waited longer and needs no more, nor past one   *)
(* before it in the queue that has waited as long and needs no more, if    *)
(* the scores are that precise.                                            *)
THEOREM NoneDominated ==
  ASSUME PRECISION >= 6 * TIMEOUT * TIMEOUT
  PROVE  Spec => NoDominatedChoice
<1> DEFINE Holds ==
      \A i, j \in DOMAIN priority_queues[Smart] :
        LET p == priority_queues[Smart][i]
            q == priority_queues[Smart][j]
        IN  /\ processed_time'[p] = processed_time[p] + 1
            /\ processed_time[q] = processed_time[p]
            /\ wait_time[q] >= wait_time[p]
            /\ processing_time[q] <= processing_time[p]
            => wait_time[q] = wait_time[p] /\ i <= j
<1>1. CInv /\ [Next]_vars => [Holds]_vars
  <2> DEFINE list == priority_queues[Smart]
  <2> SUFFICES ASSUME CInv, Next, NEW h \in DOMAIN list, NEW j \in DOMAIN list,
                      processed_time'[list[h]] = processed_time[list[h]] + 1,
                      processed_time[list[j]] = processed_time[list[h]],
                      wait_time[list[j]] >= wait_time[list[h]],
                      processing_time[list[j]] <= processing_time[list[h]]
               PROVE  wait_time[list[j]] = wait_time[list[h]] /\ h <= j
    OBVIOUS
  <2> DEFINE p == list[h]
             q == list[j]
  <2>0. list \in Seq(Pids) /\ IsInjective(list) /\ p \in Queued(Smart) /\ q \in Queued(Smart)
    <3>1. list \in Seq(Pids) /\ IsInjective(list)
      BY QueuesAreApart DEF CInv, HistoriesExact, NodesFaithful, Queues
    <3> QED
      BY <3>1 DEF Queued, ToSet
  <2> HIDE DEF p, q
  <2>h. /\ processed_time'[p] = processed_time[p] + 1 /\ processed_time[q] = processed_time[p]
        /\ wait_time[q] >= wait_time[p] /\ processing_time[q] <= processing_time[p]
    BY DEF p, q
  <2>1. /\ p \in Waiting /\ q \in Waiting /\ p # current /\ p \notin Queued(Fast)
        /\ p \in Pids /\ q \in Pids /\ p \in Ready /\ q \in Ready
    BY <2>0, QueuesAreApart, ReadyProcesses
  <2>2. /\ processed_time[p] \in Nat /\ processed_time[p] > 0
        /\ node_processed_time[p] = processed_time[p]
        /\ node_processed_time[q] = processed_time[p]
    BY <2>0, <2>1, <2>h, Fields DEF CInv, HistoriesExact, NodesFaithful
  <2>3. ASSUME NEW r, NEW level, NEW queues, Chosen(r, level, queues), Execute(r, level, queues)
        PROVE  r = p
    <3>1. Effect(r, level, queues)
      BY <2>3, ExecuteEffect
    <3>2. r \in Pids /\ processed_time' = [processed_time EXCEPT ![r] = processed_time[r] + 1]
      BY <3>1 DEF Effect
    <3> QED
      BY <3>2, <2>1, <2>2, <2>h, Fields
  <2>4. ScheduleSmart
    <3>1. processed_time' # processed_time
      BY <2>2, <2>h
    <3>2. ~EnterIteration /\ ~LeaveLoop /\ \A r : ~add_to_ready_queue(r)
      BY <3>1 DEF EnterIteration, LeaveLoop, add_to_ready_queue, Admit, accounts
    <3>3. ~ScheduleNone
      BY <3>1, SimulatorAssumption
         DEF ScheduleNone, Account, AccountIdle, AccountUnit, AccountOverrun,
             AccountUnknown, accounts, Idle
    <3>4. ~ScheduleCurrent
      BY <2>1, <2>3, CurrentIsChosen DEF ScheduleCurrent
    <3>5. ~ScheduleFast
      <4> SUFFICES ASSUME ScheduleFast PROVE FALSE
        OBVIOUS
      <4> DEFINE first == priority_queues[Fast]
                 r == first[0 + 1]
                 queues == [priority_queues EXCEPT ![Fast] = remove_next(@, 0)]
      <4>1. first \in Seq(Pids) /\ first # <<>> /\ Fast \in Queues /\ current = NULL
        BY QueuesAreApart DEF ScheduleFast, Queues
      <4>2. 0 \in 0 .. Len(first) - 1 /\ Head(first) = r
        BY <4>1
      <4>3. Execute(r, Fast, queues)
        BY <4>2 DEF ScheduleFast
      <4>4. r \in Queued(Fast) /\ Chosen(r, Fast, queues)
        BY <4>1, <4>2, TakenIsChosen
      <4> HIDE DEF r, queues
      <4> QED
        BY <4>3, <4>4, <2>1, <2>3
    <3> QED
      BY <3>2, <3>3, <3>4, <3>5 DEF Next, get_next_scheduled_process
  <2>5. Smart \in Queues /\ current = NULL /\ Smart # Fast
    BY <2>4, QueuesAreApart DEF ScheduleSmart, Queues, Smart, Fast
  <2>6. PICK i \in Best :
          Execute(list[i], Smart, [priority_queues EXCEPT ![Smart] = remove_next(@, i - 1)])
    BY <2>4 DEF ScheduleSmart
  <2>7. list[i] = p
    <3> DEFINE end == i - 1
               r == list[end + 1]
               queues == [priority_queues EXCEPT ![Smart] = remove_next(@, end)]
    <3>1. i \in DOMAIN list
      BY DEF Best, Scored
    <3>2. end \in 0 .. Len(list) - 1 /\ end + 1 = i
      BY <3>1, <2>0
    <3>3. Execute(r, Smart, queues)
      BY <2>6, <3>2
    <3> HIDE DEF end
    <3>4. Chosen(r, Smart, queues)
      BY <2>0, <2>5, <3>2, TakenIsChosen
    <3> HIDE DEF queues, r
    <3>5. r = p
      BY <3>3, <3>4, <2>3
    <3> QED
      BY <3>2, <3>5 DEF r
  <2>8. i = h
    <3>1. i \in DOMAIN list
      BY DEF Best, Scored
    <3> QED
      BY <2>0, <2>7, <3>1 DEF p, IsInjective
  <2>9. j \in Scored
    <3>1. \A n \in DOMAIN list : list[n] \in process_histories
      BY QueuesAreApart DEF Waiting, Queued, ToSet
    <3>2. \A n \in 1 .. j : n \in DOMAIN list
      BY <2>0
    <3> QED
      BY <3>1, <3>2 DEF Scored
  <2>10. /\ ~Better(calculate_new_score(q), calculate_new_score(p))
         /\ j < h => ~NoWorse(q, p)
    <3>1. i \in Best
      BY <2>6
    <3> QED
      BY <2>7, <2>8, <2>9, <3>1 DEF Best, q
  <2>11. /\ reschedule_count[p] \in Nat /\ reschedule_count[q] = reschedule_count[p]
         /\ reschedule_count[p] + 1 <= processed_time[p]
    <3>1. /\ reschedule_count[p] \in Nat /\ reschedule_count[q] \in Nat
          /\ quantum_used[p] = 0 /\ quantum_used[q] = 0
          /\ processed_time[p] = (IF reschedule_count[p] = 0 THEN 0
                                  ELSE 2 + 4 * (reschedule_count[p] - 1))
          /\ processed_time[q] = (IF reschedule_count[q] = 0 THEN 0
                                  ELSE 2 + 4 * (reschedule_count[q] - 1))
      BY <2>1, <2>h, Fields DEF CInv, HistoriesExact, NodesFaithful, RescheduleCountExact
    <3> QED
      BY <3>1, <2>2, <2>h
  <2> DEFINE r == processed_time[p]
             k == reschedule_count[p] + 1
             a == wait_time[p] + 1
             b == wait_time[q] + 1
             m == processing_time[p]
             n == processing_time[q]
  <2>12. /\ r \in Nat /\ k \in Nat /\ a \in Nat /\ b \in Nat /\ m \in Nat /\ n \in Nat
         /\ 0 < r /\ r < m /\ r < n /\ a <= b /\ n <= m /\ k <= r
         /\ r < TIMEOUT /\ b <= TIMEOUT /\ TIMEOUT \in Nat /\ TIMEOUT >= 1
    <3>1. wait_time[p] \in Nat /\ wait_time[q] \in Nat
      BY <2>1, Fields
    <3>2. m \in Nat /\ n \in Nat /\ m < TIMEOUT
      <4>1. processing_time \in [Pids -> Bursts] /\ Bursts \subseteq 1 .. TIMEOUT - 1
            /\ TIMEOUT \in Nat
        BY ReadyProcesses, SimulatorAssumption DEF SimTypeOK
      <4>2. m \in 1 .. TIMEOUT - 1 /\ n \in 1 .. TIMEOUT - 1
        BY <2>1, <4>1
      <4> QED
        BY <4>1, <4>2
    <3>3. Unfinished(p) /\ Unfinished(q)
      BY <2>1, ReadyProcesses
    <3>4. /\ time \in 0 .. TIMEOUT /\ arrival_time[q] \in Nat /\ TIMEOUT \in Nat \ {0}
          /\ wait_time[q] + processed_time[q] = time - arrival_time[q]
      <4>1. time \in 0 .. TIMEOUT /\ arrival_time \in [Pids -> Arrivals] /\ Arrivals \subseteq Nat
        BY ReadyProcesses, SimulatorAssumption DEF SimTypeOK
      <4> QED
        BY <2>1, <4>1, SimulatorAssumption DEF CInv, HistoriesExact, WaitTimeExact
    <3>5. r < TIMEOUT
      BY <3>1, <3>2, <3>3, <3>4, <2>2, <2>h DEF Unfinished
    <3> QED
      BY <3>1, <3>2, <3>3, <3>4, <3>5, <2>2, <2>11, <2>h DEF Unfinished
  <2>13. /\ calculate_new_score(p) = Score(a, r, m, k)
         /\ calculate_new_score(q) = Score(b, r, n, k)
    BY <2>2, <2>11 DEF calculate_new_score, Score
  <2>14. NoWorse(q, p) <=> /\ b * (r + 1) >= a * (r + 1)
                           /\ (n + 1) * (m - r + 1) >= (m + 1) * (n - r + 1)
    BY <2>2, <2>11 DEF NoWorse
  <2>15. wait_time[q] = wait_time[p] <=> ~(a < b)
    BY <2>1, <2>h, Fields
  <2> HIDE DEF r, k, a, b, m, n
  <2>16. ~(a < b)
    <3> SUFFICES ASSUME a < b PROVE FALSE
      OBVIOUS
    <3>1. k <= TIMEOUT
      BY <2>12
    <3>2. PRECISION >= 6 * TIMEOUT * TIMEOUT
      OBVIOUS
    <3>3. Better(Score(b, r, n, k), Score(a, r, m, k))
      BY <2>12, <3>1, <3>2, LongerWaitIsBetter
    <3> QED
      BY <2>10, <2>13, <3>3
  <2>17. NoWorse(q, p)
    <3>1. b * (r + 1) >= a * (r + 1)
      BY <2>12
    <3> DEFINE A == m - r + 1
               B == n - r + 1
    <3>2. A \in Nat /\ B \in Nat /\ m + 1 = A + r /\ n + 1 = B + r /\ A - B \in Nat
      BY <2>12
    <3> HIDE DEF A, B
    <3>3. (B + r) * A - (A + r) * B = r * (A - B) /\ r * (A - B) \in Nat
      BY <2>12, <3>2
    <3>4. (B + r) * A \in Int /\ (A + r) * B \in Int
      BY <2>12, <3>2
    <3>5. (B + r) * A >= (A + r) * B
      BY <3>3, <3>4
    <3> QED
      BY <2>14, <3>1, <3>2, <3>5 DEF A, B
  <2> QED
    BY <2>0, <2>10, <2>15, <2>16, <2>17 DEF p, q
<1> QED
  BY <1>1, Invariance, PTL DEF Spec, NoDominatedChoice

-----------------------------------------------------------------------------
(* A new process waits for the rest of a turn, OldTurn, and for the first  *)
(* turn of each process before it; SharesAhead is how much of these has    *)
(* been given.  While a process of the smart queue is on the processor,    *)
(* the turn is its own, and began before the new processes came.           *)
Ahead(p) == {q \in Pids : Before(q, p)}

SharesAhead(p) == Total(FirstShare(processed_time, Pids, 2), Ahead(p))

OldTurn == IF current # NULL /\ priority_level # Fast THEN quantum_used[current] - 1 ELSE 3

NewcomersWait ==
  \A p \in admitted :
    processed_time[p] = 0 => time - arrival_time[p] <= OldTurn + SharesAhead(p)

(* The process on the processor has run in this turn, and is before those  *)
(* of the fast queue, if it came from there.                               *)
CurrentHasRun == current # NULL => quantum_used[current] >= 1

CurrentInOrder ==
  current # NULL /\ priority_level = Fast => \A p \in Queued(Fast) : Before(current, p)

NewcomerInv == CurrentHasRun /\ CurrentInOrder /\ NewcomersWait

(* What is counted, in numbers.                                            *)
LEMMA Counters ==
  ASSUME CInv
  PROVE  /\ arrival_time \in [Pids -> Nat] /\ processing_time \in [Pids -> Nat \ {0}]
         /\ processed_time \in [Pids -> Nat] /\ time \in Nat /\ admitted \subseteq Pids
         /\ quantum_used \in [Pids -> Nat] /\ reschedule_count \in [Pids -> Nat]
<1>1. SimTypeOK /\ TIMEOUT \in Nat /\ Bursts \subseteq Nat \ {0} /\ Arrivals \subseteq Nat
  BY ReadyProcesses, SimulatorAssumption
<1>2. 0 .. TIMEOUT \subseteq Nat
  BY <1>1
<1> QED
  BY <1>1, <1>2, Fields DEF SimTypeOK

(* The process on the processor has had the units of its turn, all that it *)
(* has had if the turn is its first.                                       *)
LEMMA CurrentHasHad ==
  ASSUME CInv, current # NULL
  PROVE  /\ current \in Pids /\ quantum_used[current] <= processed_time[current]
         /\ quantum_used[current] <= 3
         /\ priority_level \in Queues
<1>1. /\ current \in Ready /\ current \in Pids /\ priority_level \in Queues
      /\ InTurn(current, priority_level)
  BY QueuesAreApart, ReadyProcesses DEF CInv, TurnInv
<1>2. /\ quantum_used[current] \in Nat /\ reschedule_count[current] \in Nat
      /\ processed_time[current] =
           ServiceOf(quantum_used[current], reschedule_count[current])
  BY <1>1, Counters DEF CInv, HistoriesExact, RescheduleCountExact, ServiceOf
<1> DEFINE used == quantum_used[current]
           count == reschedule_count[current]
<1>3. used < (priority_level + 1) * 2 /\ (priority_level = Fast <=> count = 0)
  BY <1>1 DEF InTurn
<1> HIDE DEF used, count
<1>4. used <= ServiceOf(used, count)
  BY <1>1, <1>2, <1>3, UnitOfTurn DEF used, count
<1>5. used <= 3
  BY <1>1, <1>2, <1>3 DEF Queues, Fast, Smart, used
<1> QED
  BY <1>1, <1>2, <1>4, <1>5 DEF used, count

(* A process that has not run is in the fast queue.                        *)
LEMMA NewcomersQueue ==
  ASSUME CInv, CurrentHasRun, NEW p \in admitted, processed_time[p] = 0
  PROVE  p \in Pids /\ p \in Queued(Fast) /\ p # current
<1>1. p \in Ready /\ p \in Pids
  <2>1. Ready = {q \in admitted : Unfinished(q)}
    BY ReadyProcesses
  <2>2. p \in Pids /\ processing_time[p] \in Nat \ {0}
    BY Counters
  <2>3. processing_time[p] > 0
    BY <2>2
  <2> QED
    BY <2>1, <2>2, <2>3 DEF Unfinished
<1>2. p # current
  <2> SUFFICES ASSUME p = current PROVE FALSE
    OBVIOUS
  <2>1. current # NULL
    BY <1>1, ReadyProcesses
  <2>2. quantum_used[p] >= 1 /\ quantum_used[p] <= processed_time[p] /\ quantum_used[p] \in Nat
    BY <2>1, <1>1, CurrentHasHad, Counters DEF CurrentHasRun
  <2> QED
    BY <2>2
<1>3. p \in Queued(Fast) \cup Queued(Smart)
  BY <1>1, <1>2, QueuesAreApart
<1>4. p \notin Queued(Smart)
  BY DEF CInv, HistoriesExact, NodesFaithful
<1> QED
  BY <1>1, <1>2, <1>3, <1>4

LEMMA OldTurnIsShort ==
  ASSUME CInv, CurrentHasRun
  PROVE  OldTurn \in Nat /\ OldTurn <= 3
<1>1. CASE current # NULL /\ priority_level # Fast
  <2>1. quantum_used[current] \in Nat /\ 1 <= quantum_used[current] /\ quantum_used[current] <= 3
    BY <1>1, CurrentHasHad, Counters DEF CurrentHasRun
  <2> QED
    BY <1>1, <2>1 DEF OldTurn
<1>2. CASE ~(current # NULL /\ priority_level # Fast)
  BY <1>2 DEF OldTurn
<1> QED
  BY <1>1, <1>2

LEMMA SharesAheadBounds ==
  ASSUME CInv, NEW p
  PROVE  /\ SharesAhead(p) \in Nat
         /\ LeastTotal(2, processing_time, Ahead(p)) \in Int
         /\ SharesAhead(p) <= LeastTotal(2, processing_time, Ahead(p))
<1>1. Ahead(p) \subseteq Pids /\ IsFiniteSet(Pids)
  BY SimulatorAssumption DEF Ahead
<1>2. processed_time \in [Pids -> Nat] /\ processing_time \in [Pids -> Nat]
  BY Counters
<1>3. \A q \in Pids : processed_time[q] <= processing_time[q]
  BY DEF CInv, C!IInv, C!AdmissionInv
<1> DEFINE part == 2
<1>4. part \in Nat
  OBVIOUS
<1> HIDE DEF part
<1>5. /\ Total(FirstShare(processed_time, Pids, part), Ahead(p)) \in Nat
      /\ LeastTotal(part, processing_time, Ahead(p)) \in Int
      /\ Total(FirstShare(processed_time, Pids, part), Ahead(p))
           <= LeastTotal(part, processing_time, Ahead(p))
  BY <1>1, <1>2, <1>3, <1>4, ShareTotals
<1> QED
  BY <1>5 DEF SharesAhead, part

(* A unit for the process chosen: a new process has waited one unit more,  *)
(* of an old turn or of the first turn of a process before it.             *)
LEMMA ExecuteKeepsNewcomers ==
  ASSUME CInv, NewcomerInv, NEW p, NEW level, NEW queues, Chosen(p, level, queues),
         InOrder(p, level), Execute(p, level, queues)
  PROVE  NewcomerInv'
<1> DEFINE used == quantum_used[p]
<1>1. /\ p \in Pids /\ priority_level' = level /\ time' = time + 1
      /\ processed_time' = [processed_time EXCEPT ![p] = processed_time[p] + 1]
      /\ UNCHANGED <<arrival_time, admitted>>
      /\ Queued(Fast)' = Queued(Fast) \ {p}
      /\ \/ current' = NULL
         \/ current' = p /\ quantum_used'[p] = used + 1
  <2>1. Effect(p, level, queues)
    BY ExecuteEffect
  <2>2. quantum_used \in [Pids -> 0 .. TIMEOUT]
    BY Fields
  <2> QED
    BY <2>1, <2>2 DEF Effect
<1>2. /\ processed_time \in [Pids -> Nat] /\ arrival_time \in [Pids -> Nat] /\ time \in Nat
      /\ admitted \subseteq Pids /\ quantum_used \in [Pids -> Nat] /\ used \in Nat
  BY <1>1, Counters
<1>3. /\ level \in Queues /\ current \in {p, NULL} /\ NULL \notin Pids
      /\ level = Fast => processed_time[p] = used /\ used < 2
      /\ used <= 3
  <2>1. /\ level \in Queues /\ current \in {p, NULL} /\ p \in Ready /\ InTurn(p, level)
    BY DEF Chosen
  <2>2. processed_time[p] = ServiceOf(used, reschedule_count[p])
    BY <2>1 DEF CInv, HistoriesExact, RescheduleCountExact, ServiceOf
  <2>3. used < (level + 1) * 2 /\ (level = Fast => reschedule_count[p] = 0)
    BY <2>1 DEF InTurn
  <2> HIDE DEF used
  <2>4. used <= 3 /\ (level = Fast => processed_time[p] = used /\ used < 2)
    BY <2>1, <2>2, <2>3, <1>2 DEF ServiceOf, Queues, Fast, Smart
  <2> QED
    BY <2>1, <2>4, ReadyProcesses
<1> HIDE DEF used
<1>4. CurrentHasRun'
  BY <1>1, <1>2 DEF CurrentHasRun
<1>5. CurrentInOrder'
  <2> SUFFICES ASSUME current' # NULL, priority_level' = Fast, NEW q \in Queued(Fast)'
               PROVE  Before(current, q)'
    BY DEF CurrentInOrder
  <2>1. current' = p /\ level = Fast /\ q \in Queued(Fast) /\ q # p
    BY <1>1
  <2>2. Before(p, q)
    BY <2>1, <1>3 DEF InOrder, NewcomerInv, CurrentInOrder
  <2> QED
    BY <2>1, <2>2, <1>1 DEF Before
<1>6. NewcomersWait'
  <2> SUFFICES ASSUME NEW q \in admitted', processed_time'[q] = 0
               PROVE  time' - arrival_time'[q] <= OldTurn' + SharesAhead(q)'
    BY DEF NewcomersWait
  <2>1. q \in admitted /\ q \in Pids /\ q # p /\ processed_time[q] = 0
    <3>1. q \in admitted /\ q \in Pids
      BY <1>1, <1>2
    <3>2. processed_time'[p] = processed_time[p] + 1 /\ processed_time[p] \in Nat
      BY <1>1, <1>2
    <3>3. q # p
      BY <3>2
    <3> QED
      BY <3>1, <3>3, <1>1, <1>2
  <2>2. q \in Queued(Fast) /\ time - arrival_time[q] <= OldTurn + SharesAhead(q)
    BY <2>1, NewcomersQueue DEF NewcomerInv, NewcomersWait
  <2> DEFINE new == processed_time'
             old == processed_time
             part == 2
  <2>3. /\ SharesAhead(q) = Total(FirstShare(old, Pids, part), Ahead(q))
        /\ SharesAhead(q)' = Total(FirstShare(new, Pids, part), Ahead(q))
    <3>1. Ahead(q)' = Ahead(q)
      BY <1>1 DEF Ahead, Before
    <3> QED
      BY <3>1 DEF SharesAhead
  <2>4. /\ UnitDone(new, old, p) /\ old \in [Pids -> Nat] /\ new \in [Pids -> Nat]
        /\ Ahead(q) \subseteq Pids /\ p \in Pids /\ part \in Nat /\ IsFiniteSet(Pids)
    BY <1>1, <1>2, SimulatorAssumption DEF UnitDone, Ahead
  <2>5. /\ SharesAhead(q) <= SharesAhead(q)'
        /\ p \in Ahead(q) /\ old[p] < 2 => SharesAhead(q)' = SharesAhead(q) + 1
    <3> DEFINE T == Ahead(q)
    <3>1. /\ Total(FirstShare(old, Pids, part), T) <= Total(FirstShare(new, Pids, part), T)
          /\ p \in T /\ old[p] < part =>
               Total(FirstShare(new, Pids, part), T) = Total(FirstShare(old, Pids, part), T) + 1
      <4>1. T \subseteq Pids
        BY <2>4
      <4> HIDE DEF new, old, part, T
      <4> QED
        BY <4>1, <2>4, ShareGrows
    <3> QED
      BY <3>1, <2>3
  <2>6. /\ OldTurn \in Nat /\ OldTurn <= 3
        /\ SharesAhead(q) \in Nat /\ SharesAhead(q)' \in Int
    <3>1. SharesAhead(q)' \in Int
      <4> HIDE DEF new, part
      <4>1. IsFiniteSet(Ahead(q)) /\ \A x \in Ahead(q) : FirstShare(new, Pids, part)[x] \in Int
        BY <2>4, FS_Subset DEF FirstShare
      <4> QED
        BY <4>1, <2>3, TotalInt
    <3> QED
      BY <3>1, OldTurnIsShort, SharesAheadBounds DEF NewcomerInv
  <2>7. arrival_time'[q] = arrival_time[q] /\ arrival_time[q] \in Nat
    BY <2>1, <1>1, <1>2
  <2>8. CASE level = Fast
    <3>1. OldTurn' = 3
      BY <2>8, <1>1 DEF OldTurn
    <3>2. Before(p, q)
      BY <2>1, <2>2, <2>8, <1>3 DEF InOrder, NewcomerInv, CurrentInOrder
    <3>3. p \in Ahead(q) /\ old[p] < 2
      BY <3>2, <2>4, <2>8, <1>3 DEF Ahead
    <3> QED
      BY <3>1, <3>3, <2>2, <2>5, <2>6, <2>7, <1>1, <1>2
  <2>9. CASE level # Fast
    <3>1. current = p /\ priority_level = level /\ current # NULL
      BY <2>2, <2>9, <1>1, <1>3 DEF InOrder
    <3>2. OldTurn = used - 1
      BY <3>1, <2>9 DEF OldTurn, used
    <3>3. OldTurn' >= used /\ OldTurn' \in Int
      BY <2>9, <1>1, <1>2, <1>3 DEF OldTurn
    <3> QED
      BY <3>2, <3>3, <2>2, <2>5, <2>6, <2>7, <1>1, <1>2
  <2> QED
    BY <2>8, <2>9
<1> QED
  BY <1>4, <1>5, <1>6 DEF NewcomerInv

(* When nothing runs, nobody waits any longer.                             *)
LEMMA StillWaits ==
  ASSUME NewcomerInv,
         UNCHANGED <<arrival_time, processed_time, admitted, time, current, priority_level,
                     quantum_used>>,
         Queued(Fast)' = Queued(Fast)
  PROVE  NewcomerInv'
<1>1. \A p, q : Before(p, q)' = Before(p, q)
  BY DEF Before
<1>2. OldTurn' = OldTurn /\ \A p : SharesAhead(p)' = SharesAhead(p)
  BY <1>1 DEF OldTurn, SharesAhead, Ahead
<1> QED
  BY <1>1, <1>2 DEF NewcomerInv, CurrentHasRun, CurrentInOrder, NewcomersWait

(* An arrival begins to wait, behind a process that runs already.          *)
LEMMA ArrivalWaits ==
  ASSUME CInv, NewcomerInv, NEW p \in Pids, add_to_ready_queue(p)
  PROVE  NewcomerInv'
<1>1. /\ p \notin admitted /\ p \notin Ready /\ arrival_time[p] = time
      /\ admitted' = admitted \cup {p}
      /\ UNCHANGED <<arrival_time, processed_time, time, current, priority_level>>
      /\ priority_queues' = [priority_queues EXCEPT ![Fast] = SortedInsert(@, p, arrival_time)]
      /\ quantum_used' = [quantum_used EXCEPT ![p] = 0]
  BY ReadyProcesses DEF add_to_ready_queue, Admit, Due, workload, accounts
<1>2. Queued(Fast)' = Queued(Fast) \cup {p}
  BY <1>1, ArrivalEntersFast
<1>3. \A q, r : Before(q, r)' = Before(q, r)
  BY <1>1 DEF Before
<1>4. current # NULL => /\ current # p /\ current \in Pids
                        /\ quantum_used'[current] = quantum_used[current]
  BY <1>1, QueuesAreApart, ReadyProcesses, Counters
<1>5. OldTurn' = OldTurn /\ \A q : SharesAhead(q)' = SharesAhead(q)
  BY <1>1, <1>3, <1>4 DEF OldTurn, SharesAhead, Ahead
<1>6. CurrentHasRun'
  BY <1>1, <1>4 DEF NewcomerInv, CurrentHasRun
<1>7. CurrentInOrder'
  <2> SUFFICES ASSUME current' # NULL, priority_level' = Fast, NEW q \in Queued(Fast)'
               PROVE  Before(current, q)'
    BY DEF CurrentInOrder
  <2>1. current' = current /\ current # NULL /\ priority_level = Fast
    BY <1>1
  <2>2. CASE q \in Queued(Fast)
    BY <2>1, <2>2, <1>1, <1>3 DEF NewcomerInv, CurrentInOrder, Before
  <2>3. CASE q = p
    <3>1. /\ arrival_time[current] \in Nat /\ processed_time[current] \in Nat /\ time \in Nat
          /\ quantum_used[current] \in Nat
      BY <2>1, <1>4, Counters
    <3>2. processed_time[current] > 0
      BY <3>1, <2>1, CurrentHasHad DEF NewcomerInv, CurrentHasRun
    <3>3. arrival_time[current] + processed_time[current] <= time
      BY <3>2, <2>1, <1>4 DEF CInv, C!IInv, C!ElapsedCoversService
    <3> QED
      BY <3>1, <3>2, <3>3, <2>1, <2>3, <1>1 DEF Before
  <2> QED
    BY <2>2, <2>3, <1>2
<1>8. NewcomersWait'
  <2> SUFFICES ASSUME NEW q \in admitted', processed_time'[q] = 0
               PROVE  time' - arrival_time'[q] <= OldTurn' + SharesAhead(q)'
    BY DEF NewcomersWait
  <2>1. CASE q \in admitted
    BY <2>1, <1>1, <1>5 DEF NewcomerInv, NewcomersWait
  <2>2. CASE q = p
    <3>1. time \in Nat /\ OldTurn \in Nat /\ SharesAhead(q) \in Nat
      BY Counters, OldTurnIsShort, SharesAheadBounds DEF NewcomerInv
    <3> QED
      BY <3>1, <2>2, <1>1, <1>5
  <2> QED
    BY <2>1, <2>2, <1>1
<1> QED
  BY <1>6, <1>7, <1>8 DEF NewcomerInv

LEMMA StepKeepsNewcomers ==
  ASSUME CInv, NewcomerInv, [Next]_vars
  PROVE  NewcomerInv'
<1>1. CASE (EnterIteration \/ LeaveLoop) /\ UNCHANGED schedVars
  <2>1. /\ UNCHANGED <<arrival_time, processed_time, admitted, time, current, priority_level,
                       quantum_used>>
        /\ Queued(Fast)' = Queued(Fast)
    BY <1>1 DEF EnterIteration, LeaveLoop, workload, accounts, schedVars, nodeVars, Queued
  <2> QED
    BY <2>1, StillWaits
<1>2. CASE \E p \in Pids : add_to_ready_queue(p)
  BY <1>2, ArrivalWaits
<1>3. CASE ScheduleCurrent \/ ScheduleFast \/ ScheduleSmart
  <2>1. PICK p, level, queues :
          Chosen(p, level, queues) /\ InOrder(p, level) /\ Execute(p, level, queues)
    BY <1>3, ExecutedIsChosen
  <2> QED
    BY <2>1, ExecuteKeepsNewcomers
<1>4. CASE ScheduleNone
  <2>1. Ready = {} /\ current' = NULL /\ UNCHANGED <<processed_time, admitted>>
    BY <1>4, NothingScored, SimulatorAssumption
       DEF ScheduleNone, Account, AccountIdle, AccountUnit, AccountOverrun,
           AccountUnknown, accounts, Idle
  <2>2. Queued(Fast) = {}
    BY <2>1 DEF Ready, Waiting
  <2>3. \A p \in admitted : processed_time[p] # 0
    BY <2>2, NewcomersQueue DEF NewcomerInv
  <2> QED
    BY <2>1, <2>3 DEF NewcomerInv, CurrentHasRun, CurrentInOrder, NewcomersWait
<1>5. CASE UNCHANGED vars
  <2>1. /\ UNCHANGED <<arrival_time, processed_time, admitted, time, current, priority_level,
                       quantum_used>>
        /\ Queued(Fast)' = Queued(Fast)
    BY <1>5 DEF vars, simVars, schedVars, nodeVars, Queued
  <2> QED
    BY <2>1, StillWaits
<1> QED
  BY <1>1, <1>2, <1>3, <1>4, <1>5 DEF Next, get_next_scheduled_process

(* A new process waits for the rest of a turn, at most 3 units, and for    *)
(* the first turn of each process before it, whatever waits in the smart   *)
(* queue.                                                                  *)
THEOREM NewcomersAreServed == Spec => []FirstServiceIsBounded
<1>1. Init => NewcomerInv
  BY DEF Init, SimInit, NewcomerInv, CurrentHasRun, CurrentInOrder, NewcomersWait
<1>2. CInv /\ NewcomerInv /\ [Next]_vars => NewcomerInv'
  BY StepKeepsNewcomers
<1>3. CInv /\ NewcomerInv => FirstServiceIsBounded
  <2> SUFFICES ASSUME CInv, NewcomerInv, NEW p \in admitted, processed_time[p] = 0
               PROVE  time - arrival_time[p] <=
                        3 + LeastTotal(2, processing_time, Ahead(p))
    BY DEF FirstServiceIsBounded, LeastTotal, Ahead
  <2>1. time - arrival_time[p] <= OldTurn + SharesAhead(p)
    BY DEF NewcomerInv, NewcomersWait
  <2>2. OldTurn \in Nat /\ OldTurn <= 3
    BY OldTurnIsShort DEF NewcomerInv
  <2>3. /\ SharesAhead(p) \in Nat
        /\ SharesAhead(p) <= LeastTotal(2, processing_time, Ahead(p))
        /\ LeastTotal(2, processing_time, Ahead(p)) \in Int
    BY SharesAheadBounds
  <2>4. time \in Nat /\ arrival_time[p] \in Nat
    BY Counters
  <2> QED
    BY <2>1, <2>2, <2>3, <2>4
<1> QED
  BY <1>1, <1>2, <1>3, Invariance, PTL DEF Spec
=============================================================================
