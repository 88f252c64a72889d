------------------------------ MODULE MlfqProofs ------------------------------
(***************************************************************************)
(* constant.c and exponential.c keep the contract of simulator.c, for any  *)
(* set of processes, any workload and any number of queues, and the queue  *)
(* a process waits in tells how much time it has had.                      *)
(*                                                                         *)
(* The first invariant is that of the contract, with the processes in the  *)
(* queues and on the processor as the ready ones, and that the nodes are   *)
(* faithful; a process's quantum_used is bounded by the time it has had.   *)
(* The second one, LevelMatchesService, is kept by a step of the first.    *)
(***************************************************************************)
EXTENDS Mlfq, OperatorProofs

C == INSTANCE ReadyContractProofs WITH ready <- Ready

QuantumWithinService == \A p \in Ready : quantum_used[p] <= processed_time[p]

MInv == C!IInv /\ NodesFaithful /\ QuantumWithinService

-----------------------------------------------------------------------------
(* The assumption of the contract's module is that of this one.            *)
LEMMA ContractAssumption == C!IsFiniteSet(Pids)
  BY SimulatorAssumption DEF C!IsFiniteSet, IsFiniteSet

(* The simulator's half of the calls is the same on both sides.            *)
LEMMA SameSimulator ==
  /\ C!SimInit <=> SimInit
  /\ C!SimTypeOK <=> SimTypeOK
  /\ C!EnterIteration <=> EnterIteration
  /\ C!LeaveLoop <=> LeaveLoop
  /\ \A p : C!Admit(p) <=> Admit(p)
  /\ \A p : C!Account(p) <=> Account(p)
  /\ \A p : C!Unfinished(p) <=> Unfinished(p)
<1>1. (C!SimInit <=> SimInit) /\ (C!SimTypeOK <=> SimTypeOK)
  BY DEF C!SimInit, SimInit, C!SimTypeOK, SimTypeOK
<1>2. \A p : C!Unfinished(p) <=> Unfinished(p)
  BY DEF C!Unfinished, Unfinished
<1>3. (C!EnterIteration <=> EnterIteration) /\ (C!LeaveLoop <=> LeaveLoop)
  BY DEF C!EnterIteration, EnterIteration, C!LeaveLoop, LeaveLoop,
         C!still_running, still_running, C!Unfinished, Unfinished,
         C!workload, workload, C!accounts, accounts
<1>4. \A p : C!Admit(p) <=> Admit(p)
  BY DEF C!Admit, Admit, C!Due, Due, C!workload, workload, C!accounts, accounts
<1>5. \A p : C!Account(p) <=> Account(p)
  BY DEF C!Account, Account, C!AtGetNext, AtGetNext, C!Due, Due, C!Idle, Idle,
         C!AccountIdle, AccountIdle, C!AccountUnit, AccountUnit,
         C!AccountOverrun, AccountOverrun, C!AccountUnknown, AccountUnknown,
         C!get_pid_index, get_pid_index, C!NextTimeUnit, NextTimeUnit,
         C!Stop, Stop, C!Unfinished, Unfinished,
         C!workload, workload, C!accounts, accounts
<1> QED
  BY <1>1, <1>2, <1>3, <1>4, <1>5

(* There are a first and a last level, and they differ.                    *)
LEMMA LevelBounds ==
  /\ 0 \in Levels /\ Lowest \in Levels /\ Lowest \in Nat /\ Lowest # 0
  /\ Levels = 0 .. Lowest /\ Levels \subseteq Nat
  BY QueuesAssumption DEF Levels, Lowest

(* The ready processes have been admitted and need more time.              *)
LEMMA ReadyProcesses ==
  ASSUME MInv
  PROVE  /\ SimTypeOK
         /\ Ready = {p \in admitted : Unfinished(p)}
         /\ Ready \subseteq Pids
         /\ arrival_time \in [Pids -> Nat] /\ Pids \subseteq Nat /\ NULL \notin Pids
<1>1. SimTypeOK /\ Ready \subseteq Pids
  BY SameSimulator DEF MInv, C!IInv, C!TypeOK
<1>2. Ready = {p \in admitted : Unfinished(p)}
  BY SameSimulator DEF MInv, C!IInv, C!ReadyExact
<1>3. Arrivals \subseteq Nat /\ Pids \subseteq Nat /\ NULL \notin Pids
  BY SimulatorAssumption DEF NULL
<1>4. arrival_time \in [Pids -> Nat]
  BY <1>1, <1>3 DEF SimTypeOK
<1> QED
  BY <1>1, <1>2, <1>3, <1>4

(* The queues hold each ready process once, but for the current one.       *)
LEMMA QueuesAreApart ==
  ASSUME MInv
  PROVE  /\ priority_queues \in [Levels -> Seq(Pids)] /\ Apart(priority_queues)
         /\ current \in Pids \cup {NULL} /\ priority_level \in Levels
         /\ \A level \in Levels : Queued(level) = ToSet(priority_queues[level])
         /\ Waiting = {p \in Ready : p # current}
         /\ Waiting = UNION {Queued(level) : level \in Levels}
         /\ current # NULL => current \in Ready
<1>1. /\ priority_queues \in [Levels -> Seq(Pids)]
      /\ current \in Pids \cup {NULL} /\ priority_level \in Levels
  BY DEF MInv, NodesFaithful, TypeOK
<1>2. DOMAIN priority_queues = Levels
  BY <1>1
<1>3. Apart(priority_queues)
  BY <1>2 DEF MInv, NodesFaithful, Queued, Apart
<1>4. Waiting = {p \in Ready : p # current} /\ (current # NULL => current \in Ready)
  BY DEF MInv, NodesFaithful, Ready
<1> QED
  BY <1>1, <1>3, <1>4 DEF Queued, Waiting

(* Before anything has arrived the queues are empty.                       *)
LEMMA InitMInv == Init => C!Init /\ MInv
<1> SUFFICES ASSUME Init PROVE C!Init /\ MInv
  OBVIOUS
<1>1. \A level \in Levels : priority_queues[level] = <<>> /\ Queued(level) = {}
  BY DEF Init, Queued, ToSet
<1>2. Waiting = {} /\ Ready = {}
  BY <1>1 DEF Init, Waiting, Ready
<1>3. C!Init
  BY <1>2, SameSimulator DEF Init, C!Init
<1>4. C!IInv
  BY <1>3, C!InitInv, SimulatorAssumption, ContractAssumption
<1>5. TypeOK
  <2>1. SimTypeOK
    BY <1>4, SameSimulator DEF C!IInv, C!TypeOK
  <2> QED
    BY <2>1, LevelBounds, SimulatorAssumption DEF Init, TypeOK
<1>6. /\ \A level \in Levels : IsInjective(priority_queues[level])
      /\ SortedByArrival(priority_queues[0], arrival_time)
  BY <1>1, LevelBounds DEF IsInjective, SortedByArrival
<1>7. NodesFaithful
  BY <1>1, <1>2, <1>5, <1>6 DEF NodesFaithful
<1> QED
  BY <1>2, <1>3, <1>4, <1>7 DEF MInv, QuantumWithinService

(* An arrival goes to level 0, in its place; the other levels stay.        *)
LEMMA ArrivalEntersTop ==
  ASSUME MInv, NEW p \in Pids, p \notin Ready,
         priority_queues' = [priority_queues EXCEPT ![0] = SortedInsert(@, p, arrival_time)]
  PROVE  /\ priority_queues' \in [Levels -> Seq(Pids)] /\ Apart(priority_queues')
         /\ \A level \in Levels :
              Queued(level)' = IF level = 0 THEN Queued(level) \cup {p} ELSE Queued(level)
         /\ SortedByArrival(priority_queues'[0], arrival_time)
<1>1. ListsOf(priority_queues, Levels, Pids)
  BY QueuesAreApart DEF ListsOf
<1>2. OrderedList(priority_queues[0], Pids, arrival_time)
  BY QueuesAreApart, ReadyProcesses, LevelBounds DEF MInv, NodesFaithful, OrderedList
<1>3. OnNone(p, priority_queues, Levels)
  BY QueuesAreApart DEF OnNone
<1>4. Replaced(priority_queues', priority_queues, 0,
               SortedInsert(priority_queues[0], p, arrival_time))
  BY DEF Replaced
<1>5. 0 \in Levels
  BY LevelBounds
<1> DEFINE new == priority_queues'
           arrival == arrival_time
<1>6. /\ ListsOf(new, Levels, Pids)
      /\ ListGains(new, priority_queues, Levels, 0, p)
      /\ OrderedList(new[0], Pids, arrival)
  <2>1. /\ Replaced(new, priority_queues, 0, SortedInsert(priority_queues[0], p, arrival))
        /\ OrderedList(priority_queues[0], Pids, arrival)
    BY <1>2, <1>4
  <2> HIDE DEF new, arrival
  <2> QED
    BY <1>1, <1>3, <1>5, <2>1, SortedIntoLists
<1> QED
  BY <1>6 DEF ListsOf, ListGains, OrderedList, Queued

(* add_to_ready_queue is the contract's Add.                               *)
LEMMA AddRefines ==
  ASSUME MInv, NEW p \in Pids, add_to_ready_queue(p), UNCHANGED submission
  PROVE  C!Add(p) /\ (C!IInv' => NodesFaithful' /\ QuantumWithinService')
<1>1. /\ p \notin admitted /\ p \notin Ready
      /\ UNCHANGED <<arrival_time, processing_time, processed_time, current, priority_level>>
      /\ priority_queues' = [priority_queues EXCEPT ![0] = SortedInsert(@, p, arrival_time)]
      /\ node_processed_time' = [node_processed_time EXCEPT ![p] = 0]
      /\ quantum_used' = [quantum_used EXCEPT ![p] = 0]
  BY ReadyProcesses DEF add_to_ready_queue, Admit, workload, accounts
<1>3. /\ priority_queues' \in [Levels -> Seq(Pids)] /\ Apart(priority_queues')
      /\ \A level \in Levels :
           Queued(level)' = IF level = 0 THEN Queued(level) \cup {p} ELSE Queued(level)
      /\ SortedByArrival(priority_queues'[0], arrival_time)
  BY <1>1, ArrivalEntersTop
<1>4. Waiting' = Waiting \cup {p}
  BY <1>3, LevelBounds DEF Waiting
<1>5. Ready' = Ready \cup {p}
  BY <1>1, <1>4 DEF Ready
<1>6. C!Add(p)
  BY <1>5, SameSimulator DEF C!Add, add_to_ready_queue
<1>7. processed_time[p] = 0 /\ p # current
  BY <1>1, SameSimulator, QueuesAreApart, ReadyProcesses
     DEF MInv, C!IInv, C!AdmissionInv
<1>8. ASSUME C!IInv' PROVE NodesFaithful' /\ QuantumWithinService'
  <2>1. TypeOK'
    <3>1. SimTypeOK'
      BY <1>8, SameSimulator DEF C!IInv, C!TypeOK, C!SimTypeOK, SimTypeOK
    <3>2. /\ node_processed_time' \in [Pids -> 0 .. TIMEOUT]
          /\ quantum_used' \in [Pids -> 0 .. TIMEOUT]
      BY <1>1, SimulatorAssumption DEF MInv, NodesFaithful, TypeOK
    <3> QED
      BY <3>1, <3>2, <1>1, <1>3 DEF MInv, NodesFaithful, TypeOK
  <2>2. \A q \in Ready' : /\ node_processed_time'[q] = processed_time'[q]
                          /\ quantum_used'[q] <= processed_time'[q]
    BY <1>1, <1>5, <1>7, ReadyProcesses
       DEF MInv, NodesFaithful, TypeOK, QuantumWithinService
  <2>3. \A q \in Waiting' : quantum_used'[q] = 0 /\ q # current'
    BY <1>1, <1>4, <1>7 DEF MInv, NodesFaithful, TypeOK
  <2>4. /\ \A l \in Levels : IsInjective(priority_queues'[l])
        /\ \A l, m \in Levels : l # m => Queued(l)' \cap Queued(m)' = {}
    <3>1. DOMAIN priority_queues' = Levels
      BY <1>3
    <3> QED
      BY <3>1, <1>3 DEF Apart, Queued
  <2> QED
    BY <2>1, <2>2, <2>3, <2>4, <1>1, <1>3 DEF NodesFaithful, QuantumWithinService
<1> QED
  BY <1>6, <1>8

(* What get_next_scheduled_process has when it starts to account for the   *)
(* unit: a ready process, out of the queues, which are otherwise as before.*)
Chosen(c) ==
  /\ c.pid \in Ready
  /\ current \in {c.pid, NULL}
  /\ c.level \in Levels
  /\ c.queues \in [Levels -> Seq(Pids)] /\ Apart(c.queues)
  /\ \A level \in Levels : ToSet(c.queues[level]) = Queued(level) \ {c.pid}
  /\ SortedByArrival(c.queues[0], arrival_time)

LEMMA KeptIsChosen ==
  ASSUME MInv, current # NULL
  PROVE  Chosen(Kept)
<1>1. Kept.pid = current /\ Kept.level = priority_level /\ Kept.queues = priority_queues
  BY DEF Kept
<1>2. \A level \in Levels : current \notin Queued(level)
  BY QueuesAreApart
<1>3. SortedByArrival(priority_queues[0], arrival_time)
  BY DEF MInv, NodesFaithful
<1> QED
  BY <1>1, <1>2, <1>3, QueuesAreApart DEF Chosen

LEMMA TakenIsChosen ==
  ASSUME MInv, current = NULL, NonEmpty # {}
  PROVE  /\ Chosen(Taken)
         /\ Taken.level \in NonEmpty /\ \A level \in NonEmpty : Taken.level <= level
         /\ Taken.pid \in Queued(Taken.level)
<1> DEFINE level == Min(NonEmpty)
           list == priority_queues[level]
           new == [priority_queues EXCEPT ![level] = remove_next(@, 0)]
           p == Head(list)
<1>1. level \in NonEmpty /\ \A l \in NonEmpty : level <= l
  BY MinOfNat, LevelBounds DEF NonEmpty
<1> HIDE DEF level
<1>2. /\ level \in Levels /\ list \in Seq(Pids) /\ list # <<>>
      /\ priority_queues \in [Levels -> Seq(Pids)] /\ ListsOf(priority_queues, Levels, Pids)
      /\ \A l \in Levels : Queued(l) = ToSet(priority_queues[l])
  BY <1>1, QueuesAreApart DEF NonEmpty, ListsOf
<1>3. 0 \in 0 .. Len(priority_queues[level]) - 1 /\ p = priority_queues[level][0 + 1]
  BY <1>2
<1>4. /\ new \in [Levels -> Seq(Pids)] /\ Apart(new)
      /\ p \in Pids /\ p \in ToSet(priority_queues[level])
      /\ \A l \in Levels : ToSet(new[l]) = ToSet(priority_queues[l]) \ {p}
  <2>1. Replaced(new, priority_queues, level, remove_next(priority_queues[level], 0))
    BY DEF Replaced
  <2> HIDE DEF new, list, p
  <2>2. /\ ListsOf(new, Levels, Pids)
        /\ priority_queues[level][0 + 1] \in Pids
        /\ priority_queues[level][0 + 1] \in ToSet(priority_queues[level])
        /\ ListsLose(new, priority_queues, Levels, priority_queues[level][0 + 1])
    BY <1>2, <1>3, <2>1, TakenOutOfLists
  <2> QED
    BY <2>2, <1>3 DEF ListsOf, ListsLose
<1>5. SortedByArrival(new[0], arrival_time)
  <2>1. SortedByArrival(priority_queues[0], arrival_time)
    BY DEF MInv, NodesFaithful
  <2>2. CASE level = 0
    <3>1. OrderedList(list, Pids, arrival_time)
      BY <2>1, <2>2, <1>2, ReadyProcesses DEF OrderedList
    <3>2. OrderedList(remove_next(list, 0), Pids, arrival_time)
      BY <3>1, <1>2, SortedWithoutHead
    <3> QED
      BY <3>2, <2>2, <1>2, LevelBounds DEF OrderedList
  <2>3. CASE level # 0
    BY <2>1, <2>3, <1>2, LevelBounds
  <2> QED
    BY <2>2, <2>3
<1> HIDE DEF p
<1>6. Taken.pid = p /\ Taken.level = level /\ Taken.queues = new
  BY DEF Taken, p, level
<1>7. p \in Ready
  BY <1>2, <1>4, QueuesAreApart
<1> HIDE DEF new
<1> QED
  BY <1>1, <1>2, <1>4, <1>5, <1>6, <1>7 DEF Chosen

(* The three ways a time unit ends for the process that had it.            *)
Effect(c, p, next) ==
  /\ p \in Pids /\ p \in Ready /\ processed_time[p] < processing_time[p]
  /\ Account(p) /\ priority_level' = c.level
  /\ node_processed_time' = [node_processed_time EXCEPT ![p] = processed_time[p] + 1]
  /\ processed_time' = [processed_time EXCEPT ![p] = processed_time[p] + 1]
  /\ UNCHANGED <<arrival_time, processing_time, admitted>>
  /\ next \in Levels /\ next # 0
  /\ next = IF c.level = Lowest THEN Lowest ELSE c.level + 1
  /\ priority_queues' \in [Levels -> Seq(Pids)] /\ Apart(priority_queues')
  /\ priority_queues'[0] = c.queues[0]
  /\ \/ /\ processed_time[p] + 1 = processing_time[p]
        /\ current' = NULL
        /\ quantum_used' = [quantum_used EXCEPT ![p] = @ + 1]
        /\ \A l \in Levels : Queued(l)' = Queued(l) \ {p}
     \/ /\ processed_time[p] + 1 # processing_time[p]
        /\ quantum_used[p] + 1 = Quantum(c.level)
        /\ current' = NULL
        /\ quantum_used' = [quantum_used EXCEPT ![p] = 0]
        /\ \A l \in Levels : Queued(l)' = IF l = next THEN (Queued(l) \ {p}) \cup {p}
                                          ELSE Queued(l) \ {p}
     \/ /\ processed_time[p] + 1 # processing_time[p]
        /\ quantum_used[p] + 1 # Quantum(c.level)
        /\ current' = p
        /\ quantum_used' = [quantum_used EXCEPT ![p] = @ + 1]
        /\ \A l \in Levels : Queued(l)' = Queued(l) \ {p}

LEMMA ExecuteEffect ==
  ASSUME MInv, NEW c, Chosen(c), Execute(c)
  PROVE  Effect(c, c.pid, Min({c.level + 1, Lowest}))
<1> SUFFICES ASSUME NEW p, p = c.pid, NEW next, next = Min({c.level + 1, Lowest})
             PROVE  Effect(c, p, next)
  OBVIOUS
<1>1. /\ p \in Pids /\ p \in Ready /\ processed_time[p] < processing_time[p]
      /\ node_processed_time[p] = processed_time[p]
  BY ReadyProcesses DEF Chosen, MInv, NodesFaithful, Unfinished
<1>2. /\ Account(p) /\ priority_level' = c.level
      /\ node_processed_time' = [node_processed_time EXCEPT ![p] = processed_time[p] + 1]
  <2>1. node_processed_time' = [node_processed_time EXCEPT ![p] = @ + 1]
    BY DEF Execute
  <2>2. node_processed_time \in [Pids -> 0 .. TIMEOUT]
    BY DEF MInv, NodesFaithful, TypeOK
  <2> QED
    BY <1>1, <2>1, <2>2 DEF Execute
<1>3. /\ processed_time' = [processed_time EXCEPT ![p] = processed_time[p] + 1]
      /\ UNCHANGED <<arrival_time, processing_time, admitted>>
  <2>1. /\ processed_time' = [processed_time EXCEPT ![p] = @ + 1]
        /\ UNCHANGED <<arrival_time, processing_time, admitted>>
    BY <1>1, <1>2, ReadyProcesses, SimulatorAssumption
       DEF Account, AccountUnit, AccountOverrun, Unfinished, workload, Idle
  <2> QED
    BY <1>1, <2>1, ReadyProcesses DEF SimTypeOK
<1>4. /\ next \in Levels /\ next # 0
      /\ next = IF c.level = Lowest THEN Lowest ELSE c.level + 1
  <2>1. c.level \in 0 .. Lowest /\ Lowest \in Nat /\ Lowest # 0
    BY LevelBounds DEF Chosen
  <2>2. {c.level + 1, Lowest} \subseteq Nat
    BY <2>1
  <2>3. next \in {c.level + 1, Lowest} /\ next <= c.level + 1 /\ next <= Lowest
    BY <2>2, MinOfNat
  <2> QED
    BY <2>1, <2>3, LevelBounds
<1>5. /\ c.queues \in [Levels -> Seq(Pids)] /\ Apart(c.queues)
      /\ \A l \in Levels : ToSet(c.queues[l]) = Queued(l) \ {p}
      /\ \A l \in Levels : p \notin ToSet(c.queues[l])
  BY DEF Chosen
<1>6. CASE processed_time[p] + 1 = processing_time[p] /\ Finish(c)
  <2>1. /\ priority_queues' = c.queues /\ current' = NULL
        /\ quantum_used' = [quantum_used EXCEPT ![p] = @ + 1]
    BY <1>6 DEF Finish
  <2>2. \A l \in Levels : Queued(l)' = Queued(l) \ {p}
    BY <1>5, <2>1 DEF Queued
  <2> QED
    BY <1>1, <1>2, <1>3, <1>4, <1>5, <1>6, <2>1, <2>2 DEF Effect
<1>7. CASE /\ processed_time[p] + 1 # processing_time[p]
           /\ quantum_used[p] + 1 = Quantum(c.level) /\ Demote(c)
  <2>1. /\ priority_queues' = [c.queues EXCEPT ![next] = AddLast(@, p)] /\ current' = NULL
        /\ quantum_used' = [quantum_used EXCEPT ![p] = 0]
    BY <1>7 DEF Demote
  <2>2. /\ priority_queues' \in [Levels -> Seq(Pids)] /\ Apart(priority_queues')
        /\ \A l \in Levels : ToSet(priority_queues'[l]) =
              IF l = next THEN ToSet(c.queues[l]) \cup {p} ELSE ToSet(c.queues[l])
    <3> DEFINE queues == c.queues
    <3>1. /\ ListsOf(queues, Levels, Pids) /\ OnNone(p, queues, Levels)
          /\ Replaced(priority_queues', queues, next, AddLast(queues[next], p))
      BY <1>5, <2>1 DEF ListsOf, OnNone, Replaced
    <3> HIDE DEF queues
    <3>2. /\ ListsOf(priority_queues', Levels, Pids)
          /\ ListGains(priority_queues', queues, Levels, next, p)
      BY <1>1, <1>4, <3>1, AddedLastToLists
    <3> QED
      BY <3>2 DEF ListsOf, ListGains, queues
  <2>3. priority_queues'[0] = c.queues[0]
    BY <1>4, <1>5, <2>1, LevelBounds
  <2>4. \A l \in Levels : Queued(l)' = IF l = next THEN (Queued(l) \ {p}) \cup {p}
                                       ELSE Queued(l) \ {p}
    BY <1>5, <2>2 DEF Queued
  <2> QED
    BY <1>1, <1>2, <1>3, <1>4, <1>7, <2>1, <2>2, <2>3, <2>4 DEF Effect
<1>8. CASE /\ processed_time[p] + 1 # processing_time[p]
           /\ quantum_used[p] + 1 # Quantum(c.level) /\ KeepProcessor(c)
  <2>1. /\ priority_queues' = c.queues /\ current' = p
        /\ quantum_used' = [quantum_used EXCEPT ![p] = @ + 1]
    BY <1>8 DEF KeepProcessor
  <2>2. \A l \in Levels : Queued(l)' = Queued(l) \ {p}
    BY <1>5, <2>1 DEF Queued
  <2> QED
    BY <1>1, <1>2, <1>3, <1>4, <1>5, <1>8, <2>1, <2>2 DEF Effect
<1> QED
  BY <1>1, <1>6, <1>7, <1>8 DEF Execute

(* get_next_scheduled_process, with a process to run, is the contract's    *)
(* Run of it.                                                              *)
LEMMA ExecuteRefines ==
  ASSUME MInv, NEW c, Chosen(c), Execute(c), UNCHANGED submission
  PROVE  /\ \E p \in Pids : C!Run(p)
         /\ C!IInv' => NodesFaithful' /\ QuantumWithinService'
<1> DEFINE p == c.pid
           next == Min({c.level + 1, Lowest})
           finished == processed_time[p] + 1 = processing_time[p]
<1>1. /\ p \in Pids /\ p \in Ready /\ processed_time[p] < processing_time[p]
      /\ Account(p) /\ priority_level' = c.level
      /\ node_processed_time' = [node_processed_time EXCEPT ![p] = processed_time[p] + 1]
      /\ processed_time' = [processed_time EXCEPT ![p] = processed_time[p] + 1]
      /\ UNCHANGED <<arrival_time, processing_time, admitted>>
      /\ next \in Levels
      /\ priority_queues' \in [Levels -> Seq(Pids)] /\ Apart(priority_queues')
      /\ priority_queues'[0] = c.queues[0]
      /\ \/ /\ finished /\ current' = NULL
            /\ quantum_used' = [quantum_used EXCEPT ![p] = @ + 1]
            /\ \A l \in Levels : Queued(l)' = Queued(l) \ {p}
         \/ /\ ~finished /\ current' = NULL
            /\ quantum_used' = [quantum_used EXCEPT ![p] = 0]
            /\ \A l \in Levels : Queued(l)' = IF l = next THEN (Queued(l) \ {p}) \cup {p}
                                              ELSE Queued(l) \ {p}
         \/ /\ ~finished /\ current' = p
            /\ quantum_used' = [quantum_used EXCEPT ![p] = @ + 1]
            /\ \A l \in Levels : Queued(l)' = Queued(l) \ {p}
  <2>1. Effect(c, c.pid, Min({c.level + 1, Lowest}))
    BY ExecuteEffect
  <2> QED
    BY <2>1 DEF Effect
<1>2. c.level \in Levels /\ current \in {p, NULL} /\ SortedByArrival(c.queues[0], arrival_time)
  BY DEF Chosen
<1> HIDE DEF p, next
<1>3. /\ p # NULL /\ Ready = Waiting \cup ({current} \ {NULL})
      /\ Waiting = UNION {Queued(l) : l \in Levels}
      /\ Waiting' = UNION {Queued(l)' : l \in Levels}
  BY <1>1, ReadyProcesses DEF Ready, Waiting
<1>4. /\ finished => Waiting' = Waiting \ {p} /\ current' = NULL
      /\ ~finished => \/ Waiting' = (Waiting \ {p}) \cup {p} /\ current' = NULL
                      \/ Waiting' = Waiting \ {p} /\ current' = p
  <2>1. (\A l \in Levels : Queued(l)' = Queued(l) \ {p}) => Waiting' = Waiting \ {p}
    BY <1>3
  <2>2. ASSUME \A l \in Levels : Queued(l)' = IF l = next THEN (Queued(l) \ {p}) \cup {p}
                                              ELSE Queued(l) \ {p}
        PROVE  Waiting' = (Waiting \ {p}) \cup {p}
    <3>1. \A q \in Waiting' : q \in (Waiting \ {p}) \cup {p}
      BY <1>3, <2>2
    <3>2. \A q \in Waiting \ {p} : q \in Waiting'
      BY <1>3, <2>2
    <3>3. p \in Queued(next)'
      BY <1>1, <2>2
    <3>4. p \in Waiting'
      BY <1>1, <1>3, <3>3
    <3> QED
      BY <3>1, <3>2, <3>4
  <2> QED
    BY <1>1, <2>1, <2>2
<1>5. Ready' = Waiting' \cup ({current'} \ {NULL})
  BY DEF Ready
<1>6. Ready' = IF finished THEN Ready \ {p} ELSE Ready
  BY <1>1, <1>2, <1>3, <1>4, <1>5
<1>7. C!Run(p)
  BY <1>1, <1>6, SameSimulator DEF C!Run
<1>8. ASSUME C!IInv' PROVE NodesFaithful' /\ QuantumWithinService'
  <2>1. SimTypeOK'
    BY <1>8, SameSimulator DEF C!IInv, C!TypeOK, C!SimTypeOK, SimTypeOK
  <2>2. /\ processed_time[p] + 1 \in 0 .. TIMEOUT /\ processed_time[p] \in Nat
        /\ quantum_used[p] \in Nat /\ quantum_used[p] <= processed_time[p]
        /\ TIMEOUT \in Nat
    <3>1. processed_time'[p] = processed_time[p] + 1 /\ processed_time[p] \in 0 .. TIMEOUT
      BY <1>1, ReadyProcesses DEF SimTypeOK
    <3>2. quantum_used[p] \in 0 .. TIMEOUT /\ quantum_used[p] <= processed_time[p]
      BY <1>1 DEF MInv, NodesFaithful, TypeOK, QuantumWithinService
    <3> QED
      BY <2>1, <3>1, <3>2, <1>1, SimulatorAssumption DEF SimTypeOK
  <2>3. /\ node_processed_time' \in [Pids -> 0 .. TIMEOUT]
        /\ quantum_used' \in [Pids -> 0 .. TIMEOUT]
    <3>1. quantum_used[p] + 1 \in 0 .. TIMEOUT /\ 0 \in 0 .. TIMEOUT
      BY <2>2
    <3> QED
      BY <1>1, <2>2, <3>1 DEF MInv, NodesFaithful, TypeOK
  <2>4. TypeOK'
    BY <1>1, <1>2, <2>1, <2>3 DEF MInv, NodesFaithful, TypeOK
  <2>5. /\ Ready \subseteq Pids
        /\ \A q \in Ready : /\ node_processed_time[q] = processed_time[q]
                            /\ quantum_used[q] <= processed_time[q]
    BY ReadyProcesses DEF MInv, NodesFaithful, QuantumWithinService
  <2>6. \A q \in Ready : /\ node_processed_time'[q] = processed_time'[q]
                         /\ quantum_used'[q] <= processed_time'[q]
    <3> SUFFICES ASSUME NEW q \in Ready
                 PROVE  /\ node_processed_time'[q] = processed_time'[q]
                        /\ quantum_used'[q] <= processed_time'[q]
      OBVIOUS
    <3>1. CASE q = p
      BY <3>1, <1>1, <2>2, ReadyProcesses DEF MInv, NodesFaithful, TypeOK, SimTypeOK
    <3>2. CASE q # p
      BY <3>2, <1>1, <2>5, ReadyProcesses DEF MInv, NodesFaithful, TypeOK, SimTypeOK
    <3> QED
      BY <3>1, <3>2
  <2>7. \A q \in Waiting' : quantum_used'[q] = 0 /\ q # current'
    <3> SUFFICES ASSUME NEW q \in Waiting' PROVE quantum_used'[q] = 0 /\ q # current'
      OBVIOUS
    <3>1. Waiting \subseteq Pids /\ \A r \in Waiting : quantum_used[r] = 0 /\ r # NULL
      BY QueuesAreApart, ReadyProcesses DEF MInv, NodesFaithful
    <3>2. quantum_used \in [Pids -> 0 .. TIMEOUT]
      BY DEF MInv, NodesFaithful, TypeOK
    <3>3. CASE q = p
      <4>1. PICK l \in Levels : p \in Queued(l)'
        BY <1>3, <3>3
      <4>2. quantum_used' = [quantum_used EXCEPT ![p] = 0] /\ current' = NULL
        <5>1. ~(\A m \in Levels : Queued(m)' = Queued(m) \ {p})
          BY <4>1
        <5> QED
          BY <1>1, <5>1
      <4> QED
        BY <4>2, <3>2, <3>3, <1>1, <1>3
    <3>4. CASE q # p
      <4>1. q \in Waiting
        BY <3>4, <1>4
      <4>2. quantum_used'[q] = quantum_used[q]
        BY <3>1, <3>2, <3>4, <4>1, <1>1
      <4> QED
        BY <3>1, <3>4, <4>1, <4>2, <1>1
    <3> QED
      BY <3>3, <3>4
  <2>8. /\ \A l \in Levels : IsInjective(priority_queues'[l])
        /\ \A l, m \in Levels : l # m => Queued(l)' \cap Queued(m)' = {}
    <3>1. DOMAIN priority_queues' = Levels
      BY <1>1
    <3> QED
      BY <3>1, <1>1 DEF Apart, Queued
  <2>9. \A q \in Ready' : /\ node_processed_time'[q] = processed_time'[q]
                          /\ quantum_used'[q] <= processed_time'[q]
    BY <2>6, <1>6
  <2>10. SortedByArrival(priority_queues'[0], arrival_time')
    BY <1>1, <1>2
  <2> QED
    BY <2>4, <2>7, <2>8, <2>9, <2>10 DEF NodesFaithful, QuantumWithinService
<1> QED
  BY <1>1, <1>7, <1>8

(* Every step of the program is a step of the contract, or changes nothing *)
(* the contract speaks of, and keeps the invariant.                        *)
LEMMA StepRefines ==
  ASSUME MInv, [Next]_vars
  PROVE  [C!Next]_(C!vars) /\ MInv'
<1>1. CASE (EnterIteration \/ LeaveLoop) /\ UNCHANGED schedVars /\ UNCHANGED submission
  <2>1. Ready' = Ready /\ Waiting' = Waiting /\ \A l \in Levels : Queued(l)' = Queued(l)
    BY <1>1 DEF Ready, Waiting, Queued, schedVars
  <2>2. C!Next
    BY <1>1, <2>1, SameSimulator DEF C!Next
  <2>3. C!IInv'
    BY <2>2, C!NextKeepsInv, SimulatorAssumption, ContractAssumption DEF MInv
  <2>4. SimTypeOK'
    BY <2>3, SameSimulator DEF C!IInv, C!TypeOK, C!SimTypeOK, SimTypeOK
  <2>5. UNCHANGED <<arrival_time, processed_time>>
    BY <1>1 DEF EnterIteration, LeaveLoop, workload, accounts
  <2>6. NodesFaithful' /\ QuantumWithinService'
    BY <1>1, <2>1, <2>4, <2>5
       DEF MInv, NodesFaithful, QuantumWithinService, TypeOK, schedVars
  <2> QED
    BY <2>2, <2>3, <2>6 DEF MInv
<1>2. CASE (\E p \in Pids : add_to_ready_queue(p)) /\ UNCHANGED submission
  <2>1. PICK p \in Pids : add_to_ready_queue(p)
    BY <1>2
  <2>2. C!Next /\ (C!IInv' => NodesFaithful' /\ QuantumWithinService')
    BY <1>2, <2>1, AddRefines DEF C!Next
  <2> QED
    BY <2>2, C!NextKeepsInv, SimulatorAssumption, ContractAssumption DEF MInv
<1>3. CASE (ScheduleCurrent \/ ScheduleFirst) /\ UNCHANGED submission
  <2>1. PICK c : Chosen(c) /\ Execute(c)
    BY <1>3, KeptIsChosen, TakenIsChosen DEF ScheduleCurrent, ScheduleFirst
  <2>2. C!Next /\ (C!IInv' => NodesFaithful' /\ QuantumWithinService')
    BY <1>3, <2>1, ExecuteRefines DEF C!Next
  <2> QED
    BY <2>2, C!NextKeepsInv, SimulatorAssumption, ContractAssumption DEF MInv
<1>4. CASE ScheduleNone /\ UNCHANGED submission
  <2>1. /\ Ready = {} /\ Ready' = Ready /\ Waiting' = Waiting
        /\ \A l \in Levels : Queued(l)' = Queued(l)
    <3>1. \A l \in Levels : priority_queues[l] = <<>>
      BY <1>4 DEF ScheduleNone, NonEmpty
    <3> QED
      BY <1>4, <3>1 DEF ScheduleNone, schedVars, Ready, Waiting, Queued, ToSet
  <2>2. C!RunNone
    BY <1>4, <2>1, SameSimulator DEF ScheduleNone, C!RunNone, C!Idle, Idle
  <2>3. C!Next /\ C!IInv'
    BY <2>2, C!NextKeepsInv, SimulatorAssumption, ContractAssumption DEF C!Next, MInv
  <2>4. SimTypeOK'
    BY <2>3, SameSimulator DEF C!IInv, C!TypeOK, C!SimTypeOK, SimTypeOK
  <2>5. arrival_time' = arrival_time
    BY <1>4 DEF ScheduleNone, Account, workload
  <2>6. NodesFaithful' /\ QuantumWithinService'
    BY <1>4, <2>1, <2>4, <2>5
       DEF ScheduleNone, MInv, NodesFaithful, QuantumWithinService, TypeOK, schedVars
  <2> QED
    BY <2>3, <2>6 DEF MInv
<1>5. CASE UNCHANGED vars
  <2>1. UNCHANGED C!vars
    BY <1>5 DEF vars, simVars, schedVars, C!vars, C!simVars, Ready, Waiting, Queued
  <2>2. C!IInv'
    BY <2>1, C!NextKeepsInv, SimulatorAssumption, ContractAssumption DEF MInv
  <2>3. NodesFaithful' /\ QuantumWithinService'
    BY <1>5 DEF vars, simVars, schedVars, MInv, NodesFaithful, QuantumWithinService,
                TypeOK, SimTypeOK, Ready, Waiting, Queued
  <2> QED
    BY <2>1, <2>2, <2>3 DEF MInv
<1> QED
  BY <1>1, <1>2, <1>3, <1>4, <1>5 DEF Next, get_next_scheduled_process

-----------------------------------------------------------------------------
(* The invariant holds throughout.                                         *)
THEOREM Invariance == Spec => []MInv
  BY InitMInv, StepRefines, PTL DEF Spec

(* constant.c and exponential.c implement the contract (its safety part;   *)
(* that the simulation ends is checked by TLC).                            *)
THEOREM MlfqKeepsContract == Spec => C!Spec
  BY InitMInv, StepRefines, PTL DEF Spec, C!Spec

(* Every ready process's node is in one place, once, and counts its time   *)
(* as the simulator does; level 0 is sorted.                               *)
THEOREM NodesAreFaithful == Spec => []NodesFaithful
<1>1. MInv => NodesFaithful
  BY DEF MInv
<1> QED
  BY <1>1, Invariance, PTL

-----------------------------------------------------------------------------
(* The quanta of the levels, as a function.                                *)
QuantumOf == [level \in Nat |-> Quantum(level)]

(* Every level has a quantum of some units, of either submission.          *)
LEMMA QuantumIsPositive ==
  ASSUME NEW level \in Nat
  PROVE  Quantum(level) \in Nat \ {0}
<1>1. ConstantQuantum(level) \in Nat \ {0}
  BY DEF ConstantQuantum, QUANTUM
<1>2. ExponentialQuantum(level) \in Nat \ {0}
  <2> DEFINE k == level + 1
  <2>1. k \in Nat /\ k >= 1
    OBVIOUS
  <2> HIDE DEF k
  <2>2. k * k \in Nat /\ k * k >= k
    BY <2>1
  <2>3. 2 * (k * k) \in Nat /\ 2 * (k * k) # 0
    BY <2>1, <2>2
  <2> QED
    BY <2>3 DEF ExponentialQuantum, k
<1> QED
  BY <1>1, <1>2 DEF Quantum

(* What the levels above take altogether is a sum of that function.        *)
LEMMA ServiceBelowIsTotal ==
  ASSUME NEW n \in Nat
  PROVE  ServiceBelow(n) = Total(QuantumOf, 0 .. n - 1)
<1> DEFINE S == 0 .. n - 1
           P(sum) == sum = [s \in SUBSET S |->
                              IF s = {} THEN 0
                              ELSE Quantum(CHOOSE x \in s : TRUE)
                                     + sum[s \ {CHOOSE x \in s : TRUE}]]
           iter == CHOOSE sum : P(sum)
<1>1. ServiceBelow(n) = iter[S]
  BY DEF ServiceBelow, MapThenSumSet, MapThenFoldSet
<1>2. IsFiniteSet(S) /\ \A x \in S : x \in Nat /\ QuantumOf[x] = Quantum(x) /\ QuantumOf[x] \in Int
  BY FS_Interval, QuantumIsPositive DEF QuantumOf
<1> HIDE DEF S
<1>3. PICK sum \in [SUBSET S -> Int] : \A s \in SUBSET S : sum[s] = FoldStep(QuantumOf, sum, s)
  BY <1>2, TotalExists
<1>4. \A s \in SUBSET S : s # {} => (CHOOSE x \in s : TRUE) \in S
  OBVIOUS
<1>5. P(sum)
  BY <1>2, <1>3, <1>4 DEF FoldStep
<1>6. P(iter)
  <2> HIDE DEF P
  <2> QED
    BY <1>5
<1> HIDE DEF iter
<1>7. \A s \in SUBSET S : iter[s] = FoldStep(QuantumOf, iter, s)
  BY <1>2, <1>4, <1>6 DEF FoldStep
<1>8. PICK f : (\A s \in SUBSET S : f[s] = FoldStep(QuantumOf, f, s)) /\ Total(QuantumOf, S) = f[S]
  BY <1>2, TotalIsSolution
<1>9. f[S] = iter[S]
  BY <1>2, <1>7, <1>8, TotalUnique
<1> QED
  BY <1>1, <1>8, <1>9 DEF S

(* Level by level, what the levels above take grows by a quantum.          *)
LEMMA ServiceBelowGrows ==
  /\ ServiceBelow(0) = 0
  /\ \A n \in Nat : /\ ServiceBelow(n) \in Nat
                    /\ ServiceBelow(n + 1) = ServiceBelow(n) + Quantum(n)
  /\ \A l, m \in Nat : l <= m => ServiceBelow(l) <= ServiceBelow(m)
<1>1. ServiceBelow(0) = 0
  <2>1. 0 .. 0 - 1 = {}
    OBVIOUS
  <2> QED
    BY <2>1, ServiceBelowIsTotal, TotalEmpty
<1>2. ASSUME NEW n \in Nat
      PROVE  /\ ServiceBelow(n) \in Int
             /\ ServiceBelow(n + 1) = ServiceBelow(n) + Quantum(n)
  <2> DEFINE S == 0 .. n - 1
  <2>1. /\ IsFiniteSet(S) /\ n \notin S /\ 0 .. (n + 1) - 1 = S \cup {n}
        /\ \A x \in S \cup {n} : x \in Nat
    BY FS_Interval
  <2>2. /\ \A x \in S \cup {n} : QuantumOf[x] \in Int
        /\ QuantumOf[n] = Quantum(n) /\ Quantum(n) \in Int
    BY <2>1, QuantumIsPositive DEF QuantumOf
  <2>3. /\ ServiceBelow(n) = Total(QuantumOf, S)
        /\ ServiceBelow(n + 1) = Total(QuantumOf, S \cup {n})
    <3>1. \A m \in Nat : ServiceBelow(m) = Total(QuantumOf, 0 .. m - 1)
      BY ServiceBelowIsTotal
    <3>2. n \in Nat /\ n + 1 \in Nat
      OBVIOUS
    <3>3. ServiceBelow(n + 1) = Total(QuantumOf, 0 .. (n + 1) - 1)
      BY <3>1, <3>2, Zenon
    <3> QED
      BY <3>1, <3>2, <3>3, <2>1, Zenon
  <2> HIDE DEF S
  <2>4. /\ Total(QuantumOf, S) \in Int
        /\ Total(QuantumOf, S \cup {n}) = QuantumOf[n] + Total(QuantumOf, S)
    BY <2>1, <2>2, TotalInt, TotalAdd
  <2> QED
    BY <2>2, <2>3, <2>4
<1> DEFINE good == {m \in Nat : ServiceBelow(m) \in Nat
                                /\ \A l \in 0 .. m : ServiceBelow(l) <= ServiceBelow(m)}
<1>3. 0 \in good
  BY <1>1
<1>4. ASSUME NEW m \in Nat, m \in good PROVE m + 1 \in good
  <2>1. ServiceBelow(m + 1) = ServiceBelow(m) + Quantum(m) /\ Quantum(m) \in Nat
    BY <1>2, QuantumIsPositive
  <2>2. \A l \in 0 .. m : ServiceBelow(l) \in Int /\ ServiceBelow(l) <= ServiceBelow(m)
    BY <1>2, <1>4
  <2>3. ServiceBelow(m) \in Nat
    BY <1>4
  <2>4. \A l \in 0 .. m + 1 : l = m + 1 \/ l \in 0 .. m
    OBVIOUS
  <2>5. \A l \in 0 .. m + 1 : ServiceBelow(l) <= ServiceBelow(m + 1)
    BY <2>1, <2>2, <2>3, <2>4
  <2> QED
    BY <2>1, <2>3, <2>5
<1>5. Nat \subseteq good
  <2> HIDE DEF good
  <2> QED
    BY <1>3, <1>4, InductionOnNat
<1>6. \A l, m \in Nat : l <= m => l \in 0 .. m
  OBVIOUS
<1> QED
  BY <1>1, <1>2, <1>5, <1>6

(* The program stays the one that was compiled, and so do its quanta.      *)
LEMMA ServiceBelowAsTotal == \A n \in Nat : ServiceBelow(n) = Total(QuantumOf, 0 .. n - 1)
  BY ServiceBelowIsTotal

LEMMA QuantaStay ==
  ASSUME UNCHANGED submission
  PROVE  /\ \A level : Quantum(level)' = Quantum(level)
         /\ \A n \in Nat : ServiceBelow(n)' = ServiceBelow(n)
<1>1. \A level : Quantum(level)' = Quantum(level)
  BY DEF Quantum
<1>2. QuantumOf' = QuantumOf
  BY <1>1 DEF QuantumOf
<1>3. (\A n \in Nat : ServiceBelow(n) = Total(QuantumOf, 0 .. n - 1))'
  BY ServiceBelowAsTotal, PTL
<1> QED
  BY <1>1, <1>2, <1>3, ServiceBelowAsTotal

(* What LevelMatchesService says of a process that has had `here' units    *)
(* beyond those of the levels above its own and used `used' of the quantum.*)
Fits(here, quantum, level, used) ==
  IF level = Lowest THEN here >= 0 /\ here % quantum = used ELSE here = used

LevelsFit ==
  /\ \A level \in Levels : \A p \in Queued(level) :
       Fits(processed_time[p] - ServiceBelow(level), Quantum(level), level, 0)
  /\ current # NULL =>
       /\ quantum_used[current] \in 1 .. Quantum(priority_level) - 1
       /\ Fits(processed_time[current] - ServiceBelow(priority_level),
               Quantum(priority_level), priority_level, quantum_used[current])

LEMMA LevelsFitIsProperty ==
  ASSUME MInv
  PROVE  LevelsFit <=> LevelMatchesService
<1>1. Lowest \in Levels /\ priority_level \in Levels /\ NodesFaithful
  BY LevelBounds, QueuesAreApart DEF MInv
<1>2. ASSUME LevelsFit PROVE LevelMatchesService
  BY <1>1, <1>2 DEF LevelsFit, LevelMatchesService, Fits
<1>3. ASSUME LevelMatchesService PROVE LevelsFit
  BY <1>1, <1>3 DEF LevelsFit, LevelMatchesService, Fits
<1> QED
  BY <1>2, <1>3

(* A unit more on a level, and the last unit of a quantum.                 *)
LEMMA UnitFits ==
  ASSUME NEW here \in Int, NEW quantum \in Nat \ {0}, NEW level, NEW used \in 0 .. quantum - 1,
         Fits(here, quantum, level, used)
  PROVE  /\ used + 1 # quantum => Fits(here + 1, quantum, level, used + 1)
         /\ used + 1 = quantum /\ level = Lowest => Fits(here + 1, quantum, level, 0)
         /\ used + 1 = quantum /\ level # Lowest => here + 1 = quantum
<1>1. CASE level = Lowest
  <2>1. here \in Nat /\ here % quantum = used
    BY <1>1 DEF Fits
  <2>2. (here + 1) % quantum = IF (here % quantum) + 1 = quantum THEN 0 ELSE (here % quantum) + 1
    BY <2>1, NextRemainder
  <2> QED
    BY <1>1, <2>1, <2>2 DEF Fits
<1>2. CASE level # Lowest
  BY <1>2 DEF Fits
<1> QED
  BY <1>1, <1>2

(* The process chosen fits where it comes from, with what it has used of   *)
(* its quantum.                                                            *)
ChosenFits(c) ==
  /\ quantum_used[c.pid] \in 0 .. Quantum(c.level) - 1
  /\ Fits(processed_time[c.pid] - ServiceBelow(c.level), Quantum(c.level), c.level,
          quantum_used[c.pid])

LEMMA ScheduledFits ==
  ASSUME MInv, LevelsFit
  PROVE  /\ current # NULL => ChosenFits(Kept)
         /\ current = NULL /\ NonEmpty # {} => ChosenFits(Taken)
<1>1. ASSUME current # NULL PROVE ChosenFits(Kept)
  <2>1. Quantum(priority_level) \in Nat
    BY QueuesAreApart, LevelBounds, QuantumIsPositive
  <2> QED
    BY <1>1, <2>1 DEF LevelsFit, ChosenFits, Kept
<1>2. ASSUME current = NULL, NonEmpty # {} PROVE ChosenFits(Taken)
  <2>1. /\ Taken.level \in Levels /\ Taken.pid \in Queued(Taken.level)
    BY <1>2, TakenIsChosen DEF Chosen
  <2>2. Taken.pid \in Waiting /\ quantum_used[Taken.pid] = 0
    BY <2>1 DEF Waiting, MInv, NodesFaithful
  <2>3. Quantum(Taken.level) \in Nat \ {0}
    BY <2>1, LevelBounds, QuantumIsPositive
  <2>4. Fits(processed_time[Taken.pid] - ServiceBelow(Taken.level), Quantum(Taken.level),
             Taken.level, 0)
    BY <2>1 DEF LevelsFit
  <2> QED
    BY <2>2, <2>3, <2>4 DEF ChosenFits
<1> QED
  BY <1>1, <1>2

(* A unit for the process chosen keeps everybody in the right level.       *)
LEMMA ExecuteKeepsLevels ==
  ASSUME MInv, LevelsFit, NEW c, Chosen(c), ChosenFits(c), Execute(c), UNCHANGED submission
  PROVE  LevelsFit'
<1> DEFINE p == c.pid
           level == c.level
           next == Min({level + 1, Lowest})
           used == quantum_used[p]
           runs == processed_time[p] + 1
<1>1. /\ p \in Pids /\ priority_level' = level
      /\ processed_time' = [processed_time EXCEPT ![p] = runs]
      /\ next \in Levels /\ next = IF level = Lowest THEN Lowest ELSE level + 1
      /\ \/ /\ current' = NULL
            /\ \A l \in Levels : Queued(l)' = Queued(l) \ {p}
         \/ /\ used + 1 = Quantum(level) /\ current' = NULL
            /\ \A l \in Levels : Queued(l)' = IF l = next THEN (Queued(l) \ {p}) \cup {p}
                                              ELSE Queued(l) \ {p}
         \/ /\ used + 1 # Quantum(level) /\ current' = p
            /\ quantum_used' = [quantum_used EXCEPT ![p] = @ + 1]
            /\ \A l \in Levels : Queued(l)' = Queued(l) \ {p}
  <2>1. Effect(c, c.pid, Min({c.level + 1, Lowest}))
    BY ExecuteEffect
  <2> QED
    BY <2>1 DEF Effect
<1>2. /\ level \in Levels /\ level \in Nat /\ Lowest \in Levels
      /\ used \in 0 .. Quantum(level) - 1
      /\ Fits(processed_time[p] - ServiceBelow(level), Quantum(level), level, used)
  BY LevelBounds DEF Chosen, ChosenFits
<1> HIDE DEF p, level, next
<1>3. /\ \A l \in Levels : Quantum(l) \in Nat \ {0} /\ Quantum(l)' = Quantum(l)
      /\ \A l \in Levels : ServiceBelow(l) \in Nat /\ ServiceBelow(l)' = ServiceBelow(l)
  BY LevelBounds, QuantumIsPositive, QuantaStay, ServiceBelowGrows
<1>4. /\ processed_time \in [Pids -> 0 .. TIMEOUT]
      /\ quantum_used \in [Pids -> 0 .. TIMEOUT]
      /\ \A l \in Levels : Queued(l) \subseteq Pids
  BY ReadyProcesses, QueuesAreApart DEF MInv, NodesFaithful, TypeOK, SimTypeOK
<1>5. /\ processed_time'[p] = runs /\ processed_time[p] \in Nat
      /\ \A q \in Pids : q # p => processed_time'[q] = processed_time[q]
  BY <1>1, <1>4, SimulatorAssumption
<1>6. /\ used + 1 # Quantum(level) =>
           Fits(runs - ServiceBelow(level), Quantum(level), level, used + 1)
      /\ used + 1 = Quantum(level) =>
           Fits(runs - ServiceBelow(next), Quantum(next), next, 0)
  <2> DEFINE here == processed_time[p] - ServiceBelow(level)
  <2>1. /\ here \in Int /\ Quantum(level) \in Nat \ {0}
        /\ here + 1 = runs - ServiceBelow(level)
    BY <1>2, <1>3, <1>5
  <2> HIDE DEF here, used
  <2>2. /\ used + 1 # Quantum(level) => Fits(here + 1, Quantum(level), level, used + 1)
        /\ used + 1 = Quantum(level) /\ level = Lowest => Fits(here + 1, Quantum(level), level, 0)
        /\ used + 1 = Quantum(level) /\ level # Lowest => here + 1 = Quantum(level)
    <3>1. Fits(here, Quantum(level), level, used) /\ used \in 0 .. Quantum(level) - 1
      BY <1>2 DEF here
    <3> QED
      BY <2>1, <3>1, UnitFits
  <2>3. ASSUME used + 1 = Quantum(level)
        PROVE  Fits(runs - ServiceBelow(next), Quantum(next), next, 0)
    <3>1. CASE level = Lowest
      BY <3>1, <2>1, <2>2, <2>3, <1>1
    <3>2. CASE level # Lowest
      <4>1. /\ next = level + 1
            /\ ServiceBelow(next) = ServiceBelow(level) + Quantum(level)
        BY <3>2, <1>1, <1>2, ServiceBelowGrows
      <4>2. runs - ServiceBelow(next) = 0
        BY <4>1, <3>2, <2>1, <2>2, <2>3, <1>2, <1>3, <1>5
      <4>3. 0 % Quantum(next) = 0
        BY <1>1, <1>3
      <4> QED
        BY <4>2, <4>3 DEF Fits
    <3> QED
      BY <3>1, <3>2
  <2> QED
    BY <2>1, <2>2, <2>3
<1>7. ASSUME NEW l \in Levels, NEW q \in Queued(l)'
      PROVE  Fits(processed_time'[q] - ServiceBelow(l)', Quantum(l)', l, 0)
  <2>1. CASE q = p
    <3>1. l = next /\ used + 1 = Quantum(level)
      BY <2>1, <1>1, <1>7
    <3> QED
      BY <2>1, <3>1, <1>1, <1>3, <1>5, <1>6
  <2>2. CASE q # p
    <3>1. q \in Queued(l)
      BY <2>2, <1>1, <1>7
    <3>2. processed_time'[q] = processed_time[q]
      BY <2>2, <3>1, <1>4, <1>5
    <3> QED
      BY <3>1, <3>2, <1>3 DEF LevelsFit
  <2> QED
    BY <2>1, <2>2
<1>8. ASSUME current' # NULL
      PROVE  /\ quantum_used'[current'] \in 1 .. Quantum(level) - 1
             /\ Fits(processed_time'[current'] - ServiceBelow(level),
                     Quantum(level), level, quantum_used'[current'])
  <2>1. /\ used + 1 # Quantum(level) /\ current' = p
        /\ quantum_used'[p] = used + 1
    BY <1>1, <1>4, <1>8
  <2>2. used + 1 \in 1 .. Quantum(level) - 1
    BY <2>1, <1>2, <1>3
  <2> QED
    BY <2>1, <2>2, <1>5, <1>6
<1>9. /\ Quantum(priority_level)' = Quantum(level)
      /\ ServiceBelow(priority_level)' = ServiceBelow(level)
  <2>1. /\ \A l \in Levels : Quantum(l)' = Quantum(l)
        /\ \A l \in Levels : ServiceBelow(l)' = ServiceBelow(l)
    BY <1>3
  <2> QED
    BY <2>1, <1>1, <1>2
<1> QED
  BY <1>1, <1>7, <1>8, <1>9 DEF LevelsFit

(* When nothing runs, everybody stays where they are; an arrival enters    *)
(* level 0 with nothing done.                                              *)
LEMMA StillFits ==
  ASSUME MInv, LevelsFit, UNCHANGED <<submission, processed_time, current, priority_level>>,
         current # NULL => quantum_used'[current] = quantum_used[current],
         \A l \in Levels : \A q \in Queued(l)' :
           q \in Queued(l) \/ (l = 0 /\ processed_time[q] = 0)
  PROVE  LevelsFit'
<1>1. /\ \A l \in Levels : Quantum(l)' = Quantum(l)
      /\ \A l \in Levels : ServiceBelow(l)' = ServiceBelow(l)
  BY LevelBounds, QuantaStay
<1>2. ASSUME NEW l \in Levels, NEW q \in Queued(l)'
      PROVE  Fits(processed_time'[q] - ServiceBelow(l)', Quantum(l)', l, 0)
  <2>1. CASE q \in Queued(l)
    BY <2>1, <1>1 DEF LevelsFit
  <2>2. CASE l = 0 /\ processed_time[q] = 0
    <3>1. ServiceBelow(l) = 0 /\ l # Lowest
      BY <2>2, LevelBounds, ServiceBelowGrows
    <3> QED
      BY <2>2, <3>1, <1>1 DEF Fits
  <2> QED
    BY <1>2, <2>1, <2>2
<1>3. priority_level \in Levels
  BY QueuesAreApart
<1>4. ASSUME current # NULL
      PROVE  /\ quantum_used'[current'] \in 1 .. Quantum(priority_level)' - 1
             /\ Fits(processed_time'[current'] - ServiceBelow(priority_level)',
                     Quantum(priority_level)', priority_level', quantum_used'[current'])
  <2>1. /\ Quantum(priority_level)' = Quantum(priority_level)
        /\ ServiceBelow(priority_level)' = ServiceBelow(priority_level)
    BY <1>1, <1>3
  <2> QED
    BY <2>1, <1>4 DEF LevelsFit
<1> QED
  BY <1>2, <1>4 DEF LevelsFit

LEMMA StepKeepsLevels ==
  ASSUME MInv, LevelsFit, [Next]_vars
  PROVE  LevelsFit'
<1>1. CASE (EnterIteration \/ LeaveLoop) /\ UNCHANGED schedVars /\ UNCHANGED submission
  <2>1. UNCHANGED <<processed_time, priority_queues, current, priority_level, quantum_used>>
    BY <1>1 DEF EnterIteration, LeaveLoop, accounts, schedVars
  <2>2. \A l \in Levels : Queued(l)' = Queued(l)
    BY <2>1 DEF Queued
  <2> QED
    BY <1>1, <2>1, <2>2, StillFits
<1>2. CASE (\E p \in Pids : add_to_ready_queue(p)) /\ UNCHANGED submission
  <2>1. PICK p \in Pids : add_to_ready_queue(p)
    BY <1>2
  <2>2. /\ p \notin admitted /\ p \notin Ready
        /\ UNCHANGED <<processed_time, current, priority_level>>
        /\ priority_queues' = [priority_queues EXCEPT ![0] = SortedInsert(@, p, arrival_time)]
        /\ quantum_used' = [quantum_used EXCEPT ![p] = 0]
    BY <2>1, ReadyProcesses DEF add_to_ready_queue, Admit, accounts
  <2>4. \A l \in Levels :
          Queued(l)' = IF l = 0 THEN Queued(l) \cup {p} ELSE Queued(l)
    BY <2>2, ArrivalEntersTop
  <2>5. processed_time[p] = 0
    BY <2>2, SameSimulator DEF MInv, C!IInv, C!AdmissionInv
  <2>6. current # NULL => quantum_used'[current] = quantum_used[current]
    BY <2>2, QueuesAreApart, ReadyProcesses DEF MInv, NodesFaithful, TypeOK
  <2>7. \A l \in Levels : \A q \in Queued(l)' :
           q \in Queued(l) \/ (l = 0 /\ processed_time[q] = 0)
    BY <2>4, <2>5
  <2> QED
    BY <1>2, <2>2, <2>6, <2>7, StillFits
<1>3. CASE (ScheduleCurrent \/ ScheduleFirst) /\ UNCHANGED submission
  <2>1. PICK c : Chosen(c) /\ ChosenFits(c) /\ Execute(c)
    BY <1>3, KeptIsChosen, TakenIsChosen, ScheduledFits DEF ScheduleCurrent, ScheduleFirst
  <2> QED
    BY <1>3, <2>1, ExecuteKeepsLevels
<1>4. CASE ScheduleNone /\ UNCHANGED submission
  <2>1. UNCHANGED <<processed_time, priority_queues, current, priority_level, quantum_used>>
    BY <1>4, SimulatorAssumption
       DEF ScheduleNone, Account, AccountIdle, AccountUnit, AccountOverrun,
           AccountUnknown, accounts, schedVars, Idle
  <2>2. \A l \in Levels : Queued(l)' = Queued(l)
    BY <2>1 DEF Queued
  <2> QED
    BY <1>4, <2>1, <2>2, StillFits
<1>5. CASE UNCHANGED vars
  <2>1. UNCHANGED <<submission, processed_time, priority_queues, current, priority_level,
                    quantum_used>>
    BY <1>5 DEF vars, simVars, schedVars
  <2>2. \A l \in Levels : Queued(l)' = Queued(l)
    BY <2>1 DEF Queued
  <2> QED
    BY <2>1, <2>2, StillFits
<1> QED
  BY <1>1, <1>2, <1>3, <1>4, <1>5 DEF Next, get_next_scheduled_process

(* A process's level and quantum_used tell how much time it has had, of    *)
(* either submission and with any number of queues.                        *)
THEOREM LevelTellsService == Spec => []LevelMatchesService
<1>1. Init => LevelsFit
  <2>1. Init => \A level \in Levels : Queued(level) = {}
    BY DEF Init, Queued, ToSet
  <2> QED
    BY <2>1 DEF Init, LevelsFit
<1>2. MInv /\ LevelsFit /\ [Next]_vars => LevelsFit'
  BY StepKeepsLevels
<1>3. MInv => (LevelsFit <=> LevelMatchesService)
  BY LevelsFitIsProperty
<1> QED
  BY <1>1, <1>2, <1>3, Invariance, PTL DEF Spec

(* When the processor goes to another process, no process that waits has   *)
(* had less time, but for those of the last level.                         *)
THEOREM LeastServedRunsFirst == Spec => LeastServedFirst
<1> DEFINE Served(p) == \A q \in Waiting :
                          processed_time[q] >= Min({processed_time[p], ServiceBelow(Lowest)})
           Fair == \A p \in Waiting : processed_time'[p] = processed_time[p] + 1 => Served(p)
<1>1. MInv /\ LevelsFit /\ [Next]_vars => [Fair]_vars
  <2> SUFFICES ASSUME MInv, LevelsFit, Next, NEW p \in Waiting,
                      processed_time'[p] = processed_time[p] + 1, NEW q \in Waiting
               PROVE  processed_time[q] >= Min({processed_time[p], ServiceBelow(Lowest)})
    OBVIOUS
  <2>1. /\ p \in Pids /\ q \in Pids /\ p # current
        /\ processed_time \in [Pids -> 0 .. TIMEOUT]
        /\ processed_time[p] \in Nat /\ processed_time[q] \in Nat
    <3>1. Waiting = {r \in Ready : r # current} /\ Ready \subseteq Pids /\ SimTypeOK
      BY QueuesAreApart, ReadyProcesses
    <3>2. p \in Ready /\ p # current /\ q \in Ready
      BY <3>1
    <3>3. processed_time \in [Pids -> 0 .. TIMEOUT] /\ TIMEOUT \in Nat
      BY <3>1, SimulatorAssumption DEF SimTypeOK
    <3> QED
      BY <3>1, <3>2, <3>3
  <2>2. processed_time' # processed_time
    BY <2>1
  <2>3. ASSUME NEW c, Chosen(c), Execute(c) PROVE c.pid = p
    <3> DEFINE r == c.pid
               next == Min({c.level + 1, Lowest})
    <3>1. r \in Pids /\ processed_time' = [processed_time EXCEPT ![r] = processed_time[r] + 1]
      <4>1. Effect(c, c.pid, Min({c.level + 1, Lowest}))
        BY <2>3, ExecuteEffect
      <4> QED
        BY <4>1 DEF Effect
    <3> QED
      BY <3>1, <2>1
  <2>4. ScheduleFirst
    <3>1. ~EnterIteration /\ ~LeaveLoop /\ \A r : ~add_to_ready_queue(r)
      BY <2>2 DEF EnterIteration, LeaveLoop, add_to_ready_queue, Admit, accounts
    <3>2. ~ScheduleNone
      BY <2>2, SimulatorAssumption
         DEF ScheduleNone, Account, AccountIdle, AccountUnit, AccountOverrun,
             AccountUnknown, accounts, Idle
    <3>3. ~ScheduleCurrent
      BY <2>1, <2>3, KeptIsChosen DEF ScheduleCurrent, Kept
    <3> QED
      BY <3>1, <3>2, <3>3 DEF Next, get_next_scheduled_process
  <2> DEFINE l == Taken.level
  <2>5. /\ Taken.pid = p /\ p \in Queued(l) /\ l \in Levels
        /\ \A m \in NonEmpty : l <= m
    BY <2>3, <2>4, TakenIsChosen DEF ScheduleFirst, NonEmpty
  <2>6. PICK m \in Levels : q \in Queued(m)
    BY DEF Waiting
  <2>7. m \in NonEmpty
    BY <2>6 DEF NonEmpty, Queued, ToSet
  <2> HIDE DEF l
  <2>8. /\ Fits(processed_time[p] - ServiceBelow(l), Quantum(l), l, 0)
        /\ Fits(processed_time[q] - ServiceBelow(m), Quantum(m), m, 0)
    BY <2>5, <2>6 DEF LevelsFit
  <2>9. /\ l \in Nat /\ m \in Nat /\ l <= m /\ m <= Lowest /\ Lowest \in Nat
        /\ ServiceBelow(l) \in Nat /\ ServiceBelow(m) \in Nat /\ ServiceBelow(Lowest) \in Nat
        /\ ServiceBelow(l) <= ServiceBelow(m)
    BY <2>5, <2>6, <2>7, LevelBounds, ServiceBelowGrows
  <2>10. /\ Min({processed_time[p], ServiceBelow(Lowest)}) <= processed_time[p]
         /\ Min({processed_time[p], ServiceBelow(Lowest)}) <= ServiceBelow(Lowest)
         /\ Min({processed_time[p], ServiceBelow(Lowest)}) \in Nat
    <3> DEFINE S == {processed_time[p], ServiceBelow(Lowest)}
    <3>1. S \subseteq Nat /\ S # {}
      BY <2>1, <2>9
    <3>2. Min(S) \in S /\ \A n \in S : Min(S) <= n
      <4> HIDE DEF S
      <4> QED
        BY <3>1, MinOfNat
    <3> QED
      BY <3>1, <3>2
  <2>11. CASE m = Lowest
    BY <2>1, <2>8, <2>9, <2>10, <2>11 DEF Fits
  <2>12. CASE m # Lowest
    <3>1. processed_time[q] = ServiceBelow(m) /\ processed_time[p] = ServiceBelow(l)
      BY <2>1, <2>8, <2>9, <2>12 DEF Fits
    <3> QED
      BY <3>1, <2>1, <2>9, <2>10
  <2> QED
    BY <2>11, <2>12
<1>2. Init => LevelsFit
  <2>1. Init => \A level \in Levels : Queued(level) = {}
    BY DEF Init, Queued, ToSet
  <2> QED
    BY <2>1 DEF Init, LevelsFit
<1>3. MInv /\ LevelsFit /\ [Next]_vars => LevelsFit'
  BY StepKeepsLevels
<1> QED
  BY <1>1, <1>2, <1>3, Invariance, PTL DEF Spec, LeastServedFirst

-----------------------------------------------------------------------------
(* A new process waits for the rest of a turn, OldTurn, and for the first  *)
(* quantum of each process before it; SharesAhead is how much of these has *)
(* been given.  While a process of another level is on the processor, the  *)
(* turn is its own, and began before the new processes came.               *)
Ahead(p) == {q \in Pids : Before(q, p)}

SharesAhead(p) == Total(FirstShare(processed_time, Pids, Quantum(0)), Ahead(p))

OldTurn == IF current # NULL /\ priority_level # 0 THEN quantum_used[current] - 1
                                                   ELSE LongestQuantum - 1

NewcomersWait ==
  \A p \in admitted :
    processed_time[p] = 0 => time - arrival_time[p] <= OldTurn + SharesAhead(p)

(* The process on the processor is before those of its level, if that is 0.*)
CurrentInOrder ==
  current # NULL /\ priority_level = 0 => \A p \in Queued(0) : Before(current, p)

NewcomerInv == CurrentInOrder /\ NewcomersWait

(* What is counted, in numbers.                                            *)
LEMMA Counters ==
  ASSUME MInv
  PROVE  /\ arrival_time \in [Pids -> Nat] /\ processing_time \in [Pids -> Nat \ {0}]
         /\ processed_time \in [Pids -> Nat] /\ time \in Nat /\ admitted \subseteq Pids
<1>1. SimTypeOK /\ TIMEOUT \in Nat /\ Bursts \subseteq Nat \ {0} /\ Arrivals \subseteq Nat
  BY ReadyProcesses, SimulatorAssumption
<1>2. 0 .. TIMEOUT \subseteq Nat
  BY <1>1
<1> QED
  BY <1>1, <1>2 DEF SimTypeOK

(* A process that has not run is in level 0.                               *)
LEMMA NewcomersQueue ==
  ASSUME MInv, LevelsFit, NEW p \in admitted, processed_time[p] = 0
  PROVE  p \in Pids /\ p \in Queued(0) /\ p # current
<1>1. /\ p \in Ready /\ p \in Pids /\ processed_time[p] < processing_time[p]
  <2>1. SimTypeOK /\ Ready = {q \in admitted : Unfinished(q)}
    BY ReadyProcesses
  <2>2. p \in Pids /\ processing_time[p] \in Nat \ {0}
    BY Counters
  <2>3. processing_time[p] > 0
    BY <2>2
  <2> QED
    BY <2>1, <2>2, <2>3 DEF Unfinished
<1>2. p # current
  <2> SUFFICES ASSUME p = current PROVE FALSE
    OBVIOUS
  <2>1. current # NULL
    BY <1>1, ReadyProcesses
  <2>2. quantum_used[p] \in 1 .. Quantum(priority_level) - 1
    BY <2>1 DEF LevelsFit
  <2>3. quantum_used[p] <= 0
    BY <1>1 DEF MInv, QuantumWithinService
  <2> QED
    BY <2>2, <2>3
<1>3. PICK level \in Levels : p \in Queued(level)
  BY <1>1, <1>2, QueuesAreApart DEF Waiting
<1>4. level = 0
  <2> SUFFICES ASSUME level # 0 PROVE FALSE
    OBVIOUS
  <2>1. Fits(0 - ServiceBelow(level), Quantum(level), level, 0)
    BY <1>3 DEF LevelsFit
  <2>2. level \in Nat /\ 1 <= level
    BY LevelBounds
  <2>3. /\ ServiceBelow(level) \in Nat /\ ServiceBelow(1) <= ServiceBelow(level)
        /\ ServiceBelow(0 + 1) = ServiceBelow(0) + Quantum(0) /\ ServiceBelow(0) = 0
    BY <2>2, ServiceBelowGrows
  <2>4. ServiceBelow(level) > 0
    BY <2>3, QuantumIsPositive
  <2> QED
    BY <2>1, <2>3, <2>4 DEF Fits
<1> QED
  BY <1>1, <1>2, <1>3, <1>4

LEMMA LongestOfQuanta ==
  LongestQuantum \in Nat \ {0} /\ \A level \in Levels : Quantum(level) <= LongestQuantum
<1>1. IsFiniteSet(Levels) /\ Levels # {} /\ \A level \in Levels : level \in Nat
  <2>1. 0 \in Int /\ Lowest \in Int /\ Levels = 0 .. Lowest
    BY LevelBounds
  <2>2. IsFiniteSet(0 .. Lowest)
    BY <2>1, FS_Interval
  <2> QED
    BY <2>1, <2>2, LevelBounds
<1>2. \A level \in Levels : QuantumOf[level] = Quantum(level) /\ Quantum(level) \in Nat \ {0}
  BY <1>1, QuantumIsPositive DEF QuantumOf
<1>3. PICK m \in Levels : \A level \in Levels : QuantumOf[level] <= QuantumOf[m]
  <2>1. \A level \in Levels : QuantumOf[level] \in Int
    BY <1>2
  <2> QED
    BY <1>1, <2>1, GreatestTerm
<1> DEFINE S == {Quantum(level) : level \in Levels}
           s == Quantum(m)
<1>4. S \subseteq Int /\ s \in S /\ \A t \in S : t <= s
  BY <1>2, <1>3
<1>5. LongestQuantum = Max(S)
  BY DEF LongestQuantum
<1>6. Max(S) = s
  <2> HIDE DEF S, s
  <2> QED
    BY <1>4, GreatestIsMax
<1> QED
  BY <1>2, <1>3, <1>5, <1>6

LEMMA OldTurnIsShort ==
  ASSUME MInv, LevelsFit
  PROVE  OldTurn \in Nat /\ OldTurn <= LongestQuantum - 1
<1>1. CASE current # NULL /\ priority_level # 0
  <2>1. priority_level \in Levels
    BY QueuesAreApart
  <2>2. quantum_used[current] \in 1 .. Quantum(priority_level) - 1
    BY <1>1 DEF LevelsFit
  <2>3. Quantum(priority_level) \in Nat /\ Quantum(priority_level) <= LongestQuantum
    BY <2>1, LevelBounds, QuantumIsPositive, LongestOfQuanta
  <2> QED
    BY <1>1, <2>2, <2>3, LongestOfQuanta DEF OldTurn
<1>2. CASE ~(current # NULL /\ priority_level # 0)
  BY <1>2, LongestOfQuanta DEF OldTurn
<1> QED
  BY <1>1, <1>2

LEMMA SharesAheadBounds ==
  ASSUME MInv, NEW p
  PROVE  /\ SharesAhead(p) \in Nat
         /\ LeastTotal(Quantum(0), processing_time, Ahead(p)) \in Int
         /\ SharesAhead(p) <= LeastTotal(Quantum(0), processing_time, Ahead(p))
<1>1. Ahead(p) \subseteq Pids /\ IsFiniteSet(Pids)
  BY SimulatorAssumption DEF Ahead
<1>2. processed_time \in [Pids -> Nat] /\ processing_time \in [Pids -> Nat]
  BY Counters
<1>3. \A q \in Pids : processed_time[q] <= processing_time[q]
  BY DEF MInv, C!IInv, C!AdmissionInv
<1>4. Quantum(0) \in Nat
  BY QuantumIsPositive
<1> DEFINE part == Quantum(0)
<1> HIDE DEF part
<1>5. /\ Total(FirstShare(processed_time, Pids, part), Ahead(p)) \in Nat
      /\ LeastTotal(part, processing_time, Ahead(p)) \in Int
      /\ Total(FirstShare(processed_time, Pids, part), Ahead(p))
           <= LeastTotal(part, processing_time, Ahead(p))
  BY <1>1, <1>2, <1>3, <1>4, ShareTotals DEF part
<1> QED
  BY <1>5 DEF SharesAhead, part

(* From level 0 the first of its processes is chosen; while a process of   *)
(* another level runs on, those of level 0 have found it on the processor. *)
InOrder(c) ==
  IF c.level = 0 THEN \A p \in Queued(0) : p # c.pid => Before(c.pid, p)
  ELSE Queued(0) # {} => current = c.pid /\ priority_level = c.level

LEMMA ScheduledInOrder ==
  ASSUME MInv, CurrentInOrder
  PROVE  /\ current # NULL => InOrder(Kept)
         /\ current = NULL /\ NonEmpty # {} => InOrder(Taken)
<1>1. current # NULL => InOrder(Kept)
  BY DEF InOrder, Kept, CurrentInOrder
<1>2. ASSUME current = NULL, NonEmpty # {} PROVE InOrder(Taken)
  <2>1. /\ Taken.level \in NonEmpty /\ \A level \in NonEmpty : Taken.level <= level
    BY <1>2, TakenIsChosen
  <2>2. ASSUME Taken.level # 0 PROVE Queued(0) = {}
    <3>1. Taken.level \in Nat /\ ~(Taken.level <= 0)
      BY <2>1, <2>2, LevelBounds DEF NonEmpty
    <3>2. priority_queues[0] = <<>>
      BY <2>1, <3>1, LevelBounds DEF NonEmpty
    <3> QED
      BY <3>2 DEF Queued, ToSet
  <2>3. ASSUME Taken.level = 0, NEW p \in Queued(0), p # Taken.pid
        PROVE  Before(Taken.pid, p)
    <3> DEFINE list == priority_queues[0]
    <3>1. list \in Seq(Pids) /\ SortedByArrival(list, arrival_time)
      BY QueuesAreApart, LevelBounds DEF MInv, NodesFaithful
    <3>2. Taken.pid = list[1]
      <4>1. Taken.pid = Head(list)
        BY <2>3 DEF Taken
      <4>2. list # <<>>
        BY <2>1, <2>3 DEF NonEmpty
      <4> QED
        BY <3>1, <4>1, <4>2
    <3>3. PICK i \in 1 .. Len(list) : list[i] = p
      BY <2>3, <3>1 DEF Queued, ToSet
    <3>4. 1 \in 1 .. Len(list) /\ 1 < i
      BY <3>1, <3>2, <3>3, <2>3
    <3> QED
      BY <3>1, <3>2, <3>3, <3>4 DEF SortedByArrival, Before
  <2> QED
    BY <2>2, <2>3 DEF InOrder
<1> QED
  BY <1>1, <1>2

(* A unit for the process chosen: a new process has waited one unit more,  *)
(* of an old turn or of the first quantum of a process before it.          *)
LEMMA ExecuteKeepsNewcomers ==
  ASSUME MInv, LevelsFit, NewcomerInv, NEW c, Chosen(c), ChosenFits(c), InOrder(c),
         Execute(c), UNCHANGED submission
  PROVE  NewcomerInv'
<1> DEFINE p == c.pid
           level == c.level
           used == quantum_used[p]
           part == Quantum(0)
<1>1. /\ p \in Pids /\ priority_level' = level /\ Account(p)
      /\ processed_time[p] < processing_time[p]
      /\ processed_time' = [processed_time EXCEPT ![p] = processed_time[p] + 1]
      /\ UNCHANGED <<arrival_time, admitted>>
      /\ \/ current' = NULL
         \/ /\ current' = p /\ quantum_used'[p] = used + 1
            /\ \A l \in Levels : Queued(l)' = Queued(l) \ {p}
  <2>1. Effect(c, c.pid, Min({c.level + 1, Lowest}))
    BY ExecuteEffect
  <2>2. quantum_used \in [Pids -> 0 .. TIMEOUT]
    BY DEF MInv, NodesFaithful, TypeOK
  <2> QED
    BY <2>1, <2>2 DEF Effect
<1>2. /\ level \in Levels /\ current \in {p, NULL} /\ NULL \notin Pids
      /\ used \in 0 .. Quantum(level) - 1 /\ Quantum(level) \in Nat
      /\ level = 0 => processed_time[p] = used
  <2>1. /\ level \in Levels /\ current \in {p, NULL} /\ used \in 0 .. Quantum(level) - 1
        /\ Fits(processed_time[p] - ServiceBelow(level), Quantum(level), level, used)
    BY DEF Chosen, ChosenFits
  <2>2. Quantum(level) \in Nat /\ ServiceBelow(0) = 0 /\ Lowest # 0
    BY <2>1, LevelBounds, QuantumIsPositive, ServiceBelowGrows
  <2>3. level = 0 => processed_time[p] - 0 = used
    BY <2>1, <2>2 DEF Fits
  <2>4. processed_time[p] \in Nat
    BY <1>1, Counters
  <2> QED
    BY <2>1, <2>2, <2>3, <2>4, ReadyProcesses
<1>3. /\ processed_time \in [Pids -> Nat] /\ arrival_time \in [Pids -> Nat] /\ time \in Nat
      /\ admitted \subseteq Pids
  BY Counters
<1>4. time' = time + 1
  BY <1>1, <1>2, SimulatorAssumption
     DEF Account, AccountUnit, AccountOverrun, Unfinished, Idle, NULL, NextTimeUnit
<1>5. /\ part \in Nat /\ part' = part /\ LongestQuantum' = LongestQuantum
      /\ LongestQuantum \in Nat \ {0} /\ Quantum(level) <= LongestQuantum
      /\ 0 \in Levels
  BY <1>2, LevelBounds, QuantumIsPositive, QuantaStay, LongestOfQuanta DEF LongestQuantum
<1>6. \A l \in Levels : l \in Nat
  BY LevelBounds
<1> HIDE DEF p, level, used, part
<1>7. CurrentInOrder'
  <2> SUFFICES ASSUME current' # NULL, priority_level' = 0, NEW q \in Queued(0)'
               PROVE  Before(current, q)'
    BY DEF CurrentInOrder
  <2>1. current' = p /\ level = 0 /\ q \in Queued(0) /\ q # p
    BY <1>1, <1>5
  <2>2. Before(p, q)
    BY <2>1 DEF InOrder, p, level
  <2> QED
    BY <2>1, <2>2, <1>1 DEF Before
<1>8. NewcomersWait'
  <2> SUFFICES ASSUME NEW q \in admitted', processed_time'[q] = 0
               PROVE  time' - arrival_time'[q] <= OldTurn' + SharesAhead(q)'
    BY DEF NewcomersWait
  <2>1. q \in admitted /\ q \in Pids /\ q # p /\ processed_time[q] = 0
    <3>1. q \in admitted /\ q \in Pids
      BY <1>1, <1>3
    <3>2. processed_time'[p] = processed_time[p] + 1 /\ processed_time[p] \in Nat
      BY <1>1, <1>3
    <3>3. q # p
      BY <3>2
    <3> QED
      BY <3>1, <3>3, <1>1, <1>3
  <2>2. q \in Queued(0) /\ time - arrival_time[q] <= OldTurn + SharesAhead(q)
    BY <2>1, NewcomersQueue DEF NewcomerInv, NewcomersWait
  <2> DEFINE new == processed_time'
             old == processed_time
  <2>3. /\ SharesAhead(q) = Total(FirstShare(old, Pids, part), Ahead(q))
        /\ SharesAhead(q)' = Total(FirstShare(new, Pids, part), Ahead(q))
        /\ new = [old EXCEPT ![p] = old[p] + 1]
    <3>1. Ahead(q)' = Ahead(q)
      BY <1>1 DEF Ahead, Before
    <3> QED
      BY <3>1, <1>1, <1>5 DEF SharesAhead, part
  <2>4. Ahead(q) \subseteq Pids /\ IsFiniteSet(Pids) /\ old \in [Pids -> Nat] /\ p \in Pids
    BY <1>1, <1>3, SimulatorAssumption DEF Ahead
  <2>5. /\ SharesAhead(q) <= SharesAhead(q)'
        /\ p \in Ahead(q) /\ old[p] < part => SharesAhead(q)' = SharesAhead(q) + 1
    <3> DEFINE T == Ahead(q)
    <3>1. /\ Total(FirstShare(old, Pids, part), T) <= Total(FirstShare(new, Pids, part), T)
          /\ p \in T /\ old[p] < part =>
               Total(FirstShare(new, Pids, part), T) = Total(FirstShare(old, Pids, part), T) + 1
      <4>1. /\ UnitDone(new, old, p) /\ old \in [Pids -> Nat]
            /\ T \subseteq Pids /\ p \in Pids /\ part \in Nat /\ IsFiniteSet(Pids)
        BY <2>3, <2>4, <1>5 DEF UnitDone
      <4> HIDE DEF new, old, T
      <4> QED
        BY <4>1, ShareGrows
    <3> QED
      BY <3>1, <2>3
  <2>6. /\ OldTurn \in Nat /\ OldTurn <= LongestQuantum - 1
        /\ SharesAhead(q) \in Nat /\ SharesAhead(q)' \in Int
    <3>1. SharesAhead(q)' \in Int
      <4>1. new \in [Pids -> Nat]
        BY <1>1, <1>3
      <4>2. IsFiniteSet(Ahead(q)) /\ \A x \in Ahead(q) : FirstShare(new, Pids, part)[x] \in Int
        BY <4>1, <2>4, <1>5, FS_Subset DEF FirstShare
      <4> HIDE DEF new
      <4> QED
        BY <4>2, <2>3, TotalInt
    <3> QED
      BY <3>1, OldTurnIsShort, SharesAheadBounds
  <2>7. arrival_time'[q] = arrival_time[q] /\ arrival_time[q] \in Nat
    BY <2>1, <1>1, <1>3
  <2>8. CASE level = 0
    <3>1. OldTurn' = LongestQuantum - 1
      BY <2>8, <1>1, <1>5 DEF OldTurn
    <3>2. Before(p, q)
      BY <2>1, <2>2, <2>8 DEF InOrder, p, level
    <3>3. p \in Ahead(q) /\ old[p] < part
      BY <3>2, <2>4, <2>8, <1>2 DEF Ahead, part
    <3> QED
      BY <3>1, <3>3, <2>2, <2>5, <2>6, <2>7, <1>3, <1>4, <1>5
  <2>9. CASE level # 0
    <3>1. current = p /\ priority_level = level
      BY <2>2, <2>9 DEF InOrder, p, level
    <3>2. OldTurn = used - 1
      BY <3>1, <2>9, <1>1, <1>2 DEF OldTurn, used
    <3>3. OldTurn' >= used /\ OldTurn' \in Int
      BY <2>9, <1>1, <1>2, <1>5 DEF OldTurn
    <3> QED
      BY <3>2, <3>3, <2>2, <2>5, <2>6, <2>7, <1>2, <1>3, <1>4
  <2> QED
    BY <2>8, <2>9
<1> QED
  BY <1>7, <1>8 DEF NewcomerInv

(* When nothing runs, nobody waits any longer.                             *)
LEMMA StillWaits ==
  ASSUME NewcomerInv,
         UNCHANGED <<submission, arrival_time, processed_time, admitted, time, current,
                     priority_level, quantum_used>>,
         Queued(0)' = Queued(0)
  PROVE  NewcomerInv'
<1>1. Quantum(0)' = Quantum(0) /\ LongestQuantum' = LongestQuantum
  BY QuantaStay DEF LongestQuantum
<1>2. \A p, q : Before(p, q)' = Before(p, q)
  BY DEF Before
<1>3. OldTurn' = OldTurn /\ \A p : SharesAhead(p)' = SharesAhead(p)
  BY <1>1, <1>2 DEF OldTurn, SharesAhead, Ahead
<1> QED
  BY <1>2, <1>3 DEF NewcomerInv, CurrentInOrder, NewcomersWait

(* An arrival begins to wait, behind a process that runs already.          *)
LEMMA ArrivalWaits ==
  ASSUME MInv, LevelsFit, NewcomerInv, NEW p \in Pids, add_to_ready_queue(p),
         UNCHANGED submission
  PROVE  NewcomerInv'
<1>1. /\ p \notin admitted /\ p \notin Ready /\ arrival_time[p] = time
      /\ admitted' = admitted \cup {p}
      /\ UNCHANGED <<arrival_time, processed_time, time, current, priority_level>>
      /\ priority_queues' = [priority_queues EXCEPT ![0] = SortedInsert(@, p, arrival_time)]
      /\ quantum_used' = [quantum_used EXCEPT ![p] = 0]
  BY ReadyProcesses DEF add_to_ready_queue, Admit, Due, workload, accounts
<1>2. Queued(0)' = Queued(0) \cup {p}
  BY <1>1, ArrivalEntersTop, LevelBounds
<1>3. Quantum(0)' = Quantum(0) /\ LongestQuantum' = LongestQuantum
  BY QuantaStay DEF LongestQuantum
<1>4. \A q, r : Before(q, r)' = Before(q, r)
  BY <1>1 DEF Before
<1>5. current # NULL => /\ current # p /\ current \in Ready /\ current \in Pids
                        /\ quantum_used'[current] = quantum_used[current]
  BY <1>1, QueuesAreApart, ReadyProcesses DEF MInv, NodesFaithful, TypeOK
<1>6. OldTurn' = OldTurn /\ \A q : SharesAhead(q)' = SharesAhead(q)
  BY <1>1, <1>3, <1>4, <1>5 DEF OldTurn, SharesAhead, Ahead
<1>7. CurrentInOrder'
  <2> SUFFICES ASSUME current' # NULL, priority_level' = 0, NEW q \in Queued(0)'
               PROVE  Before(current, q)'
    BY DEF CurrentInOrder
  <2>1. current' = current /\ current # NULL /\ priority_level = 0
    BY <1>1
  <2>2. CASE q \in Queued(0)
    BY <2>1, <2>2, <1>1, <1>4 DEF NewcomerInv, CurrentInOrder, Before
  <2>3. CASE q = p
    <3>1. processed_time[current] > 0
      <4>1. quantum_used[current] \in 1 .. Quantum(priority_level) - 1
        BY <2>1 DEF LevelsFit
      <4>2. quantum_used[current] <= processed_time[current]
        BY <2>1, <1>5 DEF MInv, QuantumWithinService
      <4>3. processed_time[current] \in Nat
        BY <2>1, <1>5, Counters
      <4> QED
        BY <4>1, <4>2, <4>3
    <3>2. arrival_time[current] + processed_time[current] <= time
      BY <3>1, <2>1, <1>5 DEF MInv, C!IInv, C!ElapsedCoversService
    <3>3. arrival_time[current] \in Nat /\ processed_time[current] \in Nat /\ time \in Nat
      BY <2>1, <1>5, Counters
    <3> QED
      BY <3>1, <3>2, <3>3, <2>1, <2>3, <1>1 DEF Before
  <2> QED
    BY <2>2, <2>3, <1>2
<1>8. NewcomersWait'
  <2> SUFFICES ASSUME NEW q \in admitted', processed_time'[q] = 0
               PROVE  time' - arrival_time'[q] <= OldTurn' + SharesAhead(q)'
    BY DEF NewcomersWait
  <2>1. CASE q \in admitted
    BY <2>1, <1>1, <1>6 DEF NewcomerInv, NewcomersWait
  <2>2. CASE q = p
    <3>1. time \in Nat /\ OldTurn \in Nat /\ SharesAhead(q) \in Nat
      BY ReadyProcesses, OldTurnIsShort, SharesAheadBounds DEF SimTypeOK
    <3> QED
      BY <3>1, <2>2, <1>1, <1>6
  <2> QED
    BY <2>1, <2>2, <1>1
<1> QED
  BY <1>7, <1>8 DEF NewcomerInv

LEMMA StepKeepsNewcomers ==
  ASSUME MInv, LevelsFit, NewcomerInv, [Next]_vars
  PROVE  NewcomerInv'
<1>1. CASE (EnterIteration \/ LeaveLoop) /\ UNCHANGED schedVars /\ UNCHANGED submission
  <2>1. /\ UNCHANGED <<submission, arrival_time, processed_time, admitted, time, current,
                       priority_level, quantum_used>>
        /\ Queued(0)' = Queued(0)
    BY <1>1 DEF EnterIteration, LeaveLoop, workload, accounts, schedVars, Queued
  <2> QED
    BY <2>1, StillWaits
<1>2. CASE (\E p \in Pids : add_to_ready_queue(p)) /\ UNCHANGED submission
  BY <1>2, ArrivalWaits
<1>3. CASE (ScheduleCurrent \/ ScheduleFirst) /\ UNCHANGED submission
  <2>1. PICK c : Chosen(c) /\ ChosenFits(c) /\ InOrder(c) /\ Execute(c)
    BY <1>3, KeptIsChosen, TakenIsChosen, ScheduledFits, ScheduledInOrder
       DEF ScheduleCurrent, ScheduleFirst, NewcomerInv
  <2> QED
    BY <1>3, <2>1, ExecuteKeepsNewcomers
<1>4. CASE ScheduleNone /\ UNCHANGED submission
  <2>1. /\ current' = NULL /\ Queued(0) = {} /\ Queued(0)' = {}
        /\ UNCHANGED <<processed_time, admitted>>
    <3>1. current = NULL /\ NonEmpty = {} /\ UNCHANGED <<current, priority_queues>>
      BY <1>4 DEF ScheduleNone, schedVars
    <3>2. priority_queues[0] = <<>>
      BY <3>1, LevelBounds DEF NonEmpty
    <3>3. UNCHANGED <<processed_time, admitted>>
      BY <1>4, SimulatorAssumption
         DEF ScheduleNone, Account, AccountIdle, AccountUnit, AccountOverrun,
             AccountUnknown, accounts, Idle
    <3> QED
      BY <3>1, <3>2, <3>3 DEF Queued, ToSet
  <2>2. \A p \in admitted : processed_time[p] # 0
    BY <2>1, NewcomersQueue
  <2> QED
    BY <2>1, <2>2 DEF NewcomerInv, CurrentInOrder, NewcomersWait
<1>5. CASE UNCHANGED vars
  <2>1. /\ UNCHANGED <<submission, arrival_time, processed_time, admitted, time, current,
                       priority_level, quantum_used>>
        /\ Queued(0)' = Queued(0)
    BY <1>5 DEF vars, simVars, schedVars, Queued
  <2> QED
    BY <2>1, StillWaits
<1> QED
  BY <1>1, <1>2, <1>3, <1>4, <1>5 DEF Next, get_next_scheduled_process

(* A new process waits for the rest of a quantum and for the first quantum *)
(* of each process before it, of either submission and with any number of  *)
(* queues, whatever waits in the lower ones.                               *)
THEOREM NewcomersAreServed == Spec => []FirstServiceIsBounded
<1>1. Init => LevelsFit /\ NewcomerInv
  <2>1. Init => \A level \in Levels : Queued(level) = {}
    BY DEF Init, Queued, ToSet
  <2> QED
    BY <2>1 DEF Init, SimInit, LevelsFit, NewcomerInv, CurrentInOrder, NewcomersWait
<1>2. MInv /\ LevelsFit /\ NewcomerInv /\ [Next]_vars => LevelsFit' /\ NewcomerInv'
  BY StepKeepsLevels, StepKeepsNewcomers
<1>3. MInv /\ LevelsFit /\ NewcomerInv => FirstServiceIsBounded
  <2> SUFFICES ASSUME MInv, LevelsFit, NewcomerInv, NEW p \in admitted, processed_time[p] = 0
               PROVE  time - arrival_time[p] <=
                        LongestQuantum - 1 + LeastTotal(Quantum(0), processing_time, Ahead(p))
    BY DEF FirstServiceIsBounded, LeastTotal, Ahead
  <2>1. time - arrival_time[p] <= OldTurn + SharesAhead(p)
    BY DEF NewcomerInv, NewcomersWait
  <2>2. OldTurn \in Nat /\ OldTurn <= LongestQuantum - 1 /\ LongestQuantum \in Nat
    BY OldTurnIsShort, LongestOfQuanta
  <2>3. /\ SharesAhead(p) \in Nat
        /\ SharesAhead(p) <= LeastTotal(Quantum(0), processing_time, Ahead(p))
    BY SharesAheadBounds
  <2>4. time \in Nat /\ arrival_time[p] \in Nat
    BY Counters
  <2>5. LeastTotal(Quantum(0), processing_time, Ahead(p)) \in Int
    BY SharesAheadBounds
  <2> QED
    BY <2>1, <2>2, <2>3, <2>4, <2>5
<1> QED
  BY <1>1, <1>2, <1>3, Invariance, PTL DEF Spec
==============================================================================
