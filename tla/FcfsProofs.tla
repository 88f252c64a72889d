------------------------------ MODULE FcfsProofs ------------------------------
(***************************************************************************)
(* fcfs.c keeps the contract of simulator.c, for any set of processes and  *)
(* any workload; what is proved of the contract holds of it.               *)
(*                                                                         *)
(* The invariant is that of the contract, with the processes on the list   *)
(* as the ready ones, and what the scheduler adds: its node's counts are   *)
(* the simulator's and its list is sorted.  The contract's part tells that *)
(* the processes on the list need time, so that the walk past finished     *)
(* nodes (lines 109-114) ends at the head of the list.                     *)
(***************************************************************************)
EXTENDS Fcfs, OperatorProofs

C == INSTANCE ReadyContractProofs WITH ready <- Ready

(* What the scheduler's own state satisfies.                               *)
SchedInv ==
  /\ process_list \in Seq(Pids)
  /\ node_processed_time \in [Pids -> 0 .. TIMEOUT]
  /\ \A p \in Ready : node_processed_time[p] = processed_time[p]
  /\ SortedByArrival(process_list, arrival_time)

FInv == C!IInv /\ SchedInv

-----------------------------------------------------------------------------
(* The assumption of the contract's module is that of this one.            *)
LEMMA ContractAssumption == C!IsFiniteSet(Pids)
  BY SimulatorAssumption DEF C!IsFiniteSet, IsFiniteSet

(* The simulator's half of the calls is the same on both sides.            *)
LEMMA SameSimulator ==
  /\ C!SimInit <=> SimInit
  /\ C!SimTypeOK <=> SimTypeOK
  /\ C!EnterIteration <=> EnterIteration
  /\ C!LeaveLoop <=> LeaveLoop
  /\ \A p : C!Admit(p) <=> Admit(p)
  /\ \A p : C!Account(p) <=> Account(p)
  /\ \A p : C!Unfinished(p) <=> Unfinished(p)
<1>1. (C!SimInit <=> SimInit) /\ (C!SimTypeOK <=> SimTypeOK)
  BY DEF C!SimInit, SimInit, C!SimTypeOK, SimTypeOK
<1>2. \A p : C!Unfinished(p) <=> Unfinished(p)
  BY DEF C!Unfinished, Unfinished
<1>3. (C!EnterIteration <=> EnterIteration) /\ (C!LeaveLoop <=> LeaveLoop)
  BY DEF C!EnterIteration, EnterIteration, C!LeaveLoop, LeaveLoop,
         C!still_running, still_running, C!Unfinished, Unfinished,
         C!workload, workload, C!accounts, accounts
<1>4. \A p : C!Admit(p) <=> Admit(p)
  BY DEF C!Admit, Admit, C!Due, Due, C!workload, workload, C!accounts, accounts
<1>5. \A p : C!Account(p) <=> Account(p)
  BY DEF C!Account, Account, C!AtGetNext, AtGetNext, C!Due, Due, C!Idle, Idle,
         C!AccountIdle, AccountIdle, C!AccountUnit, AccountUnit,
         C!AccountOverrun, AccountOverrun, C!AccountUnknown, AccountUnknown,
         C!get_pid_index, get_pid_index, C!NextTimeUnit, NextTimeUnit,
         C!Stop, Stop, C!Unfinished, Unfinished,
         C!workload, workload, C!accounts, accounts
<1> QED
  BY <1>1, <1>2, <1>3, <1>4, <1>5

(* Before anything has arrived the list is empty.                          *)
LEMMA InitFInv == Init => C!Init /\ FInv
<1> SUFFICES ASSUME Init PROVE C!Init /\ FInv
  OBVIOUS
<1>1. process_list = <<>> /\ Ready = {}
  BY DEF Init, Ready, ToSet
<1>2. C!Init
  BY <1>1, SameSimulator DEF Init, C!Init
<1>3. C!IInv
  BY <1>2, C!InitInv, SimulatorAssumption, ContractAssumption
<1>4. SchedInv
  BY <1>1, SimulatorAssumption DEF Init, SchedInv, SortedByArrival
<1> QED
  BY <1>2, <1>3, <1>4 DEF FInv

(* The processes on the list have been admitted and need more time.        *)
LEMMA ListedProcesses ==
  ASSUME FInv
  PROVE  /\ SimTypeOK
         /\ Ready = {p \in admitted : Unfinished(p)}
         /\ Ready \subseteq Pids
         /\ arrival_time \in [Pids -> Nat] /\ Pids \subseteq Nat
<1>1. SimTypeOK /\ Ready \subseteq Pids
  BY SameSimulator DEF FInv, C!IInv, C!TypeOK
<1>2. Ready = {p \in admitted : Unfinished(p)}
  BY SameSimulator DEF FInv, C!IInv, C!ReadyExact
<1>3. Arrivals \subseteq Nat /\ Pids \subseteq Nat
  BY SimulatorAssumption
<1>4. arrival_time \in [Pids -> Nat]
  BY <1>1, <1>3 DEF SimTypeOK
<1> QED
  BY <1>1, <1>2, <1>3, <1>4

(* add_to_ready_queue is the contract's Add.                               *)
LEMMA AddRefines ==
  ASSUME FInv, NEW p \in Pids, add_to_ready_queue(p)
  PROVE  C!Add(p) /\ SchedInv'
<1> DEFINE new == SortedInsert(process_list, p, arrival_time)
<1>1. /\ p \notin admitted /\ p \notin Ready
      /\ UNCHANGED <<arrival_time, processing_time, processed_time>>
      /\ process_list' = new
      /\ node_processed_time' = [node_processed_time EXCEPT ![p] = 0]
  BY ListedProcesses DEF add_to_ready_queue, Admit, workload, accounts
<1>2. process_list \in Seq(Pids) /\ SortedByArrival(process_list, arrival_time)
  BY DEF FInv, SchedInv
<1>3. /\ new \in Seq(Pids)
      /\ ToSet(new) = ToSet(process_list) \cup {p}
      /\ SortedByArrival(new, arrival_time)
  BY <1>1, <1>2, ListedProcesses, SortedInsertKeepsSorted DEF Ready
<1> HIDE DEF new
<1>4. Ready' = Ready \cup {p}
  BY <1>1, <1>3 DEF Ready
<1>5. C!Add(p)
  BY <1>4, SameSimulator DEF C!Add, add_to_ready_queue
<1>6. processed_time[p] = 0
  BY <1>1, SameSimulator DEF FInv, C!IInv, C!AdmissionInv
<1>7. node_processed_time' \in [Pids -> 0 .. TIMEOUT]
  BY <1>1, SimulatorAssumption DEF FInv, SchedInv
<1>8. \A q \in Ready' : node_processed_time'[q] = processed_time'[q]
  BY <1>1, <1>4, <1>6, ListedProcesses DEF FInv, SchedInv
<1> QED
  BY <1>1, <1>3, <1>5, <1>7, <1>8 DEF SchedInv

(* The walk of get_next_scheduled_process stops at the head of the list.   *)
LEMMA WalkStopsAtHead ==
  ASSUME FInv
  PROVE  /\ process_list = <<>> => NeedsTime = {} /\ Ready = {}
         /\ process_list # <<>> => 1 \in NeedsTime /\ Min(NeedsTime) = 1
<1>1. process_list \in Seq(Pids)
  BY DEF FInv, SchedInv
<1>2. \A i \in DOMAIN process_list : i \in NeedsTime
  <2> TAKE i \in DOMAIN process_list
  <2>1. process_list[i] \in Ready
    BY DEF Ready, ToSet
  <2> QED
    BY <2>1, ListedProcesses DEF FInv, SchedInv, NeedsTime, Unfinished
<1>3. NeedsTime \subseteq DOMAIN process_list
  BY DEF NeedsTime
<1>4. CASE process_list = <<>>
  BY <1>3, <1>4 DEF Ready, ToSet
<1>5. CASE process_list # <<>>
  <2>1. Len(process_list) \in Nat \ {0} /\ DOMAIN process_list = 1 .. Len(process_list)
    BY <1>1, <1>5
  <2>2. 1 \in NeedsTime /\ NeedsTime \subseteq Nat /\ \A n \in NeedsTime : 1 <= n
    BY <1>2, <1>3, <2>1
  <2>3. Min(NeedsTime) \in NeedsTime /\ Min(NeedsTime) <= 1
    BY <2>2, MinOfNat
  <2>4. \A n \in NeedsTime : n <= 1 => n = 1
    BY <2>2
  <2>5. Min(NeedsTime) = 1
    BY <2>3, <2>4, Zenon
  <2> QED
    BY <2>2, <2>5, <1>5
<1> QED
  BY <1>4, <1>5

(* get_next_scheduled_process, with a process on the list, is the          *)
(* contract's Run of its head.                                             *)
LEMMA ScheduleFirstRefines ==
  ASSUME FInv, ScheduleFirst
  PROVE  /\ process_list # <<>> /\ process_list[1] \in Pids
         /\ C!Run(process_list[1])
         /\ C!IInv' => SchedInv'
<1> DEFINE p == process_list[1]
           rest == remove_next(process_list, 0)
<1>1. process_list # <<>> /\ Min(NeedsTime) = 1
  BY WalkStopsAtHead DEF ScheduleFirst
<1>2. /\ process_list \in Seq(Pids) /\ Len(process_list) \in Nat \ {0}
      /\ SortedByArrival(process_list, arrival_time)
      /\ IsInjective(process_list)
  <2>1. process_list \in Seq(Pids) /\ SortedByArrival(process_list, arrival_time)
    BY DEF FInv, SchedInv
  <2>2. IsInjective(process_list)
    BY <2>1, ListedProcesses, SortedIsInjective
  <2> QED
    BY <1>1, <2>1, <2>2
<1>3. /\ p \in Pids /\ p \in Ready /\ node_processed_time[p] = processed_time[p]
      /\ processed_time[p] < processing_time[p]
  <2>1. 1 \in DOMAIN process_list
    BY <1>2
  <2>2. p \in Ready
    BY <2>1 DEF Ready, ToSet
  <2> QED
    BY <2>2, ListedProcesses DEF FInv, SchedInv, Unfinished
<1>4. /\ Account(p)
      /\ node_processed_time' = [node_processed_time EXCEPT ![p] = @ + 1]
      /\ process_list' = IF processed_time[p] + 1 = processing_time[p]
                         THEN rest ELSE process_list
  <2>1. 1 - 1 = 0
    OBVIOUS
  <2> QED
    BY <1>1, <1>3, <2>1 DEF ScheduleFirst
<1>5. /\ rest \in Seq(Pids) /\ ToSet(rest) = ToSet(process_list) \ {p}
      /\ SortedByArrival(rest, arrival_time)
  <2>1. 0 \in 0 .. Len(process_list) - 1 /\ 0 + 1 = 1
    BY <1>2
  <2> QED
    BY <1>2, <2>1, RemoveNext, RemoveNextSet, RemoveNextKeepsSorted
<1> HIDE DEF p, rest
<1>6. Ready' = IF processed_time[p] + 1 = processing_time[p] THEN Ready \ {p} ELSE Ready
  BY <1>4, <1>5 DEF Ready
<1>7. C!Run(p)
  BY <1>3, <1>4, <1>6, SameSimulator DEF C!Run
<1>8. /\ arrival_time' = arrival_time
      /\ processed_time' = [processed_time EXCEPT ![p] = @ + 1]
  BY <1>3, <1>4, ListedProcesses, SimulatorAssumption
     DEF Account, AccountUnit, AccountOverrun, Unfinished, workload, Idle
<1>9. ASSUME C!IInv' PROVE SchedInv'
  <2>1. SimTypeOK'
    BY <1>9, SameSimulator DEF C!IInv, C!TypeOK, C!SimTypeOK, SimTypeOK
  <2>2. process_list' \in Seq(Pids) /\ SortedByArrival(process_list', arrival_time')
    BY <1>2, <1>4, <1>5, <1>8
  <2>3. node_processed_time' \in [Pids -> 0 .. TIMEOUT]
    <3>1. processed_time'[p] = processed_time[p] + 1 /\ processed_time'[p] \in 0 .. TIMEOUT
      BY <1>3, <1>8, <2>1, ListedProcesses DEF SimTypeOK
    <3> QED
      BY <3>1, <1>3, <1>4 DEF FInv, SchedInv
  <2>4. \A q \in Ready' : node_processed_time'[q] = processed_time'[q]
    <3>1. \A q \in Ready : node_processed_time'[q] = processed_time'[q]
      BY <1>3, <1>4, <1>8, ListedProcesses DEF FInv, SchedInv, SimTypeOK
    <3> QED
      BY <3>1, <1>6
  <2> QED
    BY <2>2, <2>3, <2>4 DEF SchedInv
<1> QED
  BY <1>1, <1>3, <1>7, <1>9 DEF p

(* Every step of the program is a step of the contract, or changes nothing *)
(* the contract speaks of, and keeps the invariant.                        *)
LEMMA StepRefines ==
  ASSUME FInv, [Next]_vars
  PROVE  [C!Next]_(C!vars) /\ FInv'
<1>1. CASE (EnterIteration \/ LeaveLoop) /\ UNCHANGED schedVars
  <2>1. Ready' = Ready
    BY <1>1 DEF Ready, schedVars
  <2>2. C!Next
    BY <1>1, <2>1, SameSimulator DEF C!Next
  <2>3. C!IInv'
    BY <2>2, C!NextKeepsInv, SimulatorAssumption, ContractAssumption DEF FInv
  <2>4. UNCHANGED <<arrival_time, processed_time>>
    BY <1>1 DEF EnterIteration, LeaveLoop, workload, accounts
  <2>5. SchedInv'
    BY <1>1, <2>1, <2>4 DEF FInv, SchedInv, schedVars
  <2> QED
    BY <2>2, <2>3, <2>5 DEF FInv
<1>2. CASE \E p \in Pids : add_to_ready_queue(p)
  <2>1. PICK p \in Pids : add_to_ready_queue(p)
    BY <1>2
  <2>2. C!Next /\ SchedInv'
    BY <2>1, AddRefines DEF C!Next
  <2> QED
    BY <2>2, C!NextKeepsInv, SimulatorAssumption, ContractAssumption DEF FInv
<1>3. CASE ScheduleFirst
  <2>1. C!Next
    BY <1>3, ScheduleFirstRefines DEF C!Next
  <2>2. C!IInv'
    BY <2>1, C!NextKeepsInv, SimulatorAssumption, ContractAssumption DEF FInv
  <2> QED
    BY <1>3, <2>1, <2>2, ScheduleFirstRefines DEF FInv
<1>4. CASE ScheduleNone
  <2>1. process_list = <<>> /\ Ready = {} /\ Ready' = Ready
    BY <1>4, WalkStopsAtHead DEF ScheduleNone, schedVars, Ready
  <2>2. C!RunNone
    BY <1>4, <2>1, SameSimulator DEF ScheduleNone, C!RunNone, C!Idle, Idle
  <2>3. C!Next /\ C!IInv'
    BY <2>2, C!NextKeepsInv, SimulatorAssumption, ContractAssumption DEF C!Next, FInv
  <2>4. arrival_time' = arrival_time
    BY <1>4 DEF ScheduleNone, Account, workload
  <2>5. SchedInv'
    BY <1>4, <2>1, <2>4 DEF ScheduleNone, FInv, SchedInv, schedVars
  <2> QED
    BY <2>3, <2>5 DEF FInv
<1>5. CASE UNCHANGED vars
  <2>1. UNCHANGED C!vars
    BY <1>5 DEF vars, simVars, schedVars, C!vars, C!simVars, Ready
  <2>2. C!IInv'
    BY <2>1, C!NextKeepsInv, SimulatorAssumption, ContractAssumption DEF FInv
  <2>3. SchedInv'
    BY <1>5 DEF vars, simVars, schedVars, FInv, SchedInv, Ready
  <2> QED
    BY <2>1, <2>2, <2>3 DEF FInv
<1> QED
  BY <1>1, <1>2, <1>3, <1>4, <1>5 DEF Next, get_next_scheduled_process

-----------------------------------------------------------------------------
(* The invariant holds throughout.                                         *)
THEOREM Invariance == Spec => []FInv
  BY InitFInv, StepRefines, PTL DEF Spec

(* fcfs.c implements the contract (its safety part; that the simulation    *)
(* ends is checked by TLC).                                                *)
THEOREM FcfsKeepsContract == Spec => C!Spec
  BY InitFInv, StepRefines, PTL DEF Spec, C!Spec

(* The list is sorted and repeats no process, and the counts of its nodes  *)
(* are the simulator's.                                                    *)
THEOREM ListIsFaithful == Spec => []ListFaithful
<1>1. FInv => ListFaithful
  BY ListedProcesses DEF FInv, SchedInv, ListFaithful, TypeOK
<1> QED
  BY <1>1, Invariance, PTL

(* What is proved of the contract holds of fcfs.c: the simulator does not  *)
(* stop it, and its averages are computed without wrapping around.         *)
THEOREM FcfsStatistics == Spec => [](C!NeverStopped /\ C!StatisticsDoNotWrap)
  BY FcfsKeepsContract, C!SchedulerNeverStopped, C!StatisticsAreSound,
     SimulatorAssumption, ContractAssumption, PTL

-----------------------------------------------------------------------------
(***************************************************************************)
(* When each process runs.  FcfsTimes speaks of the processes that have    *)
(* run; that the first unit of a process comes no later than it says needs *)
(* that the processor is not idle, and not given to later processes, while *)
(* a process waits: the last unit went to a process before it.             *)
(***************************************************************************)
(* The processes before p, and the unit p starts in.                       *)
Earlier(p) == {q \in Pids : Before(q, p)}

StartsAt(p, s) ==
  /\ s = arrival_time[p] \/ \E q \in Earlier(p) : s = end_time[q] + 1
  /\ arrival_time[p] <= s
  /\ \A q \in Earlier(p) : end_time[q] + 1 <= s

(* What FcfsTimes says of p.                                               *)
RanInOrder(p) ==
  processed_time[p] > 0 =>
    \E s \in Nat :
      /\ StartsAt(p, s)
      /\ \A q \in Earlier(p) : ~Unfinished(q)
      /\ IF Unfinished(p) THEN processed_time[p] = time - s
                          ELSE end_time[p] = s + processing_time[p] - 1

(* What has kept p waiting: a process before it is running, or has ended   *)
(* in the last unit.                                                       *)
KeptBusy(p) ==
  processed_time[p] = 0 /\ arrival_time[p] < time =>
    \E q \in Earlier(p) : IF Unfinished(q) THEN processed_time[q] > 0
                                           ELSE end_time[q] + 1 = time

TimesInv == \A p \in Pids : RanInOrder(p) /\ KeptBusy(p)

-----------------------------------------------------------------------------
(* What the contract's invariant says of one process.                      *)
LEMMA ProcessFacts ==
  ASSUME FInv, NEW p \in Pids
  PROVE  /\ p \in Nat
         /\ arrival_time[p] \in Nat /\ processing_time[p] \in Nat
         /\ processed_time[p] \in Nat /\ end_time[p] \in Nat /\ time \in Nat
         /\ 0 < processing_time[p] /\ processed_time[p] <= processing_time[p]
         /\ p \in admitted => arrival_time[p] <= time
         /\ p \notin admitted => processed_time[p] = 0
         /\ ~Unfinished(p) => end_time[p] < time
         /\ p \in Ready <=> p \in admitted /\ Unfinished(p)
<1>1. C!SimTypeOK /\ C!AdmissionInv /\ C!ElapsedCoversService
  BY DEF FInv, C!IInv, C!TypeOK
<1>2. /\ arrival_time[p] \in Nat /\ processing_time[p] \in Nat
      /\ processed_time[p] \in Nat /\ end_time[p] \in Nat /\ time \in Nat
      /\ 0 < processing_time[p] /\ p \in Nat
  BY <1>1, C!WorkloadBounds, SimulatorAssumption, ContractAssumption
<1>3. /\ processed_time[p] <= processing_time[p]
      /\ p \in admitted => arrival_time[p] <= time
      /\ p \notin admitted => processed_time[p] = 0
  BY <1>1 DEF C!AdmissionInv
<1>4. ~Unfinished(p) => end_time[p] < time
  BY <1>1, SameSimulator DEF C!ElapsedCoversService
<1>5. p \in Ready <=> p \in admitted /\ Unfinished(p)
  BY ListedProcesses
<1> QED
  BY <1>2, <1>3, <1>4, <1>5

(* The head of the list is before every other process on it.               *)
LEMMA HeadIsFirst ==
  ASSUME FInv, process_list # <<>>, NEW q \in Ready, q # process_list[1]
  PROVE  Before(process_list[1], q)
<1>1. process_list \in Seq(Pids) /\ SortedByArrival(process_list, arrival_time)
  BY DEF FInv, SchedInv
<1>2. PICK i \in DOMAIN process_list : process_list[i] = q
  BY DEF Ready, ToSet
<1>3. 1 \in 1 .. Len(process_list) /\ i \in 1 .. Len(process_list) /\ 1 < i
  BY <1>1, <1>2
<1> QED
  BY <1>1, <1>2, <1>3 DEF SortedByArrival, Before

(* Everybody who has arrived by the time of the call has been admitted.    *)
LEMMA ArrivedIsAdmitted ==
  ASSUME FInv, AtGetNext, NEW p \in Pids, arrival_time[p] <= time
  PROVE  p \in admitted
<1>1. C!AtGetNext
  BY DEF AtGetNext, C!AtGetNext, Due, C!Due
<1> QED
  BY <1>1, C!AllArrivedAdmitted, SimulatorAssumption, ContractAssumption DEF FInv

(* What the unit of the head does to the accounts.                         *)
LEMMA HeadRuns ==
  ASSUME FInv, ScheduleFirst, NEW r, r = process_list[1]
  PROVE  /\ process_list # <<>> /\ r \in Pids /\ r \in Ready /\ AtGetNext
         /\ UNCHANGED <<arrival_time, processing_time>> /\ time' = time + 1
         /\ \A p \in Pids : processed_time'[p] = IF p = r THEN processed_time[r] + 1
                                                 ELSE processed_time[p]
         /\ \A p \in Pids :
              end_time'[p] = IF p = r /\ processed_time[r] + 1 = processing_time[r]
                             THEN time ELSE end_time[p]
<1>1. process_list # <<>> /\ r \in Pids /\ C!Run(r)
  BY ScheduleFirstRefines
<1>2. r \in Ready /\ Account(r)
  BY <1>1, SameSimulator DEF C!Run
<1>3. AtGetNext /\ AccountUnit(r) /\ UNCHANGED workload
  BY <1>1, <1>2, ListedProcesses, SimulatorAssumption
     DEF Account, AccountOverrun, Idle
<1>4. processed_time \in [Pids -> 0 .. TIMEOUT] /\ end_time \in [Pids -> 0 .. TIMEOUT]
  BY ListedProcesses DEF SimTypeOK
<1>5. /\ processed_time' = [processed_time EXCEPT ![r] = @ + 1]
      /\ end_time' = IF processed_time[r] + 1 = processing_time[r]
                     THEN [end_time EXCEPT ![r] = time] ELSE end_time
      /\ UNCHANGED <<arrival_time, processing_time>> /\ time' = time + 1
  BY <1>3 DEF AccountUnit, NextTimeUnit, workload
<1>6. \A p \in Pids : processed_time'[p] = IF p = r THEN processed_time[r] + 1
                                           ELSE processed_time[p]
  BY <1>4, <1>5
<1>7. \A p \in Pids : end_time'[p] = IF p = r /\ processed_time[r] + 1 = processing_time[r]
                                     THEN time ELSE end_time[p]
  BY <1>4, <1>5
<1> QED
  BY <1>1, <1>2, <1>3, <1>5, <1>6, <1>7

(* A unit for the head of the list.                                        *)
LEMMA HeadKeepsTimes ==
  ASSUME FInv, TimesInv, ScheduleFirst
  PROVE  TimesInv'
<1>0. PICK r : r = process_list[1]
  OBVIOUS
<1>1. /\ process_list # <<>> /\ r \in Pids /\ r \in Ready /\ AtGetNext
      /\ UNCHANGED <<arrival_time, processing_time>> /\ time' = time + 1
      /\ \A p \in Pids : processed_time'[p] = IF p = r THEN processed_time[r] + 1
                                              ELSE processed_time[p]
      /\ \A p \in Pids :
           end_time'[p] = IF p = r /\ processed_time[r] + 1 = processing_time[r]
                          THEN time ELSE end_time[p]
  BY <1>0, HeadRuns
<1>2. \A q \in Ready : q # r => Before(r, q)
  BY <1>0, <1>1, HeadIsFirst
<1>3. \A p \in Pids : Earlier(p)' = Earlier(p) /\ Earlier(p) \subseteq Pids
  BY <1>1 DEF Earlier, Before
<1>4. r \in admitted /\ Unfinished(r) /\ r \in Nat /\ arrival_time[r] <= time
  BY <1>1, ProcessFacts
<1>5. ASSUME NEW q \in Earlier(r) PROVE q \in Pids /\ ~Unfinished(q) /\ q # r
  <2>1. q \in Pids /\ Before(q, r)
    BY DEF Earlier
  <2>2. /\ arrival_time[q] \in Nat /\ arrival_time[r] \in Nat /\ time \in Nat
        /\ q \in Nat
    BY <2>1, <1>1, ProcessFacts
  <2>3. q # r /\ ~Before(r, q) /\ arrival_time[q] <= time
    BY <2>1, <2>2, <1>4 DEF Before
  <2>4. q \in admitted
    BY <2>1, <2>3, <1>1, ArrivedIsAdmitted
  <2>5. q \notin Ready
    BY <2>3, <1>2
  <2> QED
    BY <2>1, <2>3, <2>4, <2>5, ProcessFacts
<1>6. ASSUME NEW p \in Pids, p # r, processed_time[p] > 0 PROVE ~Unfinished(p)
  <2> SUFFICES ASSUME Unfinished(p) PROVE FALSE
    OBVIOUS
  <2>1. p \in Ready
    BY <1>6, ProcessFacts
  <2>2. r \in Earlier(p)
    BY <2>1, <1>1, <1>2, <1>6 DEF Earlier
  <2> QED
    BY <2>2, <1>4, <1>6 DEF TimesInv, RanInOrder
<1>7. \A q \in Pids : q # r => Unfinished(q)' = Unfinished(q) /\ end_time'[q] = end_time[q]
  BY <1>1 DEF Unfinished
<1>8. ASSUME NEW p \in Pids, NEW s, StartsAt(p, s), \A q \in Earlier(p) : ~Unfinished(q)
      PROVE  StartsAt(p, s)' /\ \A q \in Earlier(p)' : ~Unfinished(q)'
  <2>1. \A q \in Earlier(p) : end_time'[q] = end_time[q] /\ Unfinished(q)' = Unfinished(q)
    BY <1>3, <1>4, <1>7, <1>8
  <2> QED
    BY <2>1, <1>1, <1>3, <1>8 DEF StartsAt
<1>9. ASSUME NEW p \in Pids PROVE RanInOrder(p)'
  <2> SUFFICES ASSUME processed_time'[p] > 0
               PROVE  \E s \in Nat :
                        /\ StartsAt(p, s)'
                        /\ \A q \in Earlier(p)' : ~Unfinished(q)'
                        /\ IF Unfinished(p)' THEN processed_time'[p] = time' - s
                           ELSE end_time'[p] = s + processing_time'[p] - 1
    BY DEF RanInOrder
  <2>1. CASE p # r
    <3>1. processed_time[p] > 0 /\ ~Unfinished(p)
      BY <2>1, <1>1, <1>6
    <3>2. PICK s \in Nat : /\ StartsAt(p, s) /\ \A q \in Earlier(p) : ~Unfinished(q)
                           /\ end_time[p] = s + processing_time[p] - 1
      BY <3>1 DEF TimesInv, RanInOrder
    <3>3. StartsAt(p, s)' /\ \A q \in Earlier(p)' : ~Unfinished(q)'
      BY <3>2, <1>8
    <3>4. ~Unfinished(p)' /\ end_time'[p] = s + processing_time'[p] - 1
      BY <2>1, <3>1, <3>2, <1>1, <1>7
    <3> QED
      BY <3>3, <3>4
  <2>2. CASE p = r
    <3>1. /\ processed_time[r] \in Nat /\ processing_time[r] \in Nat /\ time \in Nat
          /\ processed_time[r] < processing_time[r]
      BY <1>1, <1>4, ProcessFacts DEF Unfinished
    <3>2. \E s \in Nat : /\ StartsAt(r, s) /\ \A q \in Earlier(r) : ~Unfinished(q)
                         /\ processed_time[r] = time - s
      <4>1. CASE processed_time[r] > 0
        BY <4>1, <1>1, <1>4 DEF TimesInv, RanInOrder
      <4>2. CASE processed_time[r] = 0
        <5>1. \A q \in Earlier(r) : end_time[q] + 1 <= time
          BY <1>5, <3>1, ProcessFacts
        <5>2. arrival_time[r] \in Nat
          BY <1>1, ProcessFacts
        <5>3. time = arrival_time[r] \/ \E q \in Earlier(r) : time = end_time[q] + 1
          BY <4>2, <5>2, <3>1, <1>1, <1>4, <1>5 DEF TimesInv, KeptBusy
        <5>4. StartsAt(r, time)
          BY <5>1, <5>3, <1>4 DEF StartsAt
        <5> QED
          BY <4>2, <5>4, <3>1, <1>5
      <4> QED
        BY <4>1, <4>2, <3>1
    <3>3. PICK s \in Nat : /\ StartsAt(r, s) /\ \A q \in Earlier(r) : ~Unfinished(q)
                           /\ processed_time[r] = time - s
      BY <3>2
    <3>4. StartsAt(r, s)' /\ \A q \in Earlier(r)' : ~Unfinished(q)'
      BY <3>3, <1>1, <1>8
    <3>5. IF Unfinished(r)' THEN processed_time'[r] = time' - s
          ELSE end_time'[r] = s + processing_time'[r] - 1
      BY <3>1, <3>3, <1>1 DEF Unfinished
    <3> QED
      BY <2>2, <3>4, <3>5
  <2> QED
    BY <2>1, <2>2
<1>10. ASSUME NEW p \in Pids PROVE KeptBusy(p)'
  <2> SUFFICES ASSUME processed_time'[p] = 0, arrival_time[p] < time + 1
               PROVE  \E q \in Earlier(p) : IF Unfinished(q)' THEN processed_time'[q] > 0
                                            ELSE end_time'[q] + 1 = time + 1
    BY <1>1, <1>3 DEF KeptBusy
  <2>1. /\ processed_time[r] \in Nat /\ processing_time[r] \in Nat /\ time \in Nat
        /\ arrival_time[p] \in Nat /\ 0 < processing_time[p]
        /\ processed_time[r] < processing_time[r]
    BY <1>1, <1>4, ProcessFacts DEF Unfinished
  <2>2. p # r /\ processed_time[p] = 0 /\ Unfinished(p) /\ arrival_time[p] <= time
    BY <2>1, <1>1 DEF Unfinished
  <2>3. p \in Ready
    BY <2>2, <1>1, ArrivedIsAdmitted, ProcessFacts
  <2>4. r \in Earlier(p)
    BY <2>2, <2>3, <1>1, <1>2 DEF Earlier
  <2>5. IF Unfinished(r)' THEN processed_time'[r] > 0 ELSE end_time'[r] + 1 = time + 1
    BY <2>1, <1>1 DEF Unfinished
  <2> QED
    BY <2>4, <2>5
<1> QED
  BY <1>9, <1>10 DEF TimesInv

(* Steps that change no account and take no time.                          *)
LEMMA SameTimes ==
  ASSUME TimesInv, UNCHANGED <<workload, accounts, time>>
  PROVE  TimesInv'
<1>1. /\ UNCHANGED <<arrival_time, processing_time, processed_time, end_time, time>>
      /\ \A p : Unfinished(p)' = Unfinished(p) /\ Earlier(p)' = Earlier(p)
  BY DEF workload, accounts, Unfinished, Earlier, Before
<1>2. \A p, s : StartsAt(p, s)' = StartsAt(p, s)
  BY <1>1 DEF StartsAt
<1> QED
  BY <1>1, <1>2 DEF TimesInv, RanInOrder, KeptBusy

(* A unit that is not used: whoever has arrived has finished.              *)
LEMMA IdleKeepsTimes ==
  ASSUME FInv, TimesInv, ScheduleNone
  PROVE  TimesInv'
<1>1. Ready = {} /\ AtGetNext /\ time' = time + 1 /\ UNCHANGED <<workload, accounts>>
  BY WalkStopsAtHead, SimulatorAssumption
     DEF ScheduleNone, Account, AccountIdle, NextTimeUnit, Idle
<1>2. /\ UNCHANGED <<arrival_time, processing_time, processed_time, end_time>>
      /\ \A p : Unfinished(p)' = Unfinished(p) /\ Earlier(p)' = Earlier(p)
  BY <1>1 DEF workload, accounts, Unfinished, Earlier, Before
<1>3. \A p, s : StartsAt(p, s)' = StartsAt(p, s)
  BY <1>2 DEF StartsAt
<1>4. ASSUME NEW p \in Pids PROVE RanInOrder(p)'
  <2>1. processed_time[p] > 0 => ~Unfinished(p)
    BY <1>1, ProcessFacts
  <2> QED
    BY <2>1, <1>2, <1>3 DEF TimesInv, RanInOrder
<1>5. ASSUME NEW p \in Pids PROVE KeptBusy(p)'
  <2>1. /\ arrival_time[p] \in Nat /\ time \in Nat
        /\ processed_time[p] = 0 => Unfinished(p)
    BY ProcessFacts DEF Unfinished
  <2>2. ~(processed_time[p] = 0 /\ arrival_time[p] <= time)
    BY <2>1, <1>1, ArrivedIsAdmitted, ProcessFacts
  <2> QED
    BY <2>1, <2>2, <1>1, <1>2 DEF KeptBusy
<1> QED
  BY <1>4, <1>5 DEF TimesInv

LEMMA NextKeepsTimes ==
  ASSUME FInv, TimesInv, [Next]_vars
  PROVE  TimesInv'
<1>1. CASE ScheduleFirst
  BY <1>1, HeadKeepsTimes
<1>2. CASE ScheduleNone
  BY <1>2, IdleKeepsTimes
<1>3. CASE EnterIteration \/ LeaveLoop \/ (\E p \in Pids : add_to_ready_queue(p))
             \/ UNCHANGED vars
  <2>1. UNCHANGED <<workload, accounts, time>>
    BY <1>3 DEF EnterIteration, LeaveLoop, add_to_ready_queue, Admit, vars, simVars,
                workload, accounts
  <2> QED
    BY <2>1, SameTimes
<1> QED
  BY <1>1, <1>2, <1>3 DEF Next, get_next_scheduled_process

LEMMA InitTimes == Init => TimesInv
<1> SUFFICES ASSUME Init PROVE TimesInv
  OBVIOUS
<1>1. /\ time = 0 /\ \A p \in Pids : processed_time[p] = 0
  BY DEF Init, SimInit
<1>2. \A p \in Pids : arrival_time[p] \in Nat
  BY InitFInv, ProcessFacts
<1> QED
  BY <1>1, <1>2 DEF TimesInv, RanInOrder, KeptBusy

(* The unit a process starts in is the one that FcfsTimes computes.        *)
LEMMA StartIsMax ==
  ASSUME FInv, NEW p \in Pids, NEW s \in Nat, StartsAt(p, s)
  PROVE  Max({arrival_time[p]} \cup {end_time[q] + 1 : q \in Earlier(p)}) = s
<1> DEFINE S == {arrival_time[p]} \cup {end_time[q] + 1 : q \in Earlier(p)}
<1>1. arrival_time[p] \in Nat /\ \A q \in Earlier(p) : end_time[q] \in Nat
  BY ProcessFacts DEF Earlier
<1>2. S \subseteq Int /\ s \in S /\ \A t \in S : t <= s
  BY <1>1 DEF StartsAt
<1> HIDE DEF S
<1>3. Max(S) = s
  BY <1>2, GreatestIsMax
<1> QED
  BY <1>3 DEF S

(* The times of the processes are those computed from the workload.        *)
LEMMA TimesFromWorkload ==
  ASSUME FInv, TimesInv, NEW p \in Pids, processed_time[p] > 0
  PROVE  LET start == Max({arrival_time[p]} \cup {end_time[q] + 1 : q \in Earlier(p)})
         IN  /\ \A q \in Earlier(p) : ~Unfinished(q)
             /\ ~Unfinished(p) => end_time[p] = start + processing_time[p] - 1
             /\ Unfinished(p) => processed_time[p] = time - start
<1>1. PICK s \in Nat : /\ StartsAt(p, s)
                       /\ \A q \in Earlier(p) : ~Unfinished(q)
                       /\ IF Unfinished(p) THEN processed_time[p] = time - s
                          ELSE end_time[p] = s + processing_time[p] - 1
  BY DEF TimesInv, RanInOrder
<1>2. Max({arrival_time[p]} \cup {end_time[q] + 1 : q \in Earlier(p)}) = s
  BY <1>1, StartIsMax
<1> QED
  BY <1>1, <1>2

-----------------------------------------------------------------------------
(* The example of the readme: the sums, with functions for their terms.    *)
Turnaround == [p \in Pids |-> calculate_turnaround_time(p)]
Wait == [p \in Pids |-> calculate_wait_time(p)]

LEMMA TotalTurnaroundIsTotal ==
  ASSUME \A p \in Pids : Turnaround[p] \in Int
  PROVE  TotalTurnaround = Total(Turnaround, Pids)
<1> DEFINE P(sum) == sum = [s \in SUBSET Pids |->
                              IF s = {} THEN 0
                              ELSE calculate_turnaround_time(CHOOSE x \in s : TRUE)
                                     + sum[s \ {CHOOSE x \in s : TRUE}]]
           iter == CHOOSE sum : P(sum)
<1>1. TotalTurnaround = iter[Pids]
  BY DEF TotalTurnaround, MapThenSumSet, MapThenFoldSet
<1>2. /\ IsFiniteSet(Pids)
      /\ \A s \in SUBSET Pids : s # {} => (CHOOSE x \in s : TRUE) \in Pids
  BY SimulatorAssumption
<1>3. PICK sum \in [SUBSET Pids -> Int] :
        \A s \in SUBSET Pids : sum[s] = FoldStep(Turnaround, sum, s)
  BY <1>2, TotalExists
<1>4. P(sum)
  BY <1>2, <1>3 DEF FoldStep, Turnaround
<1>5. P(iter)
  <2> HIDE DEF P
  <2> QED
    BY <1>4
<1> HIDE DEF iter
<1>6. \A s \in SUBSET Pids : iter[s] = FoldStep(Turnaround, iter, s)
  BY <1>2, <1>5 DEF FoldStep, Turnaround
<1> QED
  BY <1>1, <1>2, <1>6, SolutionIsTotal

LEMMA TotalWaitIsTotal ==
  ASSUME \A p \in Pids : Wait[p] \in Int
  PROVE  TotalWait = Total(Wait, Pids)
<1> DEFINE P(sum) == sum = [s \in SUBSET Pids |->
                              IF s = {} THEN 0
                              ELSE calculate_wait_time(CHOOSE x \in s : TRUE)
                                     + sum[s \ {CHOOSE x \in s : TRUE}]]
           iter == CHOOSE sum : P(sum)
<1>1. TotalWait = iter[Pids]
  BY DEF TotalWait, MapThenSumSet, MapThenFoldSet
<1>2. /\ IsFiniteSet(Pids)
      /\ \A s \in SUBSET Pids : s # {} => (CHOOSE x \in s : TRUE) \in Pids
  BY SimulatorAssumption
<1>3. PICK sum \in [SUBSET Pids -> Int] :
        \A s \in SUBSET Pids : sum[s] = FoldStep(Wait, sum, s)
  BY <1>2, TotalExists
<1>4. P(sum)
  BY <1>2, <1>3 DEF FoldStep, Wait
<1>5. P(iter)
  <2> HIDE DEF P
  <2> QED
    BY <1>4
<1> HIDE DEF iter
<1>6. \A s \in SUBSET Pids : iter[s] = FoldStep(Wait, iter, s)
  BY <1>2, <1>5 DEF FoldStep, Wait
<1> QED
  BY <1>1, <1>2, <1>6, SolutionIsTotal

(* Three terms.                                                            *)
LEMMA TotalOfThree ==
  ASSUME NEW w, w[1] \in Int, w[2] \in Int, w[3] \in Int
  PROVE  Total(w, {1, 2, 3}) = w[1] + w[2] + w[3]
<1>1. /\ IsFiniteSet({}) /\ IsFiniteSet({1}) /\ IsFiniteSet({1, 2})
      /\ {} \cup {1} = {1} /\ {1} \cup {2} = {1, 2} /\ {1, 2} \cup {3} = {1, 2, 3}
      /\ 1 \notin {} /\ 2 \notin {1} /\ 3 \notin {1, 2}
  <2>1. IsFiniteSet({})
    BY FS_EmptySet
  <2>2. IsFiniteSet({} \cup {1})
    BY <2>1, FS_AddElement
  <2>3. IsFiniteSet(({} \cup {1}) \cup {2})
    BY <2>2, FS_AddElement
  <2>4. {} \cup {1} = {1} /\ {1} \cup {2} = {1, 2} /\ {1, 2} \cup {3} = {1, 2, 3}
    OBVIOUS
  <2> QED
    BY <2>1, <2>2, <2>3, <2>4
<1>2. \A x \in {1, 2, 3} : w[x] \in Int
  OBVIOUS
<1>3. Total(w, {1}) = w[1] + Total(w, {})
  <2>1. \A x \in {} \cup {1} : w[x] \in Int
    OBVIOUS
  <2>2. Total(w, {} \cup {1}) = w[1] + Total(w, {})
    BY <1>1, <2>1, TotalAdd
  <2> QED
    BY <1>1, <2>2
<1>4. Total(w, {1, 2}) = w[2] + Total(w, {1})
  <2>1. \A x \in {1} \cup {2} : w[x] \in Int
    OBVIOUS
  <2>2. Total(w, {1} \cup {2}) = w[2] + Total(w, {1})
    BY <1>1, <2>1, TotalAdd
  <2> QED
    BY <1>1, <2>2
<1>5. Total(w, {1, 2, 3}) = w[3] + Total(w, {1, 2})
  <2>1. \A x \in {1, 2} \cup {3} : w[x] \in Int
    OBVIOUS
  <2>2. Total(w, {1, 2} \cup {3}) = w[3] + Total(w, {1, 2})
    BY <1>1, <2>1, TotalAdd
  <2> QED
    BY <1>1, <2>2
<1>6. Total(w, {}) = 0
  BY TotalEmpty
<1> QED
  BY <1>3, <1>4, <1>5, <1>6

LEMMA ExampleHolds == FInv /\ TimesInv => ReadmeExample
<1> SUFFICES ASSUME FInv, TimesInv, result = "complete",
                    workload = << <<0, 2, 6>>, <<10, 1, 2>> >>
             PROVE  TotalWait = 13 /\ TotalTurnaround = 26 /\ Cardinality(Pids) = 3
  BY DEF ReadmeExample
<1>1. arrival_time = <<0, 2, 6>> /\ processing_time = <<10, 1, 2>>
  BY DEF workload
<1>2. Pids = 1 .. 3
  BY <1>1, ListedProcesses DEF SimTypeOK
<1>3. /\ arrival_time[1] = 0 /\ arrival_time[2] = 2 /\ arrival_time[3] = 6
      /\ processing_time[1] = 10 /\ processing_time[2] = 1 /\ processing_time[3] = 2
      /\ Earlier(1) = {} /\ Earlier(2) = {1} /\ Earlier(3) = {1, 2}
  BY <1>1, <1>2 DEF Earlier, Before
<1>4. \A p \in Pids : ~Unfinished(p) /\ processed_time[p] = processing_time[p]
  <2>1. ~C!still_running
    BY DEF FInv, C!IInv, C!ControlInv
  <2>2. \A p \in Pids : ~Unfinished(p)
    BY <2>1, SameSimulator DEF C!still_running
  <2> QED
    BY <2>2, ProcessFacts DEF Unfinished
<1>5. ASSUME NEW p \in Pids
      PROVE  \E s \in Nat : StartsAt(p, s) /\ end_time[p] = s + processing_time[p] - 1
  BY <1>4, ProcessFacts DEF TimesInv, RanInOrder
<1>6. end_time[1] = 9
  <2>1. PICK s \in Nat : StartsAt(1, s) /\ end_time[1] = s + processing_time[1] - 1
    BY <1>2, <1>5
  <2>2. s = 0
    BY <2>1, <1>3 DEF StartsAt
  <2> QED
    BY <2>1, <2>2, <1>3
<1>7. end_time[2] = 10
  <2>1. PICK s \in Nat : StartsAt(2, s) /\ end_time[2] = s + processing_time[2] - 1
    BY <1>2, <1>5
  <2>2. s = 10
    BY <2>1, <1>3, <1>6 DEF StartsAt
  <2> QED
    BY <2>1, <2>2, <1>3
<1>8. end_time[3] = 12
  <2>1. PICK s \in Nat : StartsAt(3, s) /\ end_time[3] = s + processing_time[3] - 1
    BY <1>2, <1>5
  <2>2. s = 11
    BY <2>1, <1>3, <1>6, <1>7 DEF StartsAt
  <2> QED
    BY <2>1, <2>2, <1>3
<1>9. \A n \in 0 .. 12 : n % UINT = n
  <2>1. 12 < time /\ time \in 0 .. TIMEOUT
    BY <1>2, <1>4, <1>8, ProcessFacts, ListedProcesses DEF SimTypeOK
  <2>2. UINT \in Nat /\ 12 < UINT
    BY <2>1, SimulatorAssumption
  <2> QED
    BY <2>2
<1>10. /\ Turnaround[1] = 10 /\ Turnaround[2] = 9 /\ Turnaround[3] = 7
  BY <1>2, <1>3, <1>6, <1>7, <1>8, <1>9 DEF Turnaround, calculate_turnaround_time
<1>11. Wait[1] = 0 /\ Wait[2] = 8 /\ Wait[3] = 5
  <2>1. /\ calculate_turnaround_time(1) = 10 /\ calculate_turnaround_time(2) = 9
        /\ calculate_turnaround_time(3) = 7
    BY <1>2, <1>10 DEF Turnaround
  <2> QED
    BY <2>1, <1>2, <1>3, <1>4, <1>9 DEF Wait, calculate_wait_time
<1>12. Pids = {1, 2, 3}
  BY <1>2
<1>13. TotalTurnaround = 26
  BY <1>10, <1>12, TotalTurnaroundIsTotal, TotalOfThree
<1>14. TotalWait = 13
  BY <1>11, <1>12, TotalWaitIsTotal, TotalOfThree
<1>15. Cardinality(Pids) = 3
  <2>1. Cardinality(1 .. 3) = IF 1 > 3 THEN 0 ELSE 3 - 1 + 1
    <3>1. 1 \in Int /\ 3 \in Int
      OBVIOUS
    <3> QED
      BY <3>1, FS_Interval, Zenon
  <2> QED
    BY <2>1, <1>2
<1> QED
  BY <1>13, <1>14, <1>15

(* A process finishes when first come, first served says, computed from    *)
(* the workload alone, and the example of the readme comes out as it says. *)
THEOREM TimesAreFirstComeFirstServed == Spec => []FcfsTimes
<1>1. FInv /\ TimesInv => FcfsTimes
  BY TimesFromWorkload, ExampleHolds DEF FcfsTimes, Earlier
<1>2. Init => FInv /\ TimesInv
  BY InitFInv, InitTimes
<1>3. FInv /\ TimesInv /\ [Next]_vars => (FInv /\ TimesInv)'
  BY StepRefines, NextKeepsTimes
<1> QED
  BY <1>1, <1>2, <1>3, PTL DEF Spec
================================================================================
