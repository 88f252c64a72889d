-------------------------- MODULE RoundRobinProofs --------------------------
(***************************************************************************)
(* rr.c keeps the contract of simulator.c, for any set of processes, any   *)
(* workload and any QUANTUM, and interrupts no process on its second turn. *)
(*                                                                         *)
(* The invariant is that of the contract, with the processes on the list   *)
(* as the ready ones, and what the scheduler adds.  The list is not sorted *)
(* here; what replaces that is TailHadOneTurn.  It survives the insertion  *)
(* of a new process at the front because the head, if it did not arrive    *)
(* earlier, has not run (ElapsedCoversService of the contract).            *)
(*                                                                         *)
(* In which order the turns are given is a second invariant, TurnInv: the  *)
(* list is not in the order of arrival, but those on it with the same      *)
(* number of turns are, the head included, and the processes that arrive   *)
(* now are the last of it.                                                 *)
(***************************************************************************)
EXTENDS RoundRobin, OperatorProofs

C == INSTANCE ReadyContractProofs WITH ready <- Ready

(* Behind the head of the list nobody has had more than one turn.          *)
TailHadOneTurn ==
  \A i \in 2 .. Len(process_list) : processed_time[process_list[i]] <= QUANTUM

(* What the scheduler's own state satisfies.                               *)
SchedInv ==
  /\ process_list \in Seq(Pids)
  /\ node_processed_time \in [Pids -> 0 .. TIMEOUT]
  /\ quantum_used \in [Pids -> 0 .. TIMEOUT]
  /\ \A p \in Ready : /\ node_processed_time[p] = processed_time[p]
                      /\ quantum_used[p] = processed_time[p]
  /\ IsInjective(process_list)
  /\ TailHadOneTurn

RInv == C!IInv /\ SchedInv

-----------------------------------------------------------------------------
(* The assumption of the contract's module is that of this one.            *)
LEMMA ContractAssumption == C!IsFiniteSet(Pids)
  BY SimulatorAssumption DEF C!IsFiniteSet, IsFiniteSet

(* The simulator's half of the calls is the same on both sides.            *)
LEMMA SameSimulator ==
  /\ C!SimInit <=> SimInit
  /\ C!SimTypeOK <=> SimTypeOK
  /\ C!EnterIteration <=> EnterIteration
  /\ C!LeaveLoop <=> LeaveLoop
  /\ \A p : C!Admit(p) <=> Admit(p)
  /\ \A p : C!Account(p) <=> Account(p)
  /\ \A p : C!Unfinished(p) <=> Unfinished(p)
<1>1. (C!SimInit <=> SimInit) /\ (C!SimTypeOK <=> SimTypeOK)
  BY DEF C!SimInit, SimInit, C!SimTypeOK, SimTypeOK
<1>2. \A p : C!Unfinished(p) <=> Unfinished(p)
  BY DEF C!Unfinished, Unfinished
<1>3. (C!EnterIteration <=> EnterIteration) /\ (C!LeaveLoop <=> LeaveLoop)
  BY DEF C!EnterIteration, EnterIteration, C!LeaveLoop, LeaveLoop,
         C!still_running, still_running, C!Unfinished, Unfinished,
         C!workload, workload, C!accounts, accounts
<1>4. \A p : C!Admit(p) <=> Admit(p)
  BY DEF C!Admit, Admit, C!Due, Due, C!workload, workload, C!accounts, accounts
<1>5. \A p : C!Account(p) <=> Account(p)
  BY DEF C!Account, Account, C!AtGetNext, AtGetNext, C!Due, Due, C!Idle, Idle,
         C!AccountIdle, AccountIdle, C!AccountUnit, AccountUnit,
         C!AccountOverrun, AccountOverrun, C!AccountUnknown, AccountUnknown,
         C!get_pid_index, get_pid_index, C!NextTimeUnit, NextTimeUnit,
         C!Stop, Stop, C!Unfinished, Unfinished,
         C!workload, workload, C!accounts, accounts
<1> QED
  BY <1>1, <1>2, <1>3, <1>4, <1>5

(* Before anything has arrived the list is empty.                          *)
LEMMA InitRInv == Init => C!Init /\ RInv
<1> SUFFICES ASSUME Init PROVE C!Init /\ RInv
  OBVIOUS
<1>1. process_list = <<>> /\ Ready = {}
  BY DEF Init, Ready, ToSet
<1>2. C!Init
  BY <1>1, SameSimulator DEF Init, C!Init
<1>3. C!IInv
  BY <1>2, C!InitInv, SimulatorAssumption, ContractAssumption
<1>4. SchedInv
  BY <1>1, SimulatorAssumption DEF Init, SchedInv, IsInjective, TailHadOneTurn
<1> QED
  BY <1>2, <1>3, <1>4 DEF RInv

(* The processes on the list have been admitted and need more time.        *)
LEMMA ListedProcesses ==
  ASSUME RInv
  PROVE  /\ SimTypeOK
         /\ Ready = {p \in admitted : Unfinished(p)}
         /\ Ready \subseteq Pids
         /\ arrival_time \in [Pids -> Nat] /\ Pids \subseteq Nat
<1>1. SimTypeOK /\ Ready \subseteq Pids
  BY SameSimulator DEF RInv, C!IInv, C!TypeOK
<1>2. Ready = {p \in admitted : Unfinished(p)}
  BY SameSimulator DEF RInv, C!IInv, C!ReadyExact
<1>3. Arrivals \subseteq Nat /\ Pids \subseteq Nat
  BY SimulatorAssumption
<1>4. arrival_time \in [Pids -> Nat]
  BY <1>1, <1>3 DEF SimTypeOK
<1> QED
  BY <1>1, <1>2, <1>3, <1>4

(* The head of the list, if it did not arrive before now, has not run.     *)
LEMMA HeadHasNotRun ==
  ASSUME RInv, process_list # <<>>, ~(arrival_time[process_list[1]] < time)
  PROVE  processed_time[process_list[1]] <= QUANTUM
<1> DEFINE h == process_list[1]
<1>1. h \in Pids
  BY DEF RInv, SchedInv
<1> HIDE DEF h
<1>2. /\ arrival_time[h] \in Nat /\ processed_time[h] \in Nat /\ time \in Nat
      /\ ~(arrival_time[h] < time)
  <2>1. arrival_time \in [Pids -> Nat]
    BY ListedProcesses
  <2>2. processed_time \in [Pids -> 0 .. TIMEOUT] /\ time \in 0 .. TIMEOUT /\ TIMEOUT \in Nat
    BY ListedProcesses, SimulatorAssumption DEF SimTypeOK
  <2> QED
    BY <1>1, <2>1, <2>2 DEF h
<1>3. processed_time[h] > 0 => arrival_time[h] + processed_time[h] <= time
  BY <1>1 DEF RInv, C!IInv, C!ElapsedCoversService
<1>4. processed_time[h] = 0
  BY <1>2, <1>3
<1> QED
  BY <1>4, QuantumAssumption DEF h

(* add_to_ready_queue is the contract's Add.                               *)
LEMMA AddRefines ==
  ASSUME RInv, NEW p \in Pids, add_to_ready_queue(p)
  PROVE  C!Add(p) /\ SchedInv'
<1> DEFINE new == SortedInsert(process_list, p, arrival_time)
<1>1. /\ p \notin admitted /\ p \notin Ready /\ arrival_time[p] = time
      /\ UNCHANGED <<arrival_time, processing_time, processed_time>>
      /\ process_list' = new
      /\ node_processed_time' = [node_processed_time EXCEPT ![p] = 0]
      /\ quantum_used' = [quantum_used EXCEPT ![p] = 0]
  BY ListedProcesses DEF add_to_ready_queue, Admit, Due, workload, accounts
<1>2. process_list \in Seq(Pids) /\ IsInjective(process_list)
  BY DEF RInv, SchedInv
<1>3. /\ new \in Seq(Pids)
      /\ ToSet(new) = ToSet(process_list) \cup {p}
      /\ IsInjective(new)
      /\ \E end \in 0 .. Len(process_list) :
           /\ new = add_next(process_list, end, p)
           /\ end = 0 /\ process_list # <<>>
                => ~(arrival_time[process_list[1]] < arrival_time[p])
  BY <1>1, <1>2, SortedInsertAdds DEF Ready
<1> HIDE DEF new
<1>4. Ready' = Ready \cup {p}
  BY <1>1, <1>3 DEF Ready
<1>5. C!Add(p)
  BY <1>4, SameSimulator DEF C!Add, add_to_ready_queue
<1>6. processed_time[p] = 0
  BY <1>1, SameSimulator DEF RInv, C!IInv, C!AdmissionInv
<1>7. /\ node_processed_time' \in [Pids -> 0 .. TIMEOUT]
      /\ quantum_used' \in [Pids -> 0 .. TIMEOUT]
  BY <1>1, SimulatorAssumption DEF RInv, SchedInv
<1>8. \A q \in Ready' : /\ node_processed_time'[q] = processed_time'[q]
                       /\ quantum_used'[q] = processed_time'[q]
  BY <1>1, <1>4, <1>6, ListedProcesses DEF RInv, SchedInv
<1>9. \A i \in 2 .. Len(new) : processed_time[new[i]] <= QUANTUM
  <2>1. PICK end \in 0 .. Len(process_list) :
           /\ new = add_next(process_list, end, p)
           /\ end = 0 /\ process_list # <<>>
                => ~(arrival_time[process_list[1]] < arrival_time[p])
    BY <1>3
  <2>2. /\ Len(new) = Len(process_list) + 1
        /\ \A i \in 1 .. Len(process_list) + 1 :
             new[i] = IF i <= end THEN process_list[i]
                      ELSE IF i = end + 1 THEN p ELSE process_list[i - 1]
    <3>1. process_list \in Seq(Pids)
      BY <1>2
    <3>2. \A e \in 0 .. Len(process_list) :
            /\ add_next(process_list, e, p) \in Seq(Pids)
            /\ Len(add_next(process_list, e, p)) = Len(process_list) + 1
            /\ \A i \in 1 .. Len(process_list) + 1 :
                 add_next(process_list, e, p)[i] =
                   IF i <= e THEN process_list[i]
                   ELSE IF i = e + 1 THEN p ELSE process_list[i - 1]
      BY <3>1, AddNext
    <3> QED
      BY <3>2, <2>1, Zenon
  <2>3. Len(process_list) \in Nat /\ QUANTUM \in Nat
    BY <1>2, QuantumAssumption
  <2>4. end = 0 /\ process_list # <<>> => processed_time[process_list[1]] <= QUANTUM
    BY <1>1, <2>1, HeadHasNotRun
  <2> SUFFICES ASSUME NEW i \in 2 .. Len(new) PROVE processed_time[new[i]] <= QUANTUM
    OBVIOUS
  <2>5. CASE i = end + 1
    BY <2>2, <2>3, <2>5, <1>6
  <2>6. CASE i <= end
    <3>1. i \in 2 .. Len(process_list) /\ new[i] = process_list[i]
      BY <2>2, <2>3, <2>6
    <3> QED
      BY <3>1 DEF RInv, SchedInv, TailHadOneTurn
  <2>7. CASE i > end + 1 /\ i > 2
    <3>1. i - 1 \in 2 .. Len(process_list) /\ new[i] = process_list[i - 1]
      BY <2>2, <2>3, <2>7
    <3> QED
      BY <3>1 DEF RInv, SchedInv, TailHadOneTurn
  <2>8. CASE i > end + 1 /\ i = 2
    <3>1. end = 0 /\ new[i] = process_list[1] /\ process_list # <<>>
      BY <2>2, <2>3, <2>8
    <3> QED
      BY <3>1, <2>4
  <2> QED
    BY <2>5, <2>6, <2>7, <2>8
<1>10. TailHadOneTurn'
  BY <1>1, <1>9 DEF TailHadOneTurn
<1> QED
  BY <1>1, <1>3, <1>5, <1>7, <1>8, <1>10 DEF SchedInv

(* h, the head of the list, is given a unit, and then taken off the list,  *)
(* put at the end of it, or left where it is.                              *)
HeadRan(h) ==
  /\ process_list # <<>> /\ h = process_list[1] /\ h \in Ready
  /\ AtGetNext /\ UNCHANGED <<workload, admitted>> /\ time' = time + 1
  /\ processed_time' = [processed_time EXCEPT ![h] = @ + 1]
  /\ LET runs == processed_time[h] + 1
         n == Len(process_list)
     IN  \/ /\ runs = processing_time[h] /\ Len(process_list') = n - 1
            /\ \A i \in 1 .. n - 1 : process_list'[i] = process_list[i + 1]
         \/ /\ runs # processing_time[h] /\ runs = QUANTUM /\ Len(process_list') = n
            /\ \A i \in 1 .. n : process_list'[i] = IF i = n THEN h ELSE process_list[i + 1]
         \/ runs # processing_time[h] /\ runs # QUANTUM /\ process_list' = process_list

(* get_next_scheduled_process, with a process on the list, is the          *)
(* contract's Run of its head.                                             *)
LEMMA ScheduleHeadRefines ==
  ASSUME RInv, ScheduleHead
  PROVE  /\ \E p \in Pids : C!Run(p) /\ HeadRan(p)
         /\ C!IInv' => SchedInv'
<1> DEFINE p == Head(process_list)
           rest == remove_next(process_list, 0)
           last == AddLast(rest, p)
           n == Len(process_list)
           runs == processed_time[p] + 1
<1>1. /\ process_list \in Seq(Pids) /\ n \in Nat \ {0}
      /\ IsInjective(process_list) /\ p = process_list[1] /\ 1 \in DOMAIN process_list
  BY DEF RInv, SchedInv, ScheduleHead
<1>2. /\ p \in Pids /\ p \in Ready
      /\ node_processed_time[p] = processed_time[p]
      /\ quantum_used[p] = processed_time[p]
      /\ processed_time[p] < processing_time[p]
  <2>1. p \in Ready
    BY <1>1 DEF Ready, ToSet
  <2> QED
    BY <2>1, ListedProcesses DEF RInv, SchedInv, Unfinished
<1>3. /\ Account(p)
      /\ node_processed_time' = [node_processed_time EXCEPT ![p] = @ + 1]
      /\ quantum_used' = [quantum_used EXCEPT ![p] = @ + 1]
      /\ process_list' = IF runs = processing_time[p] THEN rest
                         ELSE IF runs = QUANTUM THEN last
                         ELSE process_list
  <2>1. /\ Account(p)
        /\ node_processed_time' = [node_processed_time EXCEPT ![p] = @ + 1]
        /\ quantum_used' = [quantum_used EXCEPT ![p] = @ + 1]
        /\ process_list' = ListAfter(node_processed_time'[p], quantum_used'[p])
    BY DEF ScheduleHead
  <2>2. node_processed_time'[p] = runs /\ quantum_used'[p] = runs
    BY <1>2, <2>1 DEF RInv, SchedInv
  <2> QED
    BY <2>1, <2>2 DEF ListAfter
<1>4. /\ rest \in Seq(Pids) /\ ToSet(rest) = ToSet(process_list) \ {p}
      /\ IsInjective(rest) /\ Len(rest) = n - 1
      /\ \A i \in 1 .. n - 1 : rest[i] = process_list[i + 1]
  <2>1. 0 \in 0 .. n - 1 /\ 0 + 1 = 1
    BY <1>1
  <2>2. /\ rest \in Seq(Pids) /\ Len(rest) = n - 1
        /\ \A i \in 1 .. n - 1 :
             rest[i] = IF i <= 0 THEN process_list[i] ELSE process_list[i + 1]
    BY <1>1, <2>1, RemoveNext
  <2>3. ToSet(rest) = ToSet(process_list) \ {p} /\ IsInjective(rest)
    BY <1>1, <2>1, RemoveNextSet, RemoveNextInjective
  <2> QED
    BY <2>2, <2>3
<1>5. /\ last \in Seq(Pids) /\ ToSet(last) = ToSet(process_list)
      /\ IsInjective(last) /\ Len(last) = n
      /\ \A i \in 1 .. n : last[i] = IF i = n THEN p ELSE process_list[i + 1]
  <2> HIDE DEF rest, p
  <2>1. Len(rest) \in 0 .. Len(rest) /\ p \notin ToSet(rest)
    BY <1>1, <1>4
  <2> DEFINE added == add_next(rest, Len(rest), p)
  <2>2. last = added
    BY DEF AddLast
  <2> HIDE DEF last
  <2>3. /\ added \in Seq(Pids) /\ Len(added) = Len(rest) + 1
        /\ \A i \in 1 .. Len(rest) + 1 :
             added[i] = IF i <= Len(rest) THEN rest[i]
                        ELSE IF i = Len(rest) + 1 THEN p ELSE rest[i - 1]
    <3>1. rest \in Seq(Pids) /\ p \in Pids /\ Len(rest) \in 0 .. Len(rest)
      BY <1>2, <1>4, <2>1
    <3>2. \A e \in 0 .. Len(rest) :
            /\ add_next(rest, e, p) \in Seq(Pids)
            /\ Len(add_next(rest, e, p)) = Len(rest) + 1
            /\ \A i \in 1 .. Len(rest) + 1 :
                 add_next(rest, e, p)[i] =
                   IF i <= e THEN rest[i] ELSE IF i = e + 1 THEN p ELSE rest[i - 1]
      BY <3>1, AddNext
    <3> QED
      BY <3>1, <3>2, Zenon
  <2>4. ToSet(added) = ToSet(rest) \cup {p} /\ IsInjective(added)
    BY <1>2, <1>4, <2>1, AddNextSet, AddNextInjective
  <2>5. p \in ToSet(process_list)
    BY <1>2 DEF Ready
  <2> HIDE DEF added
  <2>6. Len(added) = n /\ \A i \in 1 .. n : added[i] = IF i = n THEN p ELSE process_list[i + 1]
    BY <1>1, <1>4, <2>3
  <2> QED
    BY <1>4, <2>2, <2>3, <2>4, <2>5, <2>6
<1>6. \A i \in 2 .. n : process_list[i] # p /\ processed_time[process_list[i]] <= QUANTUM
  BY <1>1 DEF IsInjective, RInv, SchedInv, TailHadOneTurn
<1>11. n = Len(process_list) /\ runs = processed_time[p] + 1
  OBVIOUS
<1> HIDE DEF p, rest, last, n
<1>7. Ready' = IF runs = processing_time[p] THEN Ready \ {p} ELSE Ready
  BY <1>3, <1>4, <1>5 DEF Ready
<1>8. C!Run(p)
  BY <1>2, <1>3, <1>7, SameSimulator DEF C!Run
<1>9. /\ arrival_time' = arrival_time
      /\ processed_time' = [processed_time EXCEPT ![p] = @ + 1]
  BY <1>2, <1>3, ListedProcesses, SimulatorAssumption
     DEF Account, AccountUnit, AccountOverrun, Unfinished, workload, Idle
<1>12. HeadRan(p)
  <2>1. /\ AtGetNext /\ UNCHANGED <<workload, admitted>> /\ time' = time + 1
    BY <1>2, <1>3, SimulatorAssumption
       DEF Account, AccountUnit, AccountOverrun, Unfinished, Idle, NextTimeUnit
  <2>2. \/ runs = processing_time[p] /\ process_list' = rest
        \/ runs # processing_time[p] /\ runs = QUANTUM /\ process_list' = last
        \/ runs # processing_time[p] /\ runs # QUANTUM /\ process_list' = process_list
    BY <1>3
  <2> QED
    BY <1>1, <1>2, <1>4, <1>5, <1>9, <1>11, <2>1, <2>2 DEF HeadRan
<1>10. ASSUME C!IInv' PROVE SchedInv'
  <2>1. SimTypeOK'
    BY <1>10, SameSimulator DEF C!IInv, C!TypeOK, C!SimTypeOK, SimTypeOK
  <2>2. processed_time'[p] = runs /\ runs \in 0 .. TIMEOUT
    BY <1>2, <1>9, <2>1, ListedProcesses DEF SimTypeOK
  <2>3. process_list' \in Seq(Pids) /\ IsInjective(process_list')
    BY <1>1, <1>3, <1>4, <1>5
  <2>4. /\ node_processed_time' \in [Pids -> 0 .. TIMEOUT]
        /\ quantum_used' \in [Pids -> 0 .. TIMEOUT]
    BY <2>2, <1>2, <1>3 DEF RInv, SchedInv
  <2>5. \A q \in Ready : /\ node_processed_time'[q] = processed_time'[q]
                        /\ quantum_used'[q] = processed_time'[q]
    BY <1>2, <1>3, <1>9, ListedProcesses DEF RInv, SchedInv, SimTypeOK
  <2>6. \A q \in Ready' : /\ node_processed_time'[q] = processed_time'[q]
                         /\ quantum_used'[q] = processed_time'[q]
    BY <2>5, <1>7
  <2>7. \A i \in 2 .. n : processed_time'[process_list[i]] <= QUANTUM
    <3> SUFFICES ASSUME NEW i \in 2 .. n
                 PROVE  processed_time'[process_list[i]] <= QUANTUM
      OBVIOUS
    <3>1. process_list[i] \in Pids
      BY <1>1 DEF n
    <3>2. processed_time'[process_list[i]] = processed_time[process_list[i]]
      BY <3>1, <1>6, <1>9, ListedProcesses DEF SimTypeOK
    <3> QED
      BY <3>2, <1>6
  <2>8. TailHadOneTurn'
    <3>1. CASE runs = processing_time[p]
      <4>1. process_list' = rest
        BY <3>1, <1>3
      <4>2. \A i \in 2 .. n - 1 : i + 1 \in 2 .. n /\ rest[i] = process_list[i + 1]
        BY <1>1, <1>4
      <4>3. \A i \in 2 .. Len(rest) : processed_time'[rest[i]] <= QUANTUM
        BY <4>2, <2>7, <1>4
      <4> QED
        BY <4>1, <4>3 DEF TailHadOneTurn
    <3>2. CASE runs # processing_time[p] /\ runs = QUANTUM
      <4>1. process_list' = last
        BY <3>2, <1>3
      <4>2. \A i \in 2 .. n : i # n => i + 1 \in 2 .. n /\ last[i] = process_list[i + 1]
        BY <1>1, <1>5
      <4>3. \A i \in 2 .. n : i = n => last[i] = p
        BY <1>1, <1>5
      <4>4. \A i \in 2 .. n : processed_time'[last[i]] <= QUANTUM
        <5> SUFFICES ASSUME NEW i \in 2 .. n PROVE processed_time'[last[i]] <= QUANTUM
          OBVIOUS
        <5>1. CASE i = n
          BY <5>1, <4>3, <3>2, <2>2, QuantumAssumption
        <5>2. CASE i # n
          BY <5>2, <4>2, <2>7
        <5> QED
          BY <5>1, <5>2
      <4> QED
        BY <4>1, <4>4, <1>5 DEF TailHadOneTurn
    <3>3. CASE runs # processing_time[p] /\ runs # QUANTUM
      BY <3>3, <2>7, <1>3 DEF TailHadOneTurn, n
    <3> QED
      BY <3>1, <3>2, <3>3
  <2> QED
    BY <2>3, <2>4, <2>6, <2>8 DEF SchedInv
<1> QED
  BY <1>2, <1>8, <1>10, <1>12

(* Every step of the program is a step of the contract, or changes nothing *)
(* the contract speaks of, and keeps the invariant.                        *)
LEMMA StepRefines ==
  ASSUME RInv, [Next]_vars
  PROVE  [C!Next]_(C!vars) /\ RInv'
<1>1. CASE (EnterIteration \/ LeaveLoop) /\ UNCHANGED schedVars
  <2>1. Ready' = Ready
    BY <1>1 DEF Ready, schedVars
  <2>2. C!Next
    BY <1>1, <2>1, SameSimulator DEF C!Next
  <2>3. C!IInv'
    BY <2>2, C!NextKeepsInv, SimulatorAssumption, ContractAssumption DEF RInv
  <2>4. processed_time' = processed_time
    BY <1>1 DEF EnterIteration, LeaveLoop, workload, accounts
  <2>5. SchedInv'
    BY <1>1, <2>1, <2>4 DEF RInv, SchedInv, TailHadOneTurn, schedVars
  <2> QED
    BY <2>2, <2>3, <2>5 DEF RInv
<1>2. CASE \E p \in Pids : add_to_ready_queue(p)
  <2>1. PICK p \in Pids : add_to_ready_queue(p)
    BY <1>2
  <2>2. C!Next /\ SchedInv'
    BY <2>1, AddRefines DEF C!Next
  <2> QED
    BY <2>2, C!NextKeepsInv, SimulatorAssumption, ContractAssumption DEF RInv
<1>3. CASE ScheduleHead
  <2>1. C!Next
    BY <1>3, ScheduleHeadRefines DEF C!Next
  <2>2. C!IInv'
    BY <2>1, C!NextKeepsInv, SimulatorAssumption, ContractAssumption DEF RInv
  <2> QED
    BY <1>3, <2>1, <2>2, ScheduleHeadRefines DEF RInv
<1>4. CASE ScheduleNone
  <2>1. process_list = <<>> /\ Ready = {} /\ Ready' = Ready
    BY <1>4 DEF ScheduleNone, schedVars, Ready, ToSet
  <2>2. C!RunNone
    BY <1>4, <2>1, SameSimulator DEF ScheduleNone, C!RunNone, C!Idle, Idle
  <2>3. C!Next /\ C!IInv'
    BY <2>2, C!NextKeepsInv, SimulatorAssumption, ContractAssumption DEF C!Next, RInv
  <2>4. processed_time' = processed_time
    BY <1>4, SimulatorAssumption
       DEF ScheduleNone, Account, AccountIdle, AccountUnit, AccountOverrun, AccountUnknown, accounts, Idle
  <2>5. SchedInv'
    BY <1>4, <2>1, <2>4 DEF ScheduleNone, RInv, SchedInv, TailHadOneTurn, schedVars
  <2> QED
    BY <2>3, <2>5 DEF RInv
<1>5. CASE UNCHANGED vars
  <2>1. UNCHANGED C!vars
    BY <1>5 DEF vars, simVars, schedVars, C!vars, C!simVars, Ready
  <2>2. C!IInv'
    BY <2>1, C!NextKeepsInv, SimulatorAssumption, ContractAssumption DEF RInv
  <2>3. SchedInv'
    BY <1>5 DEF vars, simVars, schedVars, RInv, SchedInv, TailHadOneTurn, Ready
  <2> QED
    BY <2>1, <2>2, <2>3 DEF RInv
<1> QED
  BY <1>1, <1>2, <1>3, <1>4, <1>5 DEF Next, get_next_scheduled_process

-----------------------------------------------------------------------------
(* The order of the turns.                                                 *)
Places == 1 .. Len(process_list)

(* Behind the head, a process has had no turn or a whole one.              *)
TailBetweenTurns ==
  \A i \in Places : i > 1 => processed_time[process_list[i]] \in {0, QUANTUM}

(* Of two processes that have had no turn, or one, the first on the list   *)
(* is the one that arrived first.                                          *)
SameTurnsInOrder ==
  \A i, j \in Places :
    /\ i < j
    /\ processed_time[process_list[i]] = processed_time[process_list[j]]
    /\ processed_time[process_list[i]] \in {0, QUANTUM}
    => Before(process_list[i], process_list[j])

(* Whoever follows a process that arrives now arrives now.                 *)
NewOnesLast ==
  \A i, j \in Places :
    i < j /\ arrival_time[process_list[i]] = time => arrival_time[process_list[j]] = time

TurnInv == TailBetweenTurns /\ SameTurnsInOrder /\ NewOnesLast /\ FirstTurnsComplete

(* A process has had its whole first turn.                                 *)
FirstTurnDone(p) == QUANTUM <= processed_time[p] \/ processing_time[p] <= processed_time[p]

(* What the invariant says of a process.                                   *)
LEMMA ProcessFacts ==
  ASSUME RInv, NEW p \in Pids
  PROVE  /\ p \in Nat /\ QUANTUM \in Nat /\ 0 < QUANTUM
         /\ arrival_time[p] \in Nat /\ processing_time[p] \in Nat
         /\ processed_time[p] \in Nat /\ time \in Nat
         /\ p \in admitted => arrival_time[p] <= time
         /\ AtGetNext /\ arrival_time[p] <= time => p \in admitted
         /\ arrival_time[p] = time => processed_time[p] = 0
         /\ p \in Ready <=> p \in admitted /\ Unfinished(p)
<1>1. C!SimTypeOK /\ C!AdmissionInv /\ C!ElapsedCoversService
  BY DEF RInv, C!IInv, C!TypeOK
<1>2. /\ arrival_time[p] \in Nat /\ processing_time[p] \in Nat
      /\ processed_time[p] \in Nat /\ time \in Nat /\ p \in Nat
  BY <1>1, C!WorkloadBounds, SimulatorAssumption, ContractAssumption
<1>3. /\ p \in admitted => arrival_time[p] <= time
      /\ pc # "done" /\ arrival_time[p] < time => p \in admitted
  BY <1>1 DEF C!AdmissionInv
<1>4. AtGetNext /\ arrival_time[p] <= time => p \in admitted
  BY <1>2, <1>3 DEF AtGetNext, Due
<1>5. arrival_time[p] = time => processed_time[p] = 0
  <2>1. processed_time[p] > 0 => arrival_time[p] + processed_time[p] <= time
    BY <1>1 DEF C!ElapsedCoversService
  <2> QED
    BY <2>1, <1>2
<1>6. p \in Ready <=> p \in admitted /\ Unfinished(p)
  BY ListedProcesses
<1> QED
  BY <1>2, <1>3, <1>4, <1>5, <1>6, QuantumAssumption

(* The processes on the list.                                              *)
LEMMA PlaceFacts ==
  ASSUME RInv
  PROVE  /\ Len(process_list) \in Nat
         /\ \A i \in Places : process_list[i] \in Pids /\ process_list[i] \in Ready
         /\ \A i, j \in Places : process_list[i] = process_list[j] => i = j
         /\ \A p \in Ready : \E i \in Places : process_list[i] = p
<1>1. process_list \in Seq(Pids) /\ IsInjective(process_list)
  BY DEF RInv, SchedInv
<1>2. Len(process_list) \in Nat /\ Places = DOMAIN process_list
  BY <1>1 DEF Places
<1> QED
  BY <1>1, <1>2 DEF IsInjective, Ready, ToSet

(* The property's minimum, as two comparisons.                             *)
LEMMA TurnByMinimum ==
  ASSUME NEW needed \in Nat, NEW had \in Nat
  PROVE  had >= Min({QUANTUM, needed}) <=> QUANTUM <= had \/ needed <= had
<1>1. QUANTUM \in Nat
  BY QuantumAssumption
<1>2. \A a, b \in Nat : Min({a, b}) = IF a <= b THEN a ELSE b
  BY MinOfTwo
<1>3. Min({QUANTUM, needed}) = IF QUANTUM <= needed THEN QUANTUM ELSE needed
  BY <1>1, <1>2, Zenon
<1> QED
  BY <1>1, <1>3

(* The order of arrival is strict and total.                               *)
LEMMA BeforeOrder ==
  ASSUME RInv, NEW p \in Pids, NEW q \in Pids
  PROVE  ~(Before(p, q) /\ Before(q, p)) /\ (Before(p, q) \/ p = q \/ Before(q, p))
<1>1. /\ p \in Nat /\ arrival_time[p] \in Nat
      /\ q \in Nat /\ arrival_time[q] \in Nat
  BY ProcessFacts
<1> QED
  BY <1>1 DEF Before

(* The turn the head gets is its turn: when it starts on the first one,    *)
(* everybody before it has had theirs; when it ends the first one, those   *)
(* on the list who have had one are before it.                             *)
LEMMA HeadIsNext ==
  ASSUME RInv, TurnInv, NEW h, HeadRan(h)
  PROVE  /\ h \in Pids /\ 1 \in Places /\ process_list[1] = h
         /\ processed_time[h] = 0 => \A p \in Pids : Before(p, h) => FirstTurnDone(p)
         /\ processed_time[h] < QUANTUM =>
              \A i \in Places : processed_time[process_list[i]] = QUANTUM
                                  => Before(process_list[i], h)
<1>1. process_list # <<>> /\ h = process_list[1] /\ h \in Ready /\ AtGetNext
  BY DEF HeadRan
<1>2. h \in Pids /\ 1 \in Places /\ process_list[1] = h
  <2>1. process_list \in Seq(Pids)
    BY DEF RInv, SchedInv
  <2> QED
    BY <1>1, <2>1, PlaceFacts DEF Places
<1>3. ASSUME processed_time[h] = 0, NEW p \in Pids, Before(p, h)
      PROVE  FirstTurnDone(p)
  <2>1. /\ arrival_time[p] \in Nat /\ arrival_time[h] \in Nat /\ time \in Nat
        /\ processed_time[p] \in Nat /\ processing_time[p] \in Nat
        /\ arrival_time[h] <= time
    BY <1>1, <1>2, ProcessFacts
  <2>2. arrival_time[p] <= time
    BY <1>3, <2>1 DEF Before
  <2>3. p \in admitted
    BY <1>1, <2>2, ProcessFacts
  <2>4. CASE ~Unfinished(p)
    BY <2>1, <2>4 DEF Unfinished, FirstTurnDone
  <2>5. CASE Unfinished(p)
    <3>1. p \in Ready
      BY <2>3, <2>5, ProcessFacts
    <3>2. PICK i \in Places : process_list[i] = p
      BY <3>1, PlaceFacts
    <3>3. ~Before(h, p) /\ p # h
      BY <1>2, <1>3, BeforeOrder
    <3>4. i > 1
      BY <1>2, <3>2, <3>3, PlaceFacts DEF Places
    <3>5. processed_time[p] \in {0, QUANTUM}
      BY <3>2, <3>4 DEF TurnInv, TailBetweenTurns
    <3>6. processed_time[p] # 0
      BY <1>2, <1>3, <3>2, <3>3, <3>4 DEF TurnInv, SameTurnsInOrder
    <3> QED
      BY <3>5, <3>6, <2>1 DEF FirstTurnDone
  <2> QED
    BY <2>4, <2>5
<1>4. ASSUME processed_time[h] < QUANTUM, NEW i \in Places,
             processed_time[process_list[i]] = QUANTUM
      PROVE  Before(process_list[i], h)
  <2>1. process_list[i] \in Pids /\ process_list[i] # h
    BY <1>4, PlaceFacts, QuantumAssumption
  <2>2. /\ processed_time[h] \in Nat /\ processing_time[h] \in Nat
        /\ QUANTUM \in Nat /\ 0 < QUANTUM /\ Unfinished(h)
    BY <1>1, <1>2, ProcessFacts
  <2>3. ~FirstTurnDone(h)
    BY <1>4, <2>2 DEF FirstTurnDone, Unfinished
  <2>4. ~Before(h, process_list[i])
    <3>1. Before(h, process_list[i]) /\ processed_time[process_list[i]] > 0
            => processed_time[h] >= Min({QUANTUM, processing_time[h]})
      BY <1>2, <2>1 DEF TurnInv, FirstTurnsComplete
    <3> QED
      BY <3>1, <1>4, <2>2, <2>3, TurnByMinimum DEF FirstTurnDone
  <2> QED
    BY <1>2, <2>1, <2>4, BeforeOrder
<1> QED
  BY <1>2, <1>3, <1>4

(* The unit given to the head keeps the order of the turns.                *)
LEMMA RunKeepsTurns ==
  ASSUME RInv, RInv', TurnInv, NEW h, HeadRan(h)
  PROVE  TurnInv'
<1> DEFINE new == process_list'
           n == Len(process_list)
           runs == processed_time[h] + 1
           had == processed_time'
<1>1. /\ h \in Pids /\ 1 \in Places /\ process_list[1] = h /\ h \in Ready
      /\ arrival_time' = arrival_time /\ processing_time' = processing_time
      /\ time' = time + 1 /\ had = [processed_time EXCEPT ![h] = @ + 1]
  BY HeadIsNext DEF HeadRan, workload
<1>2. /\ processed_time \in [Pids -> 0 .. TIMEOUT] /\ n \in Nat
      /\ runs \in Nat /\ 0 < runs /\ QUANTUM \in Nat /\ 0 < QUANTUM
  <2>1. processed_time \in [Pids -> 0 .. TIMEOUT]
    BY ListedProcesses DEF SimTypeOK
  <2>2. processed_time[h] \in Nat /\ QUANTUM \in Nat /\ 0 < QUANTUM
    BY <1>1, ProcessFacts
  <2> QED
    BY <2>1, <2>2, PlaceFacts
<1>3. had[h] = runs /\ \A p \in Pids : p # h => had[p] = processed_time[p]
  BY <1>1, <1>2
<1>4. ASSUME NEW i \in Places, i > 1
      PROVE  process_list[i] \in Pids /\ had[process_list[i]] = processed_time[process_list[i]]
  BY <1>1, <1>3, <1>4, PlaceFacts
<1>5. \/ /\ Len(new) = n - 1
         /\ \A i \in 1 .. n - 1 : new[i] = process_list[i + 1]
      \/ /\ runs = QUANTUM /\ Len(new) = n
         /\ \A i \in 1 .. n : new[i] = IF i = n THEN h ELSE process_list[i + 1]
      \/ runs # QUANTUM /\ new = process_list
  BY DEF HeadRan
<1>6. Places' = 1 .. Len(new) /\ Places = 1 .. n
  BY DEF Places
<1> HIDE DEF new, n, runs, had
(* Where the process at place i of the new list was.                       *)
<1>7. PICK was \in [Places' -> Places] :
        /\ \A i \in Places' : new[i] = process_list[was[i]]
        /\ \/ \A i \in Places' : was[i] = i + 1
           \/ runs = QUANTUM /\ \A i \in Places' : was[i] = IF i = n THEN 1 ELSE i + 1
           \/ runs # QUANTUM /\ \A i \in Places' : was[i] = i
  <2>1. CASE /\ Len(new) = n - 1
             /\ \A i \in 1 .. n - 1 : new[i] = process_list[i + 1]
    <3> DEFINE was == [i \in Places' |-> i + 1]
    <3>1. was \in [Places' -> Places] /\ \A i \in Places' : was[i] = i + 1
      BY <2>1, <1>2, <1>6
    <3> HIDE DEF was
    <3> QED
      BY <3>1, <2>1, <1>6
  <2>2. CASE /\ runs = QUANTUM /\ Len(new) = n
             /\ \A i \in 1 .. n : new[i] = IF i = n THEN h ELSE process_list[i + 1]
    <3> DEFINE was == [i \in Places' |-> IF i = n THEN 1 ELSE i + 1]
    <3>1. was \in [Places' -> Places] /\ \A i \in Places' : was[i] = IF i = n THEN 1 ELSE i + 1
      BY <2>2, <1>1, <1>2, <1>6
    <3> HIDE DEF was
    <3> QED
      BY <3>1, <2>2, <1>1, <1>6
  <2>3. CASE runs # QUANTUM /\ new = process_list
    <3> DEFINE was == [i \in Places' |-> i]
    <3>1. was \in [Places' -> Places] /\ \A i \in Places' : was[i] = i
      BY <2>3, <1>6 DEF n
    <3> HIDE DEF was
    <3> QED
      BY <3>1, <2>3
  <2> QED
    BY <1>5, <2>1, <2>2, <2>3
<1>8. \A i \in Places' : was[i] \in Places /\ i \in Nat /\ i >= 1
  BY <1>6, <1>7
<1>9. ASSUME NEW i \in Places', i > 1 PROVE had[new[i]] \in {0, QUANTUM}
  <2>1. CASE was[i] > 1
    BY <2>1, <1>4, <1>7, <1>8 DEF TurnInv, TailBetweenTurns
  <2>2. CASE was[i] = 1
    BY <2>2, <1>1, <1>3, <1>7, <1>8, <1>9
  <2> QED
    BY <2>1, <2>2, <1>6, <1>8
<1>10. ASSUME NEW i \in Places', NEW j \in Places', i < j,
              had[new[i]] = had[new[j]], had[new[i]] \in {0, QUANTUM}
       PROVE  Before(new[i], new[j])
  <2>1. new[i] = process_list[was[i]] /\ new[j] = process_list[was[j]]
    BY <1>7
  <2>2. was[i] > 1
    <3> SUFFICES ASSUME ~(was[i] > 1) PROVE FALSE
      OBVIOUS
    <3>1. was[i] = 1
      BY <1>6, <1>8
    <3>2. runs # QUANTUM
      BY <3>1, <1>2, <1>6, <1>7, <1>8, <1>10
    <3> QED
      BY <3>1, <3>2, <2>1, <1>1, <1>2, <1>3, <1>10
  <2>3. CASE was[j] > 1
    <3>1. was[i] < was[j]
      BY <2>2, <2>3, <1>2, <1>7, <1>8, <1>10
    <3> QED
      BY <3>1, <2>1, <2>2, <2>3, <1>4, <1>8, <1>10 DEF TurnInv, SameTurnsInOrder
  <2>4. CASE was[j] = 1
    <3>1. runs = QUANTUM /\ new[j] = h
      BY <2>1, <2>4, <1>1, <1>7, <1>8, <1>10
    <3>2. processed_time[process_list[was[i]]] = QUANTUM
      BY <3>1, <2>1, <2>2, <1>3, <1>4, <1>8, <1>10
    <3>3. processed_time[h] < QUANTUM
      BY <3>1, <1>1, ProcessFacts DEF runs
    <3> QED
      BY <3>1, <3>2, <3>3, <2>1, <1>8, HeadIsNext
  <2> QED
    BY <2>3, <2>4, <1>6, <1>8
<1>11. \A i \in Places' : arrival_time[new[i]] # time + 1
  <2> SUFFICES ASSUME NEW i \in Places' PROVE arrival_time[new[i]] # time + 1
    OBVIOUS
  <2>1. new[i] \in Pids /\ new[i] \in Ready
    BY <1>7, <1>8, PlaceFacts
  <2> QED
    BY <2>1, ProcessFacts
<1>12. ASSUME NEW p \in Pids, NEW q \in Pids, Before(p, q), had[q] > 0
       PROVE  FirstTurnDone(p)'
  <2>1. FirstTurnDone(p)
    <3>1. CASE processed_time[q] > 0
      <4>1. processed_time[p] >= Min({QUANTUM, processing_time[p]})
        BY <3>1, <1>12 DEF TurnInv, FirstTurnsComplete
      <4> QED
        BY <4>1, ProcessFacts, TurnByMinimum DEF FirstTurnDone
    <3>2. CASE ~(processed_time[q] > 0)
      <4>1. q = h /\ processed_time[q] = 0
        BY <3>2, <1>3, <1>12, ProcessFacts
      <4> QED
        BY <4>1, <1>12, HeadIsNext
    <3> QED
      BY <3>1, <3>2
  <2>2. had[p] >= processed_time[p] /\ had[p] \in Nat
    BY <1>3, ProcessFacts DEF runs
  <2>3. /\ QUANTUM \in Nat /\ processed_time[p] \in Nat /\ processing_time[p] \in Nat
    BY ProcessFacts
  <2> QED
    BY <2>1, <2>2, <2>3, <1>1 DEF FirstTurnDone, had
<1>13. FirstTurnsComplete'
  <2>1. ASSUME NEW p \in Pids, NEW q \in Pids, Before(p, q), had[q] > 0
        PROVE  had[p] >= Min({QUANTUM, processing_time[p]})
    <3>1. QUANTUM <= had[p] \/ processing_time[p] <= had[p]
      BY <2>1, <1>1, <1>12 DEF FirstTurnDone, had
    <3>2. had[p] \in Nat /\ processing_time[p] \in Nat
      BY <1>3, ProcessFacts DEF runs
    <3> QED
      BY <3>1, <3>2, TurnByMinimum
  <2> QED
    BY <2>1, <1>1 DEF FirstTurnsComplete, Before, had
<1> QED
  BY <1>1, <1>9, <1>10, <1>11, <1>13
     DEF TurnInv, TailBetweenTurns, SameTurnsInOrder, NewOnesLast, Before, new, had

(* A new process is put where it belongs: behind those who arrived         *)
(* earlier, all of whom are on the list before those who arrive now.       *)
LEMMA AddKeepsTurns ==
  ASSUME RInv, RInv', TurnInv, NEW p \in Pids, add_to_ready_queue(p)
  PROVE  TurnInv'
<1> DEFINE new == process_list'
           n == Len(process_list)
           old(i, end) == IF i <= end THEN i ELSE i - 1
<1>1. /\ p \notin admitted /\ p \notin Ready /\ arrival_time[p] = time
      /\ UNCHANGED <<arrival_time, processing_time, processed_time, time>>
      /\ new = SortedInsert(process_list, p, arrival_time)
  BY ListedProcesses DEF add_to_ready_queue, Admit, Due, workload, accounts
<1>2. /\ process_list \in Seq(Pids) /\ n \in Nat /\ Places = 1 .. n /\ processed_time[p] = 0
      /\ p \notin ToSet(process_list)
  BY <1>1, PlaceFacts, ProcessFacts DEF RInv, SchedInv, Places, Ready
<1>3. ASSUME NEW i \in Places
      PROVE  /\ process_list[i] \in Pids
             /\ arrival_time[process_list[i]] <= time
             /\ arrival_time[process_list[i]] = time => processed_time[process_list[i]] = 0
  BY PlaceFacts, ProcessFacts
<1>4. ASSUME NEW i \in Places, NEW j \in Places, i < j, arrival_time[process_list[i]] = time
      PROVE  arrival_time[process_list[j]] = time /\ process_list[i] < process_list[j]
  <2>1. arrival_time[process_list[j]] = time
    BY <1>4 DEF TurnInv, NewOnesLast
  <2>2. Before(process_list[i], process_list[j])
    BY <2>1, <1>3, <1>4 DEF TurnInv, SameTurnsInOrder
  <2> QED
    BY <2>1, <2>2, <1>3, <1>4, ProcessFacts DEF Before
<1>5. \E end \in 0 .. n :
        /\ new = add_next(process_list, end, p)
        /\ \A i \in 1 .. end : Precedes(process_list[i], p, arrival_time)
        /\ \A i \in end + 1 .. n :
             arrival_time[process_list[i]] = arrival_time[p] /\ p < process_list[i]
  <2>1. Pids \subseteq Nat /\ arrival_time \in [Pids -> Nat]
    BY ListedProcesses
  <2>2. LatestAreLast(process_list, p, arrival_time)
    BY <1>1, <1>2, <1>3, <1>4 DEF LatestAreLast
  <2>3. PutInOrder(process_list, p, arrival_time)
    BY <1>2, <2>1, <2>2, InsertionAmongLatest
  <2> HIDE DEF new
  <2> QED
    BY <1>1, <2>3 DEF PutInOrder
<1>6. PICK end \in 0 .. n :
        /\ new = add_next(process_list, end, p)
        /\ \A i \in 1 .. end : Before(process_list[i], p)
        /\ \A i \in end + 1 .. n :
             Before(p, process_list[i]) /\ arrival_time[process_list[i]] = time
  <2>1. \A q : Precedes(q, p, arrival_time) => Before(q, p)
    BY DEF Precedes, Before
  <2>2. \A q : arrival_time[q] = arrival_time[p] /\ p < q => Before(p, q)
    BY DEF Before
  <2> HIDE DEF new, n
  <2> QED
    BY <1>1, <1>5, <2>1, <2>2
<1>7. /\ Len(new) = n + 1
      /\ \A i \in 1 .. n + 1 :
           new[i] = IF i <= end THEN process_list[i]
                    ELSE IF i = end + 1 THEN p ELSE process_list[i - 1]
  <2>1. \A e \in 0 .. Len(process_list) :
          /\ Len(add_next(process_list, e, p)) = Len(process_list) + 1
          /\ \A i \in 1 .. Len(process_list) + 1 :
               add_next(process_list, e, p)[i] =
                 IF i <= e THEN process_list[i]
                 ELSE IF i = e + 1 THEN p ELSE process_list[i - 1]
    BY <1>2, AddNext
  <2> HIDE DEF new
  <2> QED
    BY <1>6, <2>1, Zenon
<1>8. Places' = 1 .. n + 1
  BY <1>7 DEF Places
<1> HIDE DEF new, n
<1>9. new[end + 1] = p
  BY <1>2, <1>6, <1>7
<1>10. ASSUME NEW i \in Places', i # end + 1
       PROVE  /\ old(i, end) \in Places /\ new[i] = process_list[old(i, end)]
              /\ i < end + 1 => old(i, end) \in 1 .. end
              /\ end + 1 < i => old(i, end) \in end + 1 .. n
  BY <1>2, <1>6, <1>7, <1>8, <1>10
<1>11. \A i, j \in Places' : i < j /\ i # end + 1 /\ j # end + 1 => old(i, end) < old(j, end)
  BY <1>2, <1>6, <1>8
<1>12. \A i \in Places' : i > 1 /\ i # end + 1 /\ ~(old(i, end) > 1) => end = 0 /\ old(i, end) = 1
  BY <1>2, <1>6, <1>8
<1> HIDE DEF old
<1>13. ASSUME NEW i \in Places', i > 1 PROVE processed_time[new[i]] \in {0, QUANTUM}
  <2>1. CASE i = end + 1
    BY <2>1, <1>2, <1>9
  <2>2. CASE i # end + 1 /\ old(i, end) > 1
    BY <2>2, <1>10 DEF TurnInv, TailBetweenTurns
  <2>3. CASE i # end + 1 /\ ~(old(i, end) > 1)
    <3>1. end = 0 /\ old(i, end) = 1
      BY <2>3, <1>12, <1>13
    <3>2. arrival_time[process_list[old(i, end)]] = time
      BY <3>1, <2>3, <1>2, <1>6, <1>10
    <3> QED
      BY <3>2, <2>3, <1>3, <1>10
  <2> QED
    BY <2>1, <2>2, <2>3
<1>14. ASSUME NEW i \in Places', NEW j \in Places', i < j,
              processed_time[new[i]] = processed_time[new[j]],
              processed_time[new[i]] \in {0, QUANTUM}
       PROVE  Before(new[i], new[j])
  <2>0. i \in Nat /\ j \in Nat /\ end \in Nat
    BY <1>6, <1>8
  <2>1. CASE i = end + 1
    BY <2>0, <2>1, <1>6, <1>9, <1>10, <1>14
  <2>2. CASE j = end + 1
    BY <2>0, <2>2, <1>6, <1>9, <1>10, <1>14
  <2>3. CASE i # end + 1 /\ j # end + 1
    BY <2>3, <1>10, <1>11, <1>14 DEF TurnInv, SameTurnsInOrder
  <2> QED
    BY <2>1, <2>2, <2>3
<1>15. ASSUME NEW i \in Places', NEW j \in Places', i < j, arrival_time[new[i]] = time
       PROVE  arrival_time[new[j]] = time
  <2>0. i \in Nat /\ j \in Nat /\ end \in Nat
    BY <1>6, <1>8
  <2>1. CASE i = end + 1
    BY <2>0, <2>1, <1>6, <1>10, <1>15
  <2>2. CASE j = end + 1
    BY <2>2, <1>1, <1>9
  <2>3. CASE i # end + 1 /\ j # end + 1
    BY <2>3, <1>10, <1>11, <1>15 DEF TurnInv, NewOnesLast
  <2> QED
    BY <2>1, <2>2, <2>3
<1>16. FirstTurnsComplete'
  BY <1>1 DEF TurnInv, FirstTurnsComplete, Before
<1> QED
  BY <1>1, <1>13, <1>14, <1>15, <1>16
     DEF TurnInv, TailBetweenTurns, SameTurnsInOrder, NewOnesLast, Before, new

(* Every step keeps the order of the turns.                                *)
LEMMA StepKeepsTurns ==
  ASSUME RInv, RInv', TurnInv, [Next]_vars
  PROVE  TurnInv'
<1>1. CASE (EnterIteration \/ LeaveLoop) /\ UNCHANGED schedVars
  BY <1>1 DEF EnterIteration, LeaveLoop, workload, accounts, schedVars, TurnInv, Places,
              TailBetweenTurns, SameTurnsInOrder, NewOnesLast, FirstTurnsComplete, Before
<1>2. CASE \E p \in Pids : add_to_ready_queue(p)
  BY <1>2, AddKeepsTurns
<1>3. CASE ScheduleHead
  BY <1>3, ScheduleHeadRefines, RunKeepsTurns
<1>4. CASE ScheduleNone
  <2>1. process_list' = <<>>
    BY <1>4 DEF ScheduleNone, schedVars
  <2>2. Places' = {}
    BY <2>1 DEF Places
  <2>3. UNCHANGED <<arrival_time, processing_time, processed_time>>
    BY <1>4, SimulatorAssumption
       DEF ScheduleNone, Account, AccountIdle, AccountUnit, AccountOverrun, AccountUnknown,
           accounts, workload, Idle
  <2>4. FirstTurnsComplete'
    BY <2>3 DEF TurnInv, FirstTurnsComplete, Before
  <2> QED
    BY <2>2, <2>4 DEF TurnInv, TailBetweenTurns, SameTurnsInOrder, NewOnesLast
<1>5. CASE UNCHANGED vars
  BY <1>5 DEF vars, simVars, schedVars, TurnInv, Places,
              TailBetweenTurns, SameTurnsInOrder, NewOnesLast, FirstTurnsComplete, Before
<1> QED
  BY <1>1, <1>2, <1>3, <1>4, <1>5 DEF Next, get_next_scheduled_process

(* Before anything has arrived nobody has had a turn.                      *)
LEMMA InitTurnInv == Init => TurnInv
<1> SUFFICES ASSUME Init PROVE TurnInv
  OBVIOUS
<1>1. Places = {} /\ \A p \in Pids : processed_time[p] = 0
  BY DEF Init, SimInit, Places
<1> QED
  BY <1>1 DEF TurnInv, TailBetweenTurns, SameTurnsInOrder, NewOnesLast, FirstTurnsComplete

-----------------------------------------------------------------------------
(* The invariant holds throughout.                                         *)
THEOREM Invariance == Spec => []RInv
  BY InitRInv, StepRefines, PTL DEF Spec

(* rr.c implements the contract (its safety part; that the simulation      *)
(* ends is checked by TLC).                                                *)
THEOREM RoundRobinKeepsContract == Spec => C!Spec
  BY InitRInv, StepRefines, PTL DEF Spec, C!Spec

(* The list repeats no process, and the counts of its nodes are the        *)
(* simulator's.                                                            *)
THEOREM ListIsFaithful == Spec => []ListFaithful
<1>1. RInv => ListFaithful
  BY ListedProcesses DEF RInv, SchedInv, ListFaithful, TypeOK
<1> QED
  BY <1>1, Invariance, PTL

(* The order of the turns holds throughout.                                *)
THEOREM TurnInvariance == Spec => []TurnInv
<1>1. RInv /\ RInv' /\ TurnInv /\ [Next]_vars => TurnInv'
  BY StepKeepsTurns
<1> QED
  BY <1>1, InitTurnInv, Invariance, PTL DEF Spec

(* Whoever waits behind the head has had no turn or one, and those with    *)
(* the same number of turns wait in the order of arrival time and PID,     *)
(* although nothing keeps the list sorted.                                 *)
THEOREM TailIsOrdered == Spec => []TurnsInArrivalOrder
<1>1. RInv /\ TurnInv => TurnsInArrivalOrder
  <2> SUFFICES ASSUME RInv, TurnInv,
                      NEW i \in 2 .. Len(process_list), NEW j \in 2 .. Len(process_list)
               PROVE  /\ processed_time[process_list[i]] \in {0, QUANTUM}
                      /\ i < j /\ processed_time[process_list[i]] = processed_time[process_list[j]]
                           => Before(process_list[i], process_list[j])
    BY DEF TurnsInArrivalOrder
  <2>1. i \in Places /\ j \in Places /\ i > 1
    BY PlaceFacts DEF Places
  <2> QED
    BY <2>1 DEF TurnInv, TailBetweenTurns, SameTurnsInOrder
<1> QED
  BY <1>1, Invariance, TurnInvariance, PTL

(* First turns are given in the order of arrival time and PID, and whole:  *)
(* a process that has run at all was preceded by a turn, of QUANTUM units  *)
(* or of all it needs, of everybody before it.                             *)
THEOREM FirstTurnsInOrder == Spec => []FirstTurnsComplete
<1>1. TurnInv => FirstTurnsComplete
  BY DEF TurnInv
<1> QED
  BY <1>1, TurnInvariance, PTL

(* A process that has had more than its first turn runs in every time unit *)
(* until it has finished: rr.c never sets quantum_used back to 0.          *)
THEOREM SecondTurnIsLast == Spec => SecondTurnRunsToCompletion
<1> DEFINE Runs == \A p \in Pids :
                     processed_time[p] > QUANTUM /\ Unfinished(p) /\ time' # time
                       => processed_time'[p] = processed_time[p] + 1
<1>1. RInv /\ [Next]_vars => [Runs]_vars
  <2> SUFFICES ASSUME RInv, Next, NEW p \in Pids,
                      processed_time[p] > QUANTUM, Unfinished(p), time' # time
               PROVE  processed_time'[p] = processed_time[p] + 1
    OBVIOUS
  <2>1. processed_time[p] # 0 /\ ~(processed_time[p] <= QUANTUM)
    BY ListedProcesses, QuantumAssumption DEF SimTypeOK
  <2>2. p \in admitted
    BY <2>1, SameSimulator DEF RInv, C!IInv, C!AdmissionInv
  <2>3. p \in Ready
    BY <2>2, ListedProcesses
  <2>4. process_list \in Seq(Pids) /\ process_list # <<>>
    BY <2>3 DEF RInv, SchedInv, Ready, ToSet
  <2>5. PICK i \in DOMAIN process_list : process_list[i] = p
    BY <2>3 DEF Ready, ToSet
  <2>6. i = 1
    <3>1. i \in 1 .. Len(process_list)
      BY <2>4, <2>5
    <3>2. i \notin 2 .. Len(process_list)
      BY <2>1, <2>5 DEF RInv, SchedInv, TailHadOneTurn
    <3> QED
      BY <3>1, <3>2
  <2>7. Head(process_list) = p
    BY <2>4, <2>5, <2>6
  <2>8. Account(p)
    <3>1. ~(\E q \in Pids : add_to_ready_queue(q)) /\ ~EnterIteration /\ ~LeaveLoop
      BY DEF add_to_ready_queue, Admit, EnterIteration, LeaveLoop
    <3>2. ScheduleHead
      BY <3>1, <2>4 DEF Next, get_next_scheduled_process, ScheduleNone
    <3> QED
      BY <3>2, <2>7 DEF ScheduleHead
  <2>9. processed_time' = [processed_time EXCEPT ![p] = @ + 1]
    BY <2>8, SimulatorAssumption
       DEF Account, AccountUnit, AccountOverrun, Idle
  <2> QED
    BY <2>9, ListedProcesses DEF SimTypeOK
<1> QED
  BY <1>1, Invariance, PTL DEF Spec, SecondTurnRunsToCompletion
=============================================================================
