-------------------------- MODULE ReadyContractProofs --------------------------
(***************************************************************************)
(* What every scheduler that keeps the contract gets, proved for any set   *)
(* of processes, any workload the loader accepts and any TIMEOUT.          *)
(*                                                                         *)
(* The safety properties are not inductive one by one: that the simulator  *)
(* never stops the scheduler rests on the ready queue being exact, the     *)
(* time bounds on processes being admitted at their arrival and not before *)
(* they can run.  IInv joins them.                                         *)
(***************************************************************************)
EXTENDS ReadyContract, OperatorProofs

(* The loop body is entered with time left, and a verdict is given at the  *)
(* end only.                                                               *)
ControlInv ==
  /\ pc = "body" => time < TIMEOUT
  /\ pc # "done" => result = "running"
  /\ result = "complete" => ~still_running

(* Processes are admitted when they arrive, and run only when admitted;    *)
(* nobody gets more than it needs.                                         *)
AdmissionInv ==
  \A p \in Pids :
    /\ p \in admitted => arrival_time[p] <= time
    /\ pc # "done" /\ arrival_time[p] < time => p \in admitted
    /\ p \notin admitted => processed_time[p] = 0
    /\ processed_time[p] <= processing_time[p]

IInv ==
  /\ TypeOK
  /\ ControlInv
  /\ AdmissionInv
  /\ ReadyExact
  /\ NeverStopped
  /\ ElapsedCoversService

-----------------------------------------------------------------------------
(* The loader's limits, as facts about one process: it arrives and ends    *)
(* its processing at natural numbers below TIMEOUT.                        *)
LEMMA WorkloadBounds ==
  ASSUME SimTypeOK, NEW p \in Pids
  PROVE  /\ arrival_time[p] \in Nat /\ arrival_time[p] < TIMEOUT
         /\ processing_time[p] \in Nat /\ 0 < processing_time[p]
         /\ processing_time[p] < TIMEOUT
         /\ processed_time[p] \in Nat /\ end_time[p] \in Nat
         /\ time \in Nat /\ TIMEOUT \in Nat
         /\ p \in Nat /\ p # Idle
<1>1. arrival_time[p] \in 0 .. TIMEOUT - 1 /\ processing_time[p] \in 1 .. TIMEOUT - 1
  BY SimulatorAssumption DEF SimTypeOK
<1>2. processed_time[p] \in 0 .. TIMEOUT /\ end_time[p] \in 0 .. TIMEOUT
  BY DEF SimTypeOK
<1>3. time \in 0 .. TIMEOUT /\ TIMEOUT \in Nat
  BY SimulatorAssumption DEF SimTypeOK
<1>4. p \in Nat /\ p # Idle
  BY SimulatorAssumption DEF Idle
<1> QED
  BY <1>1, <1>2, <1>3, <1>4

(* A workload is accepted, nothing has run: the invariant holds at first.  *)
LEMMA InitInv == Init => IInv
<1> SUFFICES ASSUME Init PROVE IInv
  OBVIOUS
<1> USE SimulatorAssumption DEF Init, SimInit
<1>1. TypeOK
  BY DEF TypeOK, SimTypeOK
<1>2. ControlInv
  BY DEF ControlInv
<1>3. AdmissionInv
  BY <1>1, WorkloadBounds DEF AdmissionInv, TypeOK
<1>4. ReadyExact /\ NeverStopped
  BY DEF ReadyExact, NeverStopped
<1>5. ElapsedCoversService
  BY <1>1, WorkloadBounds DEF ElapsedCoversService, Unfinished, TypeOK
<1> QED
  BY <1>1, <1>2, <1>3, <1>4, <1>5 DEF IInv

(* The loop test.                                                          *)
LEMMA LoopTestKeepsInv ==
  ASSUME IInv, EnterIteration \/ LeaveLoop, UNCHANGED ready
  PROVE  IInv'
<1> USE DEF EnterIteration, LeaveLoop, workload, accounts
<1>1. TypeOK'
  BY DEF IInv, TypeOK, SimTypeOK
<1>2. ControlInv'
  BY DEF IInv, ControlInv, still_running, Unfinished
<1>3. AdmissionInv'
  BY DEF IInv, AdmissionInv
<1>4. ReadyExact' /\ NeverStopped'
  BY DEF IInv, ReadyExact, NeverStopped, Unfinished
<1>5. ElapsedCoversService'
  BY DEF IInv, ElapsedCoversService, Unfinished
<1> QED
  BY <1>1, <1>2, <1>3, <1>4, <1>5 DEF IInv

(* An arrival.                                                             *)
LEMMA AddKeepsInv ==
  ASSUME IInv, NEW p \in Pids, Add(p)
  PROVE  IInv'
<1> USE DEF Add, Admit, workload, accounts, Due
<1>1. TypeOK'
  BY DEF IInv, TypeOK, SimTypeOK
<1>2. ControlInv'
  BY DEF IInv, ControlInv, still_running, Unfinished
<1>3. AdmissionInv'
  BY WorkloadBounds DEF IInv, TypeOK, AdmissionInv
<1>4. ReadyExact'
  <2>1. processed_time[p] = 0 /\ Unfinished(p)
    BY WorkloadBounds DEF IInv, TypeOK, AdmissionInv, Unfinished
  <2> QED
    BY <2>1 DEF IInv, ReadyExact, Unfinished
<1>5. NeverStopped' /\ ElapsedCoversService'
  BY DEF IInv, NeverStopped, ElapsedCoversService, Unfinished
<1> QED
  BY <1>1, <1>2, <1>3, <1>4, <1>5 DEF IInv

(* When get_next_scheduled_process is called, every process whose arrival  *)
(* time has come has been admitted.                                        *)
LEMMA AllArrivedAdmitted ==
  ASSUME IInv, AtGetNext, NEW p \in Pids, arrival_time[p] <= time
  PROVE  p \in admitted
  BY WorkloadBounds DEF IInv, TypeOK, AdmissionInv, AtGetNext, Due

(* Handing over a time unit to a ready process is an AccountUnit step: the *)
(* process is unfinished, so that the simulator has nothing to complain of.*)
LEMMA RunIsUnit ==
  ASSUME IInv, NEW p \in Pids, Run(p)
  PROVE  /\ p \in admitted /\ Unfinished(p)
         /\ AtGetNext /\ AccountUnit(p)
         /\ UNCHANGED <<workload, admitted>>
<1>1. p \in admitted /\ Unfinished(p)
  BY DEF IInv, ReadyExact, Run
<1>2. p # Idle
  BY WorkloadBounds DEF IInv, TypeOK
<1> QED
  BY <1>1, <1>2 DEF Run, Account, AccountOverrun

(* A time unit given to a ready process.                                   *)
LEMMA RunKeepsInv ==
  ASSUME IInv, NEW p \in Pids, Run(p)
  PROVE  IInv'
<1>0. /\ p \in admitted /\ Unfinished(p)
      /\ AtGetNext /\ AccountUnit(p)
      /\ UNCHANGED <<workload, admitted>>
  BY RunIsUnit
<1>a. /\ pc = "body" /\ pc' = "loop" /\ time' = time + 1 /\ result' = result
      /\ arrival_time' = arrival_time /\ processing_time' = processing_time
      /\ admitted' = admitted
      /\ processed_time' = [processed_time EXCEPT ![p] = @ + 1]
      /\ end_time' = IF processed_time[p] + 1 = processing_time[p]
                     THEN [end_time EXCEPT ![p] = time] ELSE end_time
      /\ ready' = IF processed_time[p] + 1 = processing_time[p]
                  THEN ready \ {p} ELSE ready
  BY <1>0 DEF AtGetNext, AccountUnit, NextTimeUnit, workload, Run
<1>b. time < TIMEOUT /\ result = "running" /\ SimTypeOK
  BY <1>a DEF IInv, ControlInv, TypeOK
<1>c. processed_time[p] < processing_time[p] /\ arrival_time[p] <= time
  BY <1>0 DEF Unfinished, IInv, AdmissionInv
<1>1. TypeOK'
  <2>1. processed_time[p] + 1 \in 0 .. TIMEOUT /\ time' \in 0 .. TIMEOUT
    BY <1>a, <1>b, <1>c, WorkloadBounds
  <2>2. processed_time' \in [Pids -> 0 .. TIMEOUT]
    BY <2>1, <1>a, <1>b DEF SimTypeOK
  <2>3. end_time' \in [Pids -> 0 .. TIMEOUT]
    BY <1>a, <1>b, SimulatorAssumption DEF SimTypeOK
  <2>4. ready' \subseteq Pids
    BY <1>a DEF IInv, TypeOK
  <2> QED
    BY <2>1, <2>2, <2>3, <2>4, <1>a, <1>b DEF TypeOK, SimTypeOK
<1>2. ControlInv'
  BY <1>a, <1>b DEF ControlInv
<1>d. \A q \in Pids :
        processed_time'[q] = IF q = p THEN processed_time[p] + 1 ELSE processed_time[q]
  BY <1>a, <1>b DEF SimTypeOK
<1>3. AdmissionInv'
  <2> SUFFICES ASSUME NEW q \in Pids
               PROVE  /\ q \in admitted' => arrival_time'[q] <= time'
                      /\ pc' # "done" /\ arrival_time'[q] < time' => q \in admitted'
                      /\ q \notin admitted' => processed_time'[q] = 0
                      /\ processed_time'[q] <= processing_time'[q]
    BY DEF AdmissionInv
  <2>1. q \in admitted' => arrival_time'[q] <= time'
    BY <1>a, <1>b, WorkloadBounds DEF IInv, AdmissionInv
  <2>2. pc' # "done" /\ arrival_time'[q] < time' => q \in admitted'
    BY <1>0, <1>a, <1>b, AllArrivedAdmitted, WorkloadBounds
  <2>3. q \notin admitted' => processed_time'[q] = 0
    BY <1>0, <1>a, <1>d DEF IInv, AdmissionInv
  <2>4. processed_time'[q] <= processing_time'[q]
    BY <1>a, <1>b, <1>c, <1>d, WorkloadBounds DEF IInv, AdmissionInv
  <2> QED
    BY <2>1, <2>2, <2>3, <2>4
<1>4. ReadyExact'
  <2>1. \A q \in Pids \ {p} : Unfinished(q)' <=> Unfinished(q)
    BY <1>a, <1>d DEF Unfinished
  <2>2. Unfinished(p)' <=> processed_time[p] + 1 # processing_time[p]
    BY <1>a, <1>b, <1>c, <1>d, WorkloadBounds DEF Unfinished
  <2> QED
    BY <2>1, <2>2, <1>0, <1>a, <1>b DEF IInv, ReadyExact, SimTypeOK, Unfinished
<1>5. NeverStopped'
  BY <1>a, <1>b DEF NeverStopped
<1>6. ElapsedCoversService'
  <2> SUFFICES ASSUME NEW q \in Pids
               PROVE  /\ processed_time'[q] > 0 =>
                           arrival_time'[q] + processed_time'[q] <= time'
                      /\ ~(processed_time'[q] < processing_time'[q]) =>
                           /\ arrival_time'[q] + processing_time'[q] <= end_time'[q] + 1
                           /\ end_time'[q] < time'
    BY DEF ElapsedCoversService, Unfinished
  <2>1. CASE q # p
    <3>1. processed_time'[q] = processed_time[q] /\ end_time'[q] = end_time[q]
      BY <2>1, <1>a, <1>b, <1>d DEF SimTypeOK
    <3> QED
      BY <3>1, <1>a, <1>b, WorkloadBounds
         DEF IInv, ElapsedCoversService, Unfinished
  <2>2. CASE q = p
    <3>1. arrival_time[p] + processed_time[p] <= time
      BY <1>b, <1>c, WorkloadBounds DEF IInv, ElapsedCoversService
    <3>2. processed_time'[p] = processed_time[p] + 1
      BY <1>d
    <3>3. ~(processed_time'[p] < processing_time[p]) =>
             processed_time[p] + 1 = processing_time[p] /\ end_time'[p] = time
      BY <3>2, <1>a, <1>b, <1>c, WorkloadBounds DEF SimTypeOK
    <3> QED
      BY <2>2, <3>1, <3>2, <3>3, <1>a, <1>b, WorkloadBounds
  <2> QED
    BY <2>1, <2>2
<1> QED
  BY <1>1, <1>2, <1>3, <1>4, <1>5, <1>6 DEF IInv

(* A time unit in which nothing is ready is an AccountIdle step.           *)
LEMMA RunNoneIsIdle ==
  ASSUME RunNone
  PROVE  /\ AtGetNext /\ AccountIdle /\ ready = {}
         /\ UNCHANGED <<workload, admitted, ready>>
<1>1. Idle \notin Pids
  BY SimulatorAssumption DEF Idle
<1> QED
  BY <1>1 DEF RunNone, Account

LEMMA RunNoneKeepsInv ==
  ASSUME IInv, RunNone
  PROVE  IInv'
<1>a. /\ pc = "body" /\ pc' = "loop" /\ time' = time + 1 /\ result' = result
      /\ UNCHANGED <<arrival_time, processing_time, processed_time, end_time,
                     admitted, ready>>
  BY RunNoneIsIdle
     DEF AtGetNext, AccountIdle, NextTimeUnit, workload, accounts
<1>b. time < TIMEOUT /\ result = "running" /\ SimTypeOK
  BY <1>a DEF IInv, ControlInv, TypeOK
<1>1. TypeOK'
  BY <1>a, <1>b, SimulatorAssumption DEF IInv, TypeOK, SimTypeOK
<1>2. ControlInv'
  BY <1>a, <1>b DEF ControlInv
<1>3. AdmissionInv'
  <2>1. \A p \in Pids : arrival_time[p] < time + 1 => p \in admitted
    BY <1>b, RunNoneIsIdle, AllArrivedAdmitted, WorkloadBounds
  <2> QED
    BY <2>1, <1>a, <1>b, WorkloadBounds DEF IInv, AdmissionInv
<1>4. ReadyExact' /\ NeverStopped'
  BY <1>a DEF IInv, ReadyExact, NeverStopped, Unfinished
<1>5. ElapsedCoversService'
  BY <1>a, <1>b, WorkloadBounds DEF IInv, ElapsedCoversService, Unfinished
<1> QED
  BY <1>1, <1>2, <1>3, <1>4, <1>5 DEF IInv

(* Every step keeps the invariant.                                         *)
LEMMA NextKeepsInv == IInv /\ [Next]_vars => IInv'
<1> SUFFICES ASSUME IInv, [Next]_vars PROVE IInv'
  OBVIOUS
<1>1. CASE (EnterIteration \/ LeaveLoop) /\ UNCHANGED ready
  BY <1>1, LoopTestKeepsInv
<1>2. CASE \E p \in Pids : Add(p)
  BY <1>2, AddKeepsInv
<1>3. CASE \E p \in Pids : Run(p)
  BY <1>3, RunKeepsInv
<1>4. CASE RunNone
  BY <1>4, RunNoneKeepsInv
<1>5. CASE UNCHANGED vars
  BY <1>5 DEF vars, simVars, IInv, TypeOK, SimTypeOK, ControlInv, AdmissionInv,
              ReadyExact, NeverStopped, ElapsedCoversService, still_running,
              Unfinished
<1> QED
  BY <1>1, <1>2, <1>3, <1>4, <1>5 DEF Next

(* The invariant holds throughout.                                         *)
THEOREM Invariance == Spec => []IInv
  BY InitInv, NextKeepsInv, PTL DEF Spec

-----------------------------------------------------------------------------
(* Every variable keeps its type; in particular the counters stay within   *)
(* TIMEOUT and never wrap.                                                 *)
THEOREM TypeCorrect == Spec => []TypeOK
<1>1. IInv => TypeOK
  BY DEF IInv
<1> QED
  BY <1>1, Invariance, PTL

(* The ready queue is exact, for any scheduler that keeps the contract.    *)
THEOREM ReadyQueueExact == Spec => []ReadyExact
<1>1. IInv => ReadyExact
  BY DEF IInv
<1> QED
  BY <1>1, Invariance, PTL

(* The simulator never says that a process was scheduled for too long, nor *)
(* crashes on an unknown PID, when the scheduler keeps the contract.       *)
THEOREM SchedulerNeverStopped == Spec => []NeverStopped
<1>1. IInv => NeverStopped
  BY DEF IInv
<1> QED
  BY <1>1, Invariance, PTL

(* No process gets more time than has passed since its arrival.            *)
THEOREM ServiceWithinElapsed == Spec => []ElapsedCoversService
<1>1. IInv => ElapsedCoversService
  BY DEF IInv
<1> QED
  BY <1>1, Invariance, PTL

(* The unsigned subtractions of a successful simulation's statistics do    *)
(* not wrap around, for any number of processes and any TIMEOUT below the  *)
(* range of the type.                                                      *)
THEOREM StatisticsAreSound == Spec => []StatisticsDoNotWrap
<1>1. IInv => StatisticsDoNotWrap
  <2> SUFFICES ASSUME IInv, result = "complete", NEW p \in Pids
               PROVE  /\ calculate_turnaround_time(p) = end_time[p] - arrival_time[p] + 1
                      /\ calculate_wait_time(p) =
                           calculate_turnaround_time(p) - processing_time[p]
                      /\ calculate_wait_time(p) >= 0
    BY DEF StatisticsDoNotWrap
  <2> DEFINE turnaround == end_time[p] - arrival_time[p] + 1
             wait == turnaround - processing_time[p]
  <2>1. SimTypeOK /\ time <= TIMEOUT
    BY SimulatorAssumption DEF IInv, TypeOK, SimTypeOK
  <2>2. processed_time[p] = processing_time[p]
    BY <2>1, WorkloadBounds
       DEF IInv, ControlInv, AdmissionInv, still_running, Unfinished
  <2>3. /\ arrival_time[p] + processing_time[p] <= end_time[p] + 1
        /\ end_time[p] < time
    BY <2>1, <2>2, WorkloadBounds DEF IInv, ElapsedCoversService, Unfinished
  <2>4. turnaround \in 0 .. UINT - 1 /\ wait \in 0 .. UINT - 1
    BY <2>1, <2>3, WorkloadBounds, SimulatorAssumption
  <2>5. \A n \in 0 .. UINT - 1 : n % UINT = n
    BY SimulatorAssumption
  <2>6. calculate_turnaround_time(p) = turnaround
    BY <2>4, <2>5 DEF calculate_turnaround_time
  <2>7. calculate_wait_time(p) = wait
    BY <2>2, <2>4, <2>5, <2>6 DEF calculate_wait_time
  <2> QED
    BY <2>4, <2>6, <2>7
<1> QED
  BY <1>1, Invariance, PTL

(* The processor is left idle only when every process that has arrived is  *)
(* finished.                                                               *)
THEOREM WorkConserving == Spec => IdleOnlyWhenDone
<1> DEFINE IdleUnit == time' = time + 1 /\ processed_time' = processed_time
           AllServed == \A p \in Pids : arrival_time[p] <= time => ~Unfinished(p)
<1>1. IInv /\ [Next]_vars => [IdleUnit => AllServed]_vars
  <2> SUFFICES ASSUME IInv, Next, IdleUnit PROVE AllServed
    OBVIOUS
  <2>0. SimTypeOK /\ time \in Nat /\ time' # time
    BY SimulatorAssumption DEF IInv, TypeOK, SimTypeOK
  <2>1. CASE (EnterIteration \/ LeaveLoop) /\ UNCHANGED ready
    BY <2>1, <2>0 DEF EnterIteration, LeaveLoop
  <2>2. CASE \E p \in Pids : Add(p)
    BY <2>2, <2>0 DEF Add, Admit
  <2>3. CASE \E p \in Pids : Run(p)
    <3>1. PICK p \in Pids : Run(p)
      BY <2>3
    <3>2. processed_time' = [processed_time EXCEPT ![p] = @ + 1]
      BY <3>1, RunIsUnit DEF AccountUnit
    <3>3. processed_time[p] \in Nat /\ processed_time'[p] = processed_time[p] + 1
      BY <3>2, <2>0, WorkloadBounds DEF SimTypeOK
    <3> QED
      BY <3>3
  <2>4. CASE RunNone
    BY <2>4, RunNoneIsIdle, AllArrivedAdmitted DEF IInv, ReadyExact
  <2> QED
    BY <2>1, <2>2, <2>3, <2>4 DEF Next
<1> QED
  BY <1>1, Invariance, PTL DEF Spec, IdleOnlyWhenDone

-----------------------------------------------------------------------------
(***************************************************************************)
(* The length of the simulation is the same for every scheduler.  Makespan *)
(* is a maximum over the processes of an arrival time plus a sum; the      *)
(* invariant relates every reachable state to the same sums of the time    *)
(* used so far.                                                            *)
(***************************************************************************)
From(p) == {q \in Pids : arrival_time[q] >= arrival_time[p]}

ServiceFrom(p) == Total(processed_time, From(p))

(* The processor has not been idle since the arrival of p, and has left    *)
(* nothing undone from before it.                                          *)
BusySince(p) ==
  /\ time = arrival_time[p] + ServiceFrom(p)
  /\ \A q \in Pids : Unfinished(q) => arrival_time[q] >= arrival_time[p]

(* The last unit was used, or nothing that has arrived was left to do.     *)
BusyOrQuiet ==
  \/ \E p \in Pids : BusySince(p)
  \/ still_running /\ \A q \in Pids : Unfinished(q) => arrival_time[q] >= time

(* From any arrival on, no more units are used than there were.            *)
ServiceWithinSpan ==
  \A p \in Pids : ServiceFrom(p) > 0 => arrival_time[p] + ServiceFrom(p) <= time

VerdictInv ==
  /\ pc = "body" => still_running
  /\ pc = "done" => result \in {"complete", "unfinished"}
  /\ result = "unfinished" => time = TIMEOUT /\ still_running

SpanInv == IInv /\ VerdictInv /\ ServiceWithinSpan /\ BusyOrQuiet

(* The sums are of natural numbers, over finite sets.                      *)
LEMMA ServiceIsNat ==
  ASSUME SimTypeOK, NEW p \in Pids
  PROVE  /\ IsFiniteSet(From(p)) /\ p \in From(p)
         /\ \A q \in From(p) : /\ processed_time[q] \in Int /\ 0 <= processed_time[q]
                               /\ processing_time[q] \in Int
         /\ ServiceFrom(p) \in Nat
         /\ Total(processing_time, From(p)) \in Int
         /\ WorkFrom(p) = Total(processing_time, From(p))
<1>1. IsFiniteSet(From(p)) /\ p \in From(p)
  BY SimulatorAssumption, WorkloadBounds, FS_Subset DEF From
<1>2. \A q \in From(p) : /\ processed_time[q] \in Int /\ 0 <= processed_time[q]
                         /\ processing_time[q] \in Int
  BY WorkloadBounds DEF From
<1>3. ServiceFrom(p) \in Int /\ Total(processing_time, From(p)) \in Int
  BY <1>1, <1>2, TotalInt DEF ServiceFrom
<1>4. 0 <= ServiceFrom(p)
  <2> DEFINE zero == [q \in From(p) |-> 0]
  <2>1. Total(zero, From(p)) = 0
    BY <1>1, TotalZero
  <2>2. \A q \in From(p) : zero[q] \in Int /\ zero[q] <= processed_time[q]
    BY <1>2
  <2> HIDE DEF zero
  <2>3. Total(zero, From(p)) <= Total(processed_time, From(p))
    BY <1>1, <1>2, <2>2, TotalMonotone
  <2> QED
    BY <2>1, <2>3 DEF ServiceFrom
<1>5. WorkFrom(p) = Total(processing_time, From(p))
  BY DEF WorkFrom, From, Total
<1> QED
  BY <1>1, <1>2, <1>3, <1>4, <1>5

(* A unit of a process counts from every arrival that is not later.        *)
LEMMA UnitIsCounted ==
  ASSUME SimTypeOK, NEW r \in Pids, NEW p \in Pids,
         arrival_time' = arrival_time,
         processed_time' = [processed_time EXCEPT ![r] = @ + 1]
  PROVE  ServiceFrom(p)' = ServiceFrom(p) + (IF r \in From(p) THEN 1 ELSE 0)
<1> DEFINE v == processed_time'
<1>1. From(p)' = From(p)
  BY DEF From
<1>2. ServiceFrom(p)' = Total(v, From(p))
  BY <1>1 DEF ServiceFrom
<1>3. /\ IsFiniteSet(From(p)) /\ ServiceFrom(p) \in Int
      /\ \A q \in From(p) : processed_time[q] \in Int
  BY ServiceIsNat
<1>4. \A q \in Pids : v[q] = IF q = r THEN processed_time[r] + 1 ELSE processed_time[q]
  BY DEF SimTypeOK
<1>5. \A q \in From(p) : v[q] \in Int /\ (q # r => v[q] = processed_time[q])
  BY <1>3, <1>4 DEF From
<1> HIDE DEF v
<1>6. CASE r \in From(p)
  <2>1. Total(v, From(p)) - v[r] = Total(processed_time, From(p)) - processed_time[r]
    BY <1>3, <1>5, <1>6, TotalUpdate
  <2>2. Total(v, From(p)) \in Int /\ v[r] = processed_time[r] + 1 /\ processed_time[r] \in Int
    BY <1>3, <1>4, <1>5, <1>6, TotalInt
  <2> QED
    BY <1>2, <1>3, <1>6, <2>1, <2>2 DEF ServiceFrom
<1>7. CASE r \notin From(p)
  <2>1. Total(v, From(p)) = Total(processed_time, From(p))
    BY <1>3, <1>5, <1>7, TotalAgrees
  <2> QED
    BY <1>2, <1>3, <1>7, <2>1 DEF ServiceFrom
<1> QED
  BY <1>6, <1>7

(* At first every process has all of its work ahead.                       *)
LEMMA InitSpan == Init => SpanInv
<1> SUFFICES ASSUME Init PROVE SpanInv
  OBVIOUS
<1>1. IInv /\ SimTypeOK
  BY InitInv DEF IInv, TypeOK
<1>2. VerdictInv
  BY DEF Init, SimInit, VerdictInv
<1>3. ASSUME NEW p \in Pids PROVE ServiceFrom(p) = 0
  <2>1. \A q \in From(p) : processed_time[q] = 0
    BY DEF Init, SimInit, From
  <2> QED
    BY <1>1, <2>1, ServiceIsNat, TotalZero DEF ServiceFrom
<1>4. ServiceWithinSpan
  BY <1>3 DEF ServiceWithinSpan
<1>5. ASSUME NEW p \in Pids PROVE Unfinished(p) /\ arrival_time[p] >= time
  BY <1>1, WorkloadBounds DEF Init, SimInit, Unfinished
<1>6. BusyOrQuiet
  BY <1>5, SimulatorAssumption DEF BusyOrQuiet, still_running
<1> QED
  BY <1>1, <1>2, <1>4, <1>6 DEF SpanInv

(* The loop test and the arrivals use no time.                             *)
LEMMA NoTimeKeepsSpan ==
  ASSUME SpanInv, IInv', VerdictInv',
         UNCHANGED <<arrival_time, processing_time, processed_time, time>>
  PROVE  SpanInv'
<1>1. \A p : From(p)' = From(p) /\ ServiceFrom(p)' = ServiceFrom(p)
  BY DEF From, ServiceFrom
<1>2. ServiceWithinSpan'
  BY <1>1 DEF SpanInv, ServiceWithinSpan
<1>3. \A p : Unfinished(p)' <=> Unfinished(p)
  BY DEF Unfinished
<1>4. \A p : BusySince(p)' <=> BusySince(p)
  BY <1>1, <1>3 DEF BusySince
<1>5. BusyOrQuiet'
  BY <1>3, <1>4 DEF SpanInv, BusyOrQuiet, still_running
<1> QED
  BY <1>2, <1>5 DEF SpanInv

(* A unit given to a process: the processor has been busy since the        *)
(* arrival it was busy since, or since that of the process.                *)
LEMMA RunKeepsSpan ==
  ASSUME SpanInv, IInv', NEW r \in Pids, Run(r)
  PROVE  SpanInv'
<1>1. /\ r \in admitted /\ Unfinished(r) /\ AtGetNext
      /\ pc' = "loop" /\ time' = time + 1 /\ result' = result
      /\ arrival_time' = arrival_time /\ processing_time' = processing_time
      /\ processed_time' = [processed_time EXCEPT ![r] = @ + 1]
  BY RunIsUnit DEF SpanInv, AccountUnit, NextTimeUnit, workload
<1>2. SimTypeOK /\ arrival_time[r] <= time /\ result = "running"
  BY <1>1 DEF SpanInv, IInv, TypeOK, AdmissionInv, ControlInv, AtGetNext
<1>3. \A p \in Pids : /\ ServiceFrom(p) \in Nat /\ arrival_time[p] \in Nat /\ time \in Nat
                      /\ r \in From(p) <=> arrival_time[r] >= arrival_time[p]
                      /\ ServiceFrom(p)' = ServiceFrom(p) + (IF r \in From(p) THEN 1 ELSE 0)
  BY <1>1, <1>2, ServiceIsNat, UnitIsCounted, WorkloadBounds DEF From
<1>4. VerdictInv'
  BY <1>1, <1>2 DEF VerdictInv
<1>5. ServiceWithinSpan'
  <2> SUFFICES ASSUME NEW p \in Pids, ServiceFrom(p)' > 0
               PROVE  arrival_time[p] + ServiceFrom(p)' <= time + 1
    BY <1>1 DEF ServiceWithinSpan
  <2>1. ServiceFrom(p) > 0 => arrival_time[p] + ServiceFrom(p) <= time
    BY DEF SpanInv, ServiceWithinSpan
  <2> QED
    BY <2>1, <1>2, <1>3
<1>6. \A q \in Pids : Unfinished(q)' => Unfinished(q)
  <2>1. \A q \in Pids : q # r => (Unfinished(q)' <=> Unfinished(q))
    BY <1>1, <1>2 DEF SimTypeOK, Unfinished
  <2> QED
    BY <1>1, <2>1
<1>7. CASE \E p \in Pids : BusySince(p)
  <2>1. PICK p \in Pids : BusySince(p)
    BY <1>7
  <2>2. BusySince(p)'
    BY <1>1, <1>3, <1>6, <2>1 DEF BusySince
  <2> QED
    BY <1>4, <1>5, <2>2 DEF SpanInv, BusyOrQuiet
<1>8. CASE \A q \in Pids : Unfinished(q) => arrival_time[q] >= time
  <2>1. arrival_time[r] = time
    BY <1>1, <1>2, <1>3, <1>8
  <2>2. \A q \in From(r) : processed_time[q] = 0
    <3> SUFFICES ASSUME NEW q \in Pids, arrival_time[q] >= time PROVE processed_time[q] = 0
      BY <2>1 DEF From
    <3>1. processed_time[q] > 0 => arrival_time[q] + processed_time[q] <= time
      BY DEF SpanInv, IInv, ElapsedCoversService
    <3> QED
      BY <3>1, <1>2, WorkloadBounds
  <2>3. ServiceFrom(r) = 0
    BY <2>2, <1>2, ServiceIsNat, TotalZero DEF ServiceFrom
  <2>4. r \in From(r)
    BY <1>2, ServiceIsNat
  <2>5. BusySince(r)'
    BY <1>1, <1>3, <1>6, <1>8, <2>1, <2>3, <2>4 DEF BusySince
  <2> QED
    BY <1>4, <1>5, <2>5 DEF SpanInv, BusyOrQuiet
<1> QED
  BY <1>7, <1>8 DEF SpanInv, BusyOrQuiet

(* An idle unit: nothing that has arrived was left to do.                  *)
LEMMA RunNoneKeepsSpan ==
  ASSUME SpanInv, IInv', RunNone
  PROVE  SpanInv'
<1>1. /\ AtGetNext /\ ready = {} /\ pc = "body"
      /\ pc' = "loop" /\ time' = time + 1 /\ result' = result
      /\ UNCHANGED <<arrival_time, processing_time, processed_time>>
  BY RunNoneIsIdle DEF AtGetNext, AccountIdle, NextTimeUnit, workload, accounts
<1>2. SimTypeOK /\ result = "running" /\ still_running
  BY <1>1 DEF SpanInv, IInv, TypeOK, ControlInv, VerdictInv
<1>3. \A p \in Pids : /\ ServiceFrom(p) \in Nat /\ arrival_time[p] \in Nat /\ time \in Nat
                      /\ ServiceFrom(p)' = ServiceFrom(p)
                      /\ Unfinished(p)' <=> Unfinished(p)
  BY <1>1, <1>2, ServiceIsNat, WorkloadBounds DEF ServiceFrom, From, Unfinished
<1>4. VerdictInv'
  BY <1>1, <1>2 DEF VerdictInv
<1>5. ServiceWithinSpan'
  BY <1>1, <1>3 DEF SpanInv, ServiceWithinSpan
<1>6. \A q \in Pids : Unfinished(q) => arrival_time[q] >= time + 1
  BY <1>1, <1>3, AllArrivedAdmitted DEF SpanInv, IInv, ReadyExact
<1>7. still_running'
  BY <1>2, <1>3 DEF still_running
<1>8. BusyOrQuiet'
  BY <1>1, <1>3, <1>6, <1>7 DEF BusyOrQuiet
<1> QED
  BY <1>4, <1>5, <1>8 DEF SpanInv

LEMMA NextKeepsSpan == SpanInv /\ [Next]_vars => SpanInv'
<1> SUFFICES ASSUME SpanInv, [Next]_vars PROVE SpanInv'
  OBVIOUS
<1>0. IInv'
  BY NextKeepsInv DEF SpanInv
<1>1. CASE (EnterIteration \/ LeaveLoop) /\ UNCHANGED ready
  <2>1. UNCHANGED <<arrival_time, processing_time, processed_time, time>>
    BY <1>1 DEF EnterIteration, LeaveLoop, workload, accounts
  <2>2. VerdictInv'
    <3>1. still_running' <=> still_running
      BY <2>1 DEF still_running, Unfinished
    <3>2. time <= TIMEOUT /\ time \in Nat /\ TIMEOUT \in Nat
      BY SimulatorAssumption DEF SpanInv, IInv, TypeOK, SimTypeOK
    <3> QED
      BY <1>1, <2>1, <3>1, <3>2
         DEF EnterIteration, LeaveLoop, SpanInv, VerdictInv, IInv, ControlInv
  <2> QED
    BY <1>0, <2>1, <2>2, NoTimeKeepsSpan
<1>2. CASE \E p \in Pids : Add(p)
  <2>1. UNCHANGED <<arrival_time, processing_time, processed_time, time, pc, result>>
    BY <1>2 DEF Add, Admit, workload, accounts
  <2>2. VerdictInv'
    BY <2>1 DEF SpanInv, VerdictInv, still_running, Unfinished
  <2> QED
    BY <1>0, <2>1, <2>2, NoTimeKeepsSpan
<1>3. CASE \E p \in Pids : Run(p)
  BY <1>0, <1>3, RunKeepsSpan
<1>4. CASE RunNone
  BY <1>0, <1>4, RunNoneKeepsSpan
<1>5. CASE UNCHANGED vars
  <2>1. UNCHANGED <<arrival_time, processing_time, processed_time, time, pc, result>>
    BY <1>5 DEF vars, simVars
  <2>2. VerdictInv'
    BY <2>1 DEF SpanInv, VerdictInv, still_running, Unfinished
  <2> QED
    BY <1>0, <2>1, <2>2, NoTimeKeepsSpan
<1> QED
  BY <1>1, <1>2, <1>3, <1>4, <1>5 DEF Next

(* When the simulation has ended, the invariant leaves one length for it.  *)
LEMMA SpanAtEnd ==
  ASSUME SpanInv, pc = "done"
  PROVE  /\ result = "complete" <=> Makespan <= TIMEOUT
         /\ result = "complete" => time = Makespan
<1> DEFINE span == [p \in Pids |-> arrival_time[p] + WorkFrom(p)]
           spans == {arrival_time[p] + WorkFrom(p) : p \in Pids}
<1>1. SimTypeOK /\ time \in Nat /\ time <= TIMEOUT /\ TIMEOUT \in Nat
  BY SimulatorAssumption DEF SpanInv, IInv, TypeOK, SimTypeOK
<1>2. \A p \in Pids : /\ span[p] = arrival_time[p] + WorkFrom(p)
                      /\ arrival_time[p] \in Nat /\ WorkFrom(p) \in Int
                      /\ span[p] \in Int /\ ServiceFrom(p) \in Nat
  BY <1>1, ServiceIsNat, WorkloadBounds
<1>3. PICK m \in Pids : \A p \in Pids : span[p] <= span[m]
  <2> HIDE DEF span
  <2>1. \A p \in Pids : span[p] \in Int
    BY <1>2
  <2> QED
    BY <2>1, SimulatorAssumption, GreatestTerm
<1>4. Makespan = span[m]
  <2>1. span[m] \in spans /\ \A s \in spans : span[m] >= s
    BY <1>2, <1>3
  <2>2. \A s \in spans : s \in Int
    BY <1>2
  <2> HIDE DEF spans, span
  <2>3. \A s \in spans : (\A t \in spans : s >= t) => s = span[m]
    BY <2>1, <2>2
  <2>4. Max(spans) = span[m]
    BY <2>1, <2>3 DEF Max
  <2> QED
    BY <2>4 DEF Makespan, spans
<1> HIDE DEF span, spans
<1>5. CASE result = "complete"
  <2>1. \A p \in Pids : processed_time[p] = processing_time[p]
    BY <1>1, <1>5, WorkloadBounds
       DEF SpanInv, IInv, ControlInv, AdmissionInv, still_running, Unfinished
  <2>2. ASSUME NEW p \in Pids PROVE ServiceFrom(p) = WorkFrom(p)
    <3>1. \A q \in From(p) : processed_time[q] \in Int /\ processed_time[q] = processing_time[q]
      BY <1>1, <2>1, ServiceIsNat DEF From
    <3> QED
      BY <1>1, <3>1, ServiceIsNat, TotalAgrees DEF ServiceFrom
  <2>3. ASSUME NEW p \in Pids PROVE span[p] <= time
    <3>1. ServiceFrom(p) > 0
      <4>1. p \in From(p) /\ processed_time[p] > 0
        BY <1>1, <2>1, ServiceIsNat, WorkloadBounds
      <4> DEFINE zero == [q \in From(p) |-> 0]
      <4>2. /\ IsFiniteSet(From(p))
            /\ \A q \in From(p) : /\ zero[q] \in Int /\ processed_time[q] \in Int
                                  /\ zero[q] <= processed_time[q]
            /\ zero[p] < processed_time[p]
            /\ \A q \in From(p) : zero[q] = 0
        BY <1>1, <4>1, ServiceIsNat
      <4> HIDE DEF zero
      <4>3. Total(zero, From(p)) < Total(processed_time, From(p))
        BY <4>1, <4>2, TotalStrict
      <4>4. Total(zero, From(p)) = 0
        BY <4>2, TotalZero
      <4> QED
        BY <4>3, <4>4 DEF ServiceFrom
    <3> QED
      BY <3>1, <2>2, <1>2 DEF SpanInv, ServiceWithinSpan
  <2>4. PICK p \in Pids : BusySince(p)
    BY <1>5 DEF SpanInv, BusyOrQuiet, IInv, ControlInv
  <2>5. time = span[p]
    BY <1>2, <2>2, <2>4 DEF BusySince
  <2>6. time = Makespan
    BY <1>1, <1>2, <1>3, <1>4, <2>3, <2>5
  <2> QED
    BY <1>1, <1>5, <2>6
<1>6. CASE result = "unfinished"
  <2>1. PICK u \in Pids : Unfinished(u)
    BY <1>6 DEF SpanInv, VerdictInv, still_running
  <2>2. time = TIMEOUT
    BY <1>6 DEF SpanInv, VerdictInv
  <2>3. PICK p \in Pids : BusySince(p)
    BY <1>1, <2>1, <2>2, WorkloadBounds DEF SpanInv, BusyOrQuiet
  <2>4. ServiceFrom(p) < WorkFrom(p)
    <3>1. u \in From(p) /\ processed_time[u] < processing_time[u]
      BY <2>1, <2>3 DEF BusySince, From, Unfinished
    <3>2. /\ IsFiniteSet(From(p))
          /\ \A q \in From(p) : /\ processed_time[q] \in Int /\ processing_time[q] \in Int
                                /\ processed_time[q] <= processing_time[q]
      BY <1>1, ServiceIsNat DEF From, SpanInv, IInv, AdmissionInv
    <3> QED
      BY <1>1, <3>1, <3>2, TotalStrict, ServiceIsNat DEF ServiceFrom
  <2>5. span[p] > TIMEOUT
    BY <1>1, <1>2, <2>2, <2>3, <2>4 DEF BusySince
  <2>6. Makespan > TIMEOUT
    BY <1>1, <1>2, <1>3, <1>4, <2>5
  <2> QED
    BY <1>1, <1>2, <1>4, <1>6, <2>6
<1> QED
  BY <1>5, <1>6 DEF SpanInv, VerdictInv

(* Whatever order a scheduler that keeps the contract runs the processes   *)
(* in, the simulation of a workload takes Makespan units, and fails        *)
(* exactly when that is more than TIMEOUT.                                 *)
THEOREM LengthIsFixed == Spec => []MakespanIsFixed
<1>1. SpanInv => MakespanIsFixed
  BY SpanAtEnd DEF MakespanIsFixed
<1> QED
  BY <1>1, InitSpan, NextKeepsSpan, PTL DEF Spec
================================================================================
