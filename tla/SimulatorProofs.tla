---------------------------- MODULE SimulatorProofs ----------------------------
(***************************************************************************)
(* What simulator.c does by itself: the simulation, for any set of         *)
(* processes, any TIMEOUT and whatever a submission returns; the loader    *)
(* that reads the processes, for any file; and the marking script and the  *)
(* competition, for any number of submissions, executions and signals.     *)
(*                                                                         *)
(* That at most one process is given each unit is a statement about sums:  *)
(* as long as the simulation goes on, the units given to all processes     *)
(* together are at most the units that have passed.  The processes that    *)
(* have finished by then are among all processes, and have had what they   *)
(* need.                                                                   *)
(***************************************************************************)
EXTENDS AnyScheduler, Loader, MarkingScript, OperatorProofs

(* Where the loop is, and what it says when it has ended.                  *)
ControlInv ==
  /\ pc = "body" => time < TIMEOUT
  /\ pc # "done" <=> result = "running"

(* In the body of the loop some of the processes due have been admitted.   *)
AdmissionInv ==
  /\ AdmittedOnTime
  /\ pc = "body" => {p \in Pids : arrival_time[p] < time} \subseteq admitted

(* OneProcessPerUnit, with the sum as a Total.                             *)
FinishedBy(t) == {q \in Done : end_time[q] <= t}

FinishedApart ==
  \A p \in Done :
    /\ end_time[p] < time
    /\ \A q \in Done \ {p} : end_time[q] # end_time[p]
    /\ Total(processing_time, FinishedBy(end_time[p])) <= end_time[p] + 1

UnitsWithinTime == result # "too_long" => Total(processed_time, Pids) <= time

AInv ==
  /\ SimTypeOK
  /\ ControlInv
  /\ AdmissionInv
  /\ VerdictSound
  /\ FinishedApart
  /\ UnitsWithinTime

-----------------------------------------------------------------------------
(* The loader's limits, as facts about one process.                        *)
LEMMA WorkloadBounds ==
  ASSUME SimTypeOK, NEW p \in Pids
  PROVE  /\ arrival_time[p] \in Nat
         /\ processing_time[p] \in Nat /\ 0 < processing_time[p]
         /\ processing_time[p] < TIMEOUT
         /\ processed_time[p] \in Nat /\ end_time[p] \in Nat
         /\ time \in Nat /\ TIMEOUT \in Nat /\ time <= TIMEOUT
<1>1. arrival_time[p] \in 0 .. TIMEOUT - 1 /\ processing_time[p] \in 1 .. TIMEOUT - 1
  BY SimulatorAssumption DEF SimTypeOK
<1>2. processed_time[p] \in 0 .. TIMEOUT /\ end_time[p] \in 0 .. TIMEOUT
  BY DEF SimTypeOK
<1>3. time \in 0 .. TIMEOUT /\ TIMEOUT \in Nat
  BY SimulatorAssumption DEF SimTypeOK
<1> QED
  BY <1>1, <1>2, <1>3

LEMMA FinishedApartIsProperty == FinishedApart => OneProcessPerUnit
  BY DEF FinishedApart, OneProcessPerUnit, FinishedBy, Total

(* At first nothing has run and nobody has arrived.                        *)
LEMMA InitAInv == Init => AInv
<1> SUFFICES ASSUME Init PROVE AInv
  OBVIOUS
<1> USE SimulatorAssumption DEF Init, SimInit
<1>1. SimTypeOK /\ ControlInv
  BY DEF SimTypeOK, ControlInv
<1>2. AdmissionInv
  <2>1. \A p \in Pids : ~(arrival_time[p] < time)
    BY <1>1, WorkloadBounds
  <2> QED
    BY <2>1 DEF AdmissionInv, AdmittedOnTime
<1>3. \A p \in Pids : processed_time[p] = 0 /\ Unfinished(p) /\ ~Overran(p)
  BY <1>1, WorkloadBounds DEF Unfinished, Overran
<1>4. VerdictSound
  BY <1>3 DEF VerdictSound
<1>5. Done = {}
  BY <1>3 DEF Done
<1>6. Total(processed_time, Pids) = 0
  BY <1>3, TotalZero
<1> QED
  BY <1>1, <1>2, <1>4, <1>5, <1>6 DEF AInv, FinishedApart, UnitsWithinTime

(* FinishedApart speaks of the accounts only; it stays true of more time.  *)
LEMMA PerUnitStays ==
  ASSUME AInv, UNCHANGED <<processing_time, end_time>>, Done' = Done, time <= time',
         time' \in Nat
  PROVE  FinishedApart'
<1>1. \A p \in Done : end_time[p] \in Nat /\ time \in Nat
  BY WorkloadBounds DEF AInv, Done
<1>2. \A t : FinishedBy(t)' = FinishedBy(t)
  BY DEF FinishedBy
<1> QED
  BY <1>1, <1>2 DEF AInv, FinishedApart

(* The tests of the loop, and the arrivals, change no account.             *)
LEMMA LoopKeepsAInv ==
  ASSUME AInv, EnterIteration \/ LeaveLoop \/ \E p \in Pids : Admit(p)
  PROVE  AInv'
<1>1. /\ UNCHANGED <<workload, accounts, time>> /\ time \in Nat
      /\ SimTypeOK /\ SimTypeOK'
      /\ pc \in {"loop", "body"} /\ result = "running"
  <2>1. /\ UNCHANGED <<workload, accounts, time>> /\ SimTypeOK
        /\ pc \in {"loop", "body"} /\ result = "running"
    BY DEF AInv, ControlInv, EnterIteration, LeaveLoop, Admit
  <2>2. /\ admitted' \subseteq Pids /\ pc' \in {"loop", "body", "done"}
        /\ result' \in {"running", "complete", "unfinished", "too_long", "crashed"}
    BY <2>1 DEF SimTypeOK, EnterIteration, LeaveLoop, Admit, Due
  <2>3. SimTypeOK'
    BY <2>1, <2>2 DEF SimTypeOK, workload, accounts
  <2>4. time \in Nat
    BY <2>1, SimulatorAssumption DEF SimTypeOK
  <2> QED
    BY <2>1, <2>3, <2>4
<1>2. ControlInv'
  BY DEF AInv, ControlInv, EnterIteration, LeaveLoop, Admit
<1>3. AdmissionInv'
  <2>1. CASE EnterIteration \/ LeaveLoop
    BY <2>1, <1>1
       DEF EnterIteration, LeaveLoop, AInv, AdmissionInv, AdmittedOnTime, workload
  <2>2. CASE \E p \in Pids : Admit(p)
    <3>1. PICK p \in Pids : Admit(p)
      BY <2>2
    <3>2. /\ arrival_time[p] = time /\ admitted' = admitted \cup {p}
          /\ pc = "body" /\ pc' = "body"
      BY <3>1 DEF Admit, Due
    <3> QED
      BY <3>2, <1>1 DEF AInv, AdmissionInv, AdmittedOnTime, workload
  <2> QED
    BY <2>1, <2>2
<1>4. /\ \A p : Unfinished(p)' = Unfinished(p) /\ Overran(p)' = Overran(p)
      /\ Done' = Done /\ still_running' = still_running
  BY <1>1 DEF Unfinished, Overran, Done, still_running, workload, accounts
<1>5. \A p \in Pids : ~Overran(p)
  BY <1>1 DEF AInv, VerdictSound
<1>6. VerdictSound'
  <2>1. /\ result' = "complete" => ~still_running
        /\ result' = "unfinished" => still_running /\ ~(time < TIMEOUT)
        /\ result' \in {"running", "complete", "unfinished"}
    BY <1>1 DEF EnterIteration, LeaveLoop, Admit
  <2>2. result' = "complete" => \A p \in Pids : processed_time'[p] = processing_time'[p]
    BY <2>1, <1>1, <1>5, WorkloadBounds
       DEF still_running, Unfinished, Overran, workload, accounts
  <2>3. result' = "unfinished" => time' = TIMEOUT
    BY <2>1, <1>1, SimulatorAssumption DEF SimTypeOK
  <2> QED
    BY <2>1, <2>2, <2>3, <1>4, <1>5 DEF VerdictSound
<1>7. FinishedApart'
  BY <1>1, <1>4, PerUnitStays DEF workload, accounts
<1>8. UnitsWithinTime'
  BY <1>1 DEF AInv, UnitsWithinTime, workload, accounts
<1> QED
  BY <1>1, <1>2, <1>3, <1>6, <1>7, <1>8 DEF AInv

(* Before the verdict nobody has had too much, and the sum of what all     *)
(* have had is a number.                                                   *)
LEMMA WhileRunning ==
  ASSUME AInv, pc # "done"
  PROVE  /\ result = "running" /\ SimTypeOK
         /\ \A p \in Pids : /\ processed_time[p] \in Nat /\ processing_time[p] \in Nat
                            /\ processed_time[p] <= processing_time[p]
         /\ IsFiniteSet(Pids)
         /\ Total(processed_time, Pids) \in Int /\ Total(processed_time, Pids) <= time
         /\ time \in Nat
<1>1. result = "running" /\ SimTypeOK
  BY DEF AInv, ControlInv
<1>2. \A p \in Pids : /\ processed_time[p] \in Nat /\ processing_time[p] \in Nat
                      /\ processed_time[p] <= processing_time[p]
  BY <1>1, WorkloadBounds DEF AInv, VerdictSound, Overran
<1>3. IsFiniteSet(Pids) /\ Total(processed_time, Pids) \in Int
  <2>1. IsFiniteSet(Pids) /\ \A x \in Pids : processed_time[x] \in Int
    BY <1>2, SimulatorAssumption
  <2> QED
    BY <2>1, TotalInt
<1>4. Total(processed_time, Pids) <= time /\ time \in Nat
  BY <1>1, SimulatorAssumption DEF AInv, UnitsWithinTime, SimTypeOK
<1> QED
  BY <1>1, <1>2, <1>3, <1>4

(* When get_next_scheduled_process has returned, everybody who has arrived *)
(* has been admitted, and the next time unit begins or the simulation ends.*)
LEMMA AccountKeepsAdmission ==
  ASSUME AInv, AtGetNext, UNCHANGED <<workload, admitted>>,
         NextTimeUnit \/ \E verdict \in {"too_long", "crashed"} : Stop(verdict)
  PROVE  /\ time < TIMEOUT /\ time' \in 0 .. TIMEOUT /\ time <= time'
         /\ pc' \in {"loop", "done"}
         /\ result' \in {"running", "too_long", "crashed"}
         /\ ControlInv' /\ AdmissionInv'
<1>1. /\ time \in 0 .. TIMEOUT /\ TIMEOUT \in Nat /\ time < TIMEOUT /\ pc = "body"
      /\ result = "running" /\ \A p \in Pids : arrival_time[p] \in Nat
  BY WorkloadBounds, SimulatorAssumption
     DEF AInv, SimTypeOK, ControlInv, AtGetNext
<1>2. \/ time' = time + 1 /\ pc' = "loop" /\ result' = "running"
      \/ time' = time /\ pc' = "done" /\ result' \in {"too_long", "crashed"}
  BY <1>1 DEF NextTimeUnit, Stop
<1>3. ControlInv'
  BY <1>2 DEF ControlInv
<1>4. /\ Due \subseteq admitted /\ \A p \in admitted : arrival_time[p] <= time
      /\ {p \in Pids : arrival_time[p] < time} \subseteq admitted /\ admitted \subseteq Pids
  BY <1>1 DEF AtGetNext, AInv, AdmissionInv, AdmittedOnTime, SimTypeOK
<1>5. admitted = {p \in Pids : arrival_time[p] < time + 1}
  BY <1>1, <1>4 DEF Due
<1>6. AdmissionInv'
  <2>1. \A p \in admitted : arrival_time[p] <= time'
    BY <1>1, <1>2, <1>4
  <2> QED
    BY <1>2, <1>5, <2>1 DEF AdmissionInv, AdmittedOnTime, workload
<1> QED
  BY <1>1, <1>2, <1>3, <1>6

(* 0 and the PID of no process change no account.                          *)
LEMMA NoUnitKeepsAInv ==
  ASSUME AInv, AtGetNext, UNCHANGED <<workload, admitted, accounts>>,
         NextTimeUnit \/ Stop("crashed")
  PROVE  AInv'
<1>1. /\ time < TIMEOUT /\ time' \in 0 .. TIMEOUT /\ time <= time' /\ pc' \in {"loop", "done"}
      /\ result' \in {"running", "too_long", "crashed"} /\ ControlInv' /\ AdmissionInv'
  BY AccountKeepsAdmission
<1>2. pc # "done" /\ result' # "too_long"
  BY WhileRunning DEF AtGetNext, NextTimeUnit, Stop
<1>3. SimTypeOK'
  BY <1>1, <1>2, WhileRunning DEF SimTypeOK, workload, accounts
<1>4. /\ \A p : Overran(p)' = Overran(p) /\ Done' = Done
      /\ \A p \in Pids : ~Overran(p)
  BY <1>2, WhileRunning DEF Overran, Done, Unfinished, workload, accounts
<1>5. VerdictSound'
  BY <1>1, <1>2, <1>4 DEF VerdictSound
<1>6. FinishedApart'
  BY <1>1, <1>4, PerUnitStays, SimulatorAssumption DEF workload, accounts
<1>7. UnitsWithinTime'
  <2>1. time' \in Nat
    BY <1>1
  <2> QED
    BY <1>1, <1>2, <2>1, WhileRunning DEF UnitsWithinTime, accounts
<1> QED
  BY <1>1, <1>3, <1>5, <1>6, <1>7 DEF AInv

(* A unit for a process that needs it: it may finish with it, after all    *)
(* the others that have finished.                                          *)
LEMMA UnitKeepsAInv ==
  ASSUME AInv, AtGetNext, UNCHANGED <<workload, admitted>>, NEW r \in Pids, AccountUnit(r)
  PROVE  AInv'
<1> DEFINE runs == processed_time[r] + 1
<1>1. /\ time < TIMEOUT /\ time' \in 0 .. TIMEOUT /\ time <= time' /\ pc' \in {"loop", "done"}
      /\ result' \in {"running", "too_long", "crashed"} /\ ControlInv' /\ AdmissionInv'
  BY AccountKeepsAdmission DEF AccountUnit
<1>2. pc # "done"
  BY DEF AtGetNext
<1>3. /\ result' = "running" /\ time' = time + 1 /\ time \in Nat
      /\ UNCHANGED <<arrival_time, processing_time>>
      /\ processed_time[r] < processing_time[r] /\ runs \in 0 .. TIMEOUT
      /\ \A p \in Pids : processed_time'[p] = IF p = r THEN runs ELSE processed_time[p]
      /\ \A p \in Pids : end_time'[p] = IF p = r /\ runs = processing_time[r]
                                        THEN time ELSE end_time[p]
      /\ processed_time' = [processed_time EXCEPT ![r] = runs]
  <2>1. /\ SimTypeOK /\ result = "running" /\ time \in Nat
        /\ processed_time[r] \in Nat /\ processing_time[r] \in Nat
        /\ processing_time[r] < TIMEOUT /\ TIMEOUT \in Nat
    BY <1>2, WhileRunning, WorkloadBounds
  <2>2. /\ processed_time' = [processed_time EXCEPT ![r] = runs]
        /\ end_time' = IF runs = processing_time[r]
                       THEN [end_time EXCEPT ![r] = time] ELSE end_time
        /\ processed_time[r] < processing_time[r]
        /\ UNCHANGED <<arrival_time, processing_time>>
        /\ result' = "running" /\ time' = time + 1
    BY <2>1 DEF AccountUnit, NextTimeUnit, Unfinished, workload
  <2>3. processed_time \in [Pids -> 0 .. TIMEOUT] /\ end_time \in [Pids -> 0 .. TIMEOUT]
    BY <2>1 DEF SimTypeOK
  <2>4. runs \in 0 .. TIMEOUT
    BY <2>1, <2>2
  <2> HIDE DEF runs
  <2>5. \A p \in Pids : processed_time'[p] = IF p = r THEN runs ELSE processed_time[p]
    BY <2>2, <2>3
  <2>6. \A p \in Pids : end_time'[p] = IF p = r /\ runs = processing_time[r]
                                       THEN time ELSE end_time[p]
    BY <2>2, <2>3
  <2> QED
    BY <2>1, <2>2, <2>4, <2>5, <2>6
<1>4. SimTypeOK'
  <2>1. processed_time' \in [Pids -> 0 .. TIMEOUT]
    BY <1>3, <1>2, WhileRunning DEF SimTypeOK
  <2>2. end_time' \in [Pids -> 0 .. TIMEOUT]
    BY <1>1, <1>3, <1>2, WhileRunning, SimulatorAssumption DEF SimTypeOK, AccountUnit
  <2> QED
    BY <1>1, <1>2, <1>3, <2>1, <2>2, WhileRunning DEF SimTypeOK
<1>5. \A p \in Pids : ~Overran(p)'
  BY <1>2, <1>3, WhileRunning DEF Overran
<1>6. VerdictSound'
  BY <1>3, <1>5 DEF VerdictSound
<1> DEFINE v == processed_time'
           need == processing_time
<1>7. /\ Total(v, Pids) = Total(processed_time, Pids) + 1
      /\ \A p \in Pids : v[p] \in Int /\ 0 <= v[p]
  <2>1. \A p \in Pids : /\ v[p] \in Int /\ 0 <= v[p] /\ processed_time[p] \in Int
                        /\ (p # r => v[p] = processed_time[p])
    BY <1>2, <1>3, WhileRunning
  <2>2. v[r] = processed_time[r] + 1 /\ r \in Pids /\ IsFiniteSet(Pids)
    BY <1>3, SimulatorAssumption
  <2> DEFINE w == processed_time
  <2> HIDE DEF v, w
  <2>3. \A x \in Pids : v[x] \in Int /\ w[x] \in Int /\ (x # r => v[x] = w[x])
    BY <2>1 DEF w
  <2>4. \A x \in Pids : v[x] \in Int
    BY <2>3
  <2>5. \A x \in Pids : w[x] \in Int
    BY <2>3
  <2>6. Total(v, Pids) - v[r] = Total(w, Pids) - w[r]
    BY <2>2, <2>3, TotalUpdate
  <2>7. Total(v, Pids) \in Int /\ Total(w, Pids) \in Int
    BY <2>2, <2>4, <2>5, TotalInt
  <2>8. v[r] = w[r] + 1 /\ w[r] \in Int /\ \A p \in Pids : v[p] \in Int /\ 0 <= v[p]
    BY <2>1, <2>2 DEF w
  <2>9. Total(v, Pids) = Total(w, Pids) + 1
    BY <2>6, <2>7, <2>8
  <2> QED
    BY <2>8, <2>9 DEF w
<1>8. UnitsWithinTime' /\ Total(v, Pids) <= time + 1
  BY <1>2, <1>3, <1>7, WhileRunning DEF UnitsWithinTime
<1>9. /\ Done' = IF runs = need[r] THEN Done \cup {r} ELSE Done
      /\ r \notin Done /\ Done \subseteq Pids
      /\ \A p \in Done : end_time'[p] = end_time[p] /\ end_time[p] < time /\ end_time[p] \in Nat
  <2>1. \A p \in Pids : /\ processed_time[p] \in Nat /\ need[p] \in Nat /\ end_time[p] \in Nat
    BY <1>2, WhileRunning, WorkloadBounds
  <2>2. r \notin Done /\ Done \subseteq Pids
    BY <1>3, <2>1 DEF Done, Unfinished
  <2>3. \A p \in Pids : p \in Done' <=> p \in Done \/ (p = r /\ runs = need[r])
    BY <1>2, <1>3, <2>1, WhileRunning DEF Done, Unfinished
  <2>4. Done' \subseteq Pids
    BY DEF Done
  <2> QED
    BY <1>3, <2>1, <2>2, <2>3, <2>4 DEF AInv, FinishedApart
<1>10. ASSUME NEW p \in Done
       PROVE  /\ FinishedBy(end_time[p])' = FinishedBy(end_time[p])
              /\ Total(need, FinishedBy(end_time[p])) <= end_time[p] + 1
  <2>1. end_time'[p] = end_time[p]
    BY <1>9
  <2>2. \A q : q \in Done' /\ end_time'[q] <= end_time[p]
                 <=> q \in Done /\ end_time[q] <= end_time[p]
    BY <1>3, <1>9
  <2> QED
    BY <2>1, <2>2 DEF FinishedBy, AInv, FinishedApart
<1>11. Total(need, {q \in Done' : end_time'[q] <= time}) <= time + 1
  <2> DEFINE T == {q \in Done' : end_time'[q] <= time}
  <2>1. T \subseteq Pids /\ IsFiniteSet(T)
    BY SimulatorAssumption, FS_Subset DEF Done
  <2>2. \A q \in T : v[q] = need[q] /\ v[q] \in Int
    BY <1>2, <1>3, <1>5, <1>7, <2>1, WhileRunning DEF Done, Unfinished, Overran
  <2> HIDE DEF v, need, T
  <2>3. T \subseteq Pids /\ IsFiniteSet(T) /\ \A q \in T : v[q] \in Int /\ v[q] = need[q]
    BY <2>1, <2>2 DEF T
  <2>4. Total(v, T) = Total(need, T)
    BY <2>3, TotalAgrees
  <2>5. Total(v, T) <= Total(v, Pids)
    BY <1>7, <2>3, SimulatorAssumption, TotalOfSubset
  <2>6. Total(v, T) \in Int /\ Total(v, Pids) \in Int
    BY <1>7, <2>3, SimulatorAssumption, TotalInt
  <2> QED
    BY <1>3, <1>8, <2>4, <2>5, <2>6 DEF T
<1>12. FinishedApart'
  <2>1. need' = need
    BY <1>3
  <2> SUFFICES ASSUME NEW p \in Done'
               PROVE  /\ end_time'[p] < time'
                      /\ \A q \in Done' \ {p} : end_time'[q] # end_time'[p]
                      /\ Total(need, FinishedBy(end_time[p])') <= end_time'[p] + 1
    BY <2>1 DEF FinishedApart
  <2>2. CASE p \in Done
    <3>1. /\ end_time'[p] = end_time[p] /\ end_time'[p] < time'
          /\ Total(need, FinishedBy(end_time[p])') <= end_time'[p] + 1
      BY <2>2, <1>3, <1>9, <1>10
    <3>2. \A q \in Done \ {p} : end_time'[q] # end_time'[p]
      BY <2>2, <1>9 DEF AInv, FinishedApart
    <3>3. ASSUME runs = need[r] PROVE end_time'[r] # end_time'[p]
      BY <2>2, <3>3, <1>3, <1>9
    <3> QED
      BY <3>1, <3>2, <3>3, <1>9
  <2>3. CASE p = r /\ runs = need[r]
    <3>1. end_time'[p] = time
      BY <2>3, <1>3
    <3>2. FinishedBy(end_time[p])' = {q \in Done' : end_time'[q] <= time}
      BY <3>1 DEF FinishedBy
    <3> QED
      BY <3>1, <3>2, <2>3, <1>3, <1>9, <1>11
  <2> QED
    BY <2>2, <2>3, <1>9
<1> QED
  BY <1>1, <1>4, <1>6, <1>8, <1>12 DEF AInv

(* A unit for a process that has finished: the simulation says so and ends,*)
(* and neither end times nor who has finished are changed by that unit.    *)
LEMMA OverrunKeepsAInv ==
  ASSUME AInv, AtGetNext, UNCHANGED <<workload, admitted>>, NEW r \in Pids, AccountOverrun(r)
  PROVE  AInv'
<1> DEFINE runs == processed_time[r] + 1
<1>1. /\ time < TIMEOUT /\ time' \in 0 .. TIMEOUT /\ time <= time' /\ pc' \in {"loop", "done"}
      /\ result' \in {"running", "too_long", "crashed"} /\ ControlInv' /\ AdmissionInv'
  BY AccountKeepsAdmission DEF AccountOverrun
<1>2. /\ result' = "too_long"
      /\ UNCHANGED <<arrival_time, processing_time, end_time>>
      /\ processed_time' = [processed_time EXCEPT ![r] = runs]
      /\ ~Unfinished(r)
  BY DEF AccountOverrun, Stop, workload
<1>3. pc # "done"
  BY DEF AtGetNext
<1>4. /\ SimTypeOK
      /\ \A p \in Pids : /\ processed_time[p] \in Nat /\ processing_time[p] \in Nat
                         /\ processed_time[p] <= processing_time[p]
                         /\ processing_time[p] < TIMEOUT
      /\ TIMEOUT \in Nat
  BY <1>3, WhileRunning, WorkloadBounds, SimulatorAssumption
<1>5. processed_time[r] = processing_time[r]
  BY <1>2, <1>4 DEF Unfinished
<1>6. /\ processed_time \in [Pids -> 0 .. TIMEOUT]
      /\ runs \in 0 .. TIMEOUT
  BY <1>4, <1>5 DEF SimTypeOK
<1>7. \A p \in Pids : processed_time'[p] = IF p = r THEN processing_time[r] + 1
                                           ELSE processed_time[p]
  BY <1>2, <1>5, <1>6
<1>8. SimTypeOK'
  <2>1. processed_time' \in [Pids -> 0 .. TIMEOUT]
    BY <1>2, <1>6
  <2>2. admitted' = admitted
    OBVIOUS
  <2> QED
    BY <1>1, <1>2, <1>4, <2>1, <2>2 DEF SimTypeOK
<1>9. VerdictSound'
  <2>1. processed_time'[r] = processing_time'[r] + 1
    BY <1>2, <1>7
  <2>2. \A q \in Pids \ {r} : ~Overran(q)'
    BY <1>2, <1>4, <1>7 DEF Overran
  <2> QED
    BY <1>2, <2>1, <2>2 DEF VerdictSound
<1>10. FinishedApart'
  <2>1. \A p \in Pids : processed_time'[p] < processing_time'[p]
                          <=> processed_time[p] < processing_time[p]
    BY <1>2, <1>4, <1>5, <1>7
  <2>2. Done' = Done
    BY <2>1 DEF Done, Unfinished
  <2>3. time' \in Nat
    BY <1>1
  <2> QED
    BY <1>1, <1>2, <2>2, <2>3, PerUnitStays
<1>11. UnitsWithinTime'
  BY <1>2 DEF UnitsWithinTime
<1> QED
  BY <1>1, <1>8, <1>9, <1>10, <1>11 DEF AInv

(* So does whatever the submission returns.                                *)
LEMMA AccountKeepsAInv ==
  ASSUME AInv, NEW pid, Account(pid)
  PROVE  AInv'
<1>1. AtGetNext /\ UNCHANGED <<workload, admitted>>
  BY DEF Account
<1>2. CASE AccountIdle
  BY <1>1, <1>2, NoUnitKeepsAInv DEF AccountIdle
<1>3. CASE pid \in Pids /\ AccountUnit(pid)
  BY <1>1, <1>3, UnitKeepsAInv
<1>4. CASE pid \in Pids /\ AccountOverrun(pid)
  BY <1>1, <1>4, OverrunKeepsAInv
<1>5. CASE AccountUnknown(pid)
  BY <1>1, <1>5, NoUnitKeepsAInv DEF AccountUnknown
<1> QED
  BY <1>2, <1>3, <1>4, <1>5 DEF Account

LEMMA NextKeepsAInv == AInv /\ [Next]_simVars => AInv'
<1> SUFFICES ASSUME AInv, [Next]_simVars PROVE AInv'
  OBVIOUS
<1>1. CASE EnterIteration \/ LeaveLoop \/ \E p \in Pids : Admit(p)
  BY <1>1, LoopKeepsAInv
<1>2. CASE \E pid \in Pids \cup {Idle, Unknown} : Account(pid)
  BY <1>2, AccountKeepsAInv
<1>3. CASE UNCHANGED simVars
  <2>1. /\ ControlInv' /\ AdmissionInv' /\ VerdictSound' /\ UnitsWithinTime'
        /\ SimTypeOK'
    BY <1>3 DEF AInv, simVars, ControlInv, AdmissionInv, AdmittedOnTime, VerdictSound,
                Overran, still_running, Unfinished, UnitsWithinTime, SimTypeOK
  <2>2. Done' = Done /\ time \in Nat
    BY <1>3, SimulatorAssumption DEF AInv, SimTypeOK, simVars, Done, Unfinished
  <2>3. FinishedApart'
    BY <1>3, <2>2, PerUnitStays DEF simVars
  <2> QED
    BY <2>1, <2>3 DEF AInv
<1> QED
  BY <1>1, <1>2, <1>3 DEF Next

-----------------------------------------------------------------------------
(* The inductive invariant of the simulator.                               *)
THEOREM Invariance == Spec => []AInv
  BY InitAInv, NextKeepsAInv, PTL DEF Spec, Safety

(* What run_simulation reports is what has happened to the processes.      *)
THEOREM VerdictsAreSound == Spec => []VerdictSound
<1>1. AInv => VerdictSound
  BY DEF AInv
<1> QED
  BY <1>1, Invariance, PTL

(* No submission can be given more than one unit at a time, or make two    *)
(* processes end in the same one.                                          *)
THEOREM UnitsAreNotShared == Spec => []OneProcessPerUnit
<1>1. AInv => OneProcessPerUnit
  BY FinishedApartIsProperty DEF AInv
<1> QED
  BY <1>1, Invariance, PTL

(* Every process is handed over in the time unit it arrives, before that   *)
(* unit's choice.                                                          *)
THEOREM ArrivalsAreHandedOver == Spec => []AdmittedOnTime
<1>1. AInv => AdmittedOnTime
  BY DEF AInv, AdmissionInv
<1> QED
  BY <1>1, Invariance, PTL

(***************************************************************************)
(* The loader, which reads the workload that the simulation starts from.   *)
(***************************************************************************)
USE LoaderAssumption

(* A process that main accepts.                                            *)
Accepted == [pid : 1 .. MAX_PID - 1, arrival_time : 0 .. TIMEOUT - 1,
             processing_time : 1 .. TIMEOUT - 1]

(* A file with lines: each process read is that of a line of its own, for  *)
(* the last line, which is met again at the end of the file, repeats a PID.*)
OwnLines ==
  Text # <<>> =>
    /\ Len(processes) <= Len(Text)
    /\ \A i \in DOMAIN processes : processes[i] = parse(Text[i])

DistinctPids ==
  \A i, j \in DOMAIN processes : i # j => processes[i].pid # processes[j].pid

CountInv ==
  /\ loading = "count" => processes = <<>>
  /\ loading = "lines" \/ outcome \notin {"reading", "bad_count", "crashed"} =>
       /\ num_processes >= 1
       /\ header # Bad => num_processes = header
  /\ outcome = "run" => Len(processes) = num_processes

LoaderInv ==
  /\ LoaderTypeOK
  /\ processes \in Seq(Accepted)
  /\ OwnLines
  /\ DistinctPids
  /\ CountInv
  /\ RefusalIsAboutNextLine

AnyLine == Lines \cup {Refused}

-----------------------------------------------------------------------------
(* What read_process_initial makes of a line: a number for the PID, and    *)
(* numbers for the times unless the PID is 0.                              *)
LEMMA ParsedLine ==
  ASSUME NEW line \in AnyLine
  PROVE  /\ parse(line) = [pid |-> parse(line).pid,
                             arrival_time |-> parse(line).arrival_time,
                             processing_time |-> parse(line).processing_time]
         /\ parse(line).pid \in Nat
         /\ parse(line).pid # 0 => /\ parse(line).arrival_time \in Nat
                                     /\ parse(line).processing_time \in Nat
                                     /\ line.pid = parse(line).pid
<1>1. /\ line.pid \in Field /\ line.arrival_time \in Field
      /\ line.processing_time \in Field
  BY DEF LoaderAssumption, AnyLine, Refused, Field
<1> QED
  BY <1>1 DEF parse, Number, Field, Bad, Empty

(* What the verdict says of a line.                                        *)
Fault(verdict, next) ==
  \/ verdict = "bad_line" /\ next.pid = 0
  \/ verdict = "bad_pid" /\ (next.pid > MAX_PID \/ LegalPidRefused(next.pid))
  \/ verdict = "bad_arrival" /\ next.arrival_time >= TIMEOUT
  \/ verdict = "bad_processing" /\ next.processing_time \notin 1 .. TIMEOUT - 1
  \/ /\ verdict = "repeated_pid" /\ next.pid # 0
     /\ \E j \in DOMAIN processes : processes[j].pid = next.pid

(* The tests of main are what makes a process acceptable.                  *)
LEMMA VerdictOnLine ==
  ASSUME NEW line \in AnyLine
  PROVE  /\ Verdict(parse(line)) = "reading" =>
              /\ parse(line) \in Accepted
              /\ \A j \in DOMAIN processes : processes[j].pid # parse(line).pid
         /\ Verdict(parse(line)) # "reading" =>
              /\ Verdict(parse(line)) \in
                   {"bad_line", "bad_pid", "bad_arrival", "bad_processing", "repeated_pid"}
              /\ Fault(Verdict(parse(line)), parse(line))
<1> DEFINE parsed == parse(line)
<1>1. /\ parsed = [pid |-> parsed.pid, arrival_time |-> parsed.arrival_time,
                   processing_time |-> parsed.processing_time]
      /\ parsed.pid \in Nat
      /\ parsed.pid # 0 => parsed.arrival_time \in Nat /\ parsed.processing_time \in Nat
  BY ParsedLine
<1>2. MAX_PID \in Nat /\ TIMEOUT \in Nat
  BY DEF LoaderAssumption
<1> HIDE DEF parsed
<1>3. Verdict(parsed) = "reading" =>
        /\ parsed.pid # 0 /\ ~(parsed.pid >= MAX_PID) /\ ~(parsed.arrival_time >= TIMEOUT)
        /\ ~(parsed.processing_time <= 0 \/ parsed.processing_time >= TIMEOUT)
        /\ \A j \in DOMAIN processes : processes[j].pid # parsed.pid
  BY DEF Verdict
<1>4. Verdict(parsed) # "reading" =>
        \/ Verdict(parsed) = "bad_line" /\ parsed.pid = 0
        \/ Verdict(parsed) = "bad_pid" /\ parsed.pid >= MAX_PID
        \/ Verdict(parsed) = "bad_arrival" /\ parsed.arrival_time >= TIMEOUT
        \/ /\ Verdict(parsed) = "bad_processing"
           /\ (parsed.processing_time <= 0 \/ parsed.processing_time >= TIMEOUT)
        \/ /\ Verdict(parsed) = "repeated_pid" /\ parsed.pid # 0
           /\ \E j \in DOMAIN processes : processes[j].pid = parsed.pid
  BY DEF Verdict
<1>5. Verdict(parsed) = "reading" => parsed \in Accepted
  BY <1>1, <1>2, <1>3 DEF Accepted
<1>6. Verdict(parsed) # "reading" => Fault(Verdict(parsed), parsed)
  BY <1>1, <1>2, <1>4 DEF Fault, LegalPidRefused
<1> QED
  BY <1>3, <1>4, <1>5, <1>6 DEF parsed

(* The text is a sequence of lines, and so is what the buffer may hold.    *)
LEMMA BufferedLine ==
  ASSUME file \in Seq(Lines), NEW i \in Nat \ {0}
  PROVE  /\ Text \in Seq(AnyLine)
         /\ Buffer(i) \subseteq AnyLine
         /\ i <= Len(Text) => Buffer(i) = {Text[i]}
         /\ i > Len(Text) /\ Text # <<>> => Buffer(i) = {Text[Len(Text)]}
<1>1. Text \in Seq(AnyLine)
  <2>1. file \in Seq(AnyLine) /\ <<Refused>> \in Seq(AnyLine)
    BY DEF AnyLine
  <2> QED
    BY <2>1 DEF Text
<1> DEFINE text == Text
<1>2. /\ i <= Len(text) => text[i] \in AnyLine
      /\ text # <<>> => text[Len(text)] \in AnyLine
      /\ Len(text) \in Nat
  BY <1>1
<1> HIDE DEF text
<1>3. /\ i <= Len(text) => Buffer(i) = {text[i]}
      /\ i > Len(text) /\ text # <<>> => Buffer(i) = {text[Len(text)]}
      /\ i > Len(text) /\ text = <<>> => Buffer(i) = Lines
  BY <1>2 DEF Buffer, text
<1>4. Buffer(i) \subseteq AnyLine
  BY <1>2, <1>3 DEF AnyLine
<1> QED
  BY <1>1, <1>3, <1>4 DEF text

LEMMA InitLoader ==
  ASSUME LoaderInit
  PROVE  LoaderInv
<1>1. file \in Seq(Lines)
  BY DEF LoaderInit, BoundedSeq, SeqOf
<1>2. LoaderTypeOK
  BY <1>1 DEF LoaderInit, LoaderTypeOK, Outcomes
<1>3. processes = <<>> /\ loading = "count" /\ outcome = "reading"
  BY DEF LoaderInit
<1> QED
  BY <1>2, <1>3 DEF LoaderInv, OwnLines, DistinctPids, CountInv, RefusalIsAboutNextLine

(* The count: nothing has been read yet.                                   *)
LEMMA CountKeepsLoader ==
  ASSUME LoaderInv, ReadCount \/ RefuseCount \/ StackOverflow
  PROVE  LoaderInv'
<1>1. /\ UNCHANGED <<header, file, processes>> /\ processes = <<>>
      /\ LoaderTypeOK /\ header \in Nat \cup {Bad, EndOfFile}
  BY DEF LoaderInv, CountInv, ReadCount, RefuseCount, StackOverflow, LoaderTypeOK,
         LoaderAssumption
<1>2. \A n \in Count : n \in Nat /\ (header # Bad => n = header)
  BY <1>1 DEF Count, Bad, EndOfFile, LoaderAssumption
<1>3. /\ num_processes' \in Nat
      /\ \/ /\ loading' = "lines" /\ outcome' = "reading"
            /\ num_processes' >= 1 /\ (header # Bad => num_processes' = header)
         \/ loading' = "done" /\ outcome' \in {"bad_count", "crashed"}
  BY <1>1, <1>2 DEF ReadCount, RefuseCount, StackOverflow, CountInRange, LoaderTypeOK
<1>4. LoaderTypeOK'
  BY <1>1, <1>3 DEF LoaderTypeOK, Outcomes
<1>5. CountInv'
  BY <1>1, <1>3 DEF CountInv
<1>6. RefusalIsAboutNextLine'
  BY <1>3 DEF RefusalIsAboutNextLine
<1> QED
  BY <1>1, <1>4, <1>5, <1>6 DEF LoaderInv, OwnLines, DistinctPids

(* A line that is accepted is no line met again.                           *)
LEMMA AcceptKeepsLoader ==
  ASSUME LoaderInv, AcceptLine
  PROVE  LoaderInv'
<1> DEFINE k == Len(processes) + 1
           text == Text
<1>1. /\ processes \in Seq(Accepted) /\ file \in Seq(Lines) /\ k \in Nat \ {0}
      /\ Len(processes) < num_processes /\ num_processes \in Nat
      /\ loading = "lines" /\ outcome = "reading" /\ Len(processes) \in Nat
      /\ UNCHANGED <<header, file, num_processes, loading, outcome>>
  BY DEF LoaderInv, LoaderTypeOK, AcceptLine
<1>2. PICK line \in Buffer(k) : /\ Verdict(parse(line)) = "reading"
                                  /\ processes' = Append(processes, parse(line))
  BY DEF AcceptLine
<1>3. text \in Seq(AnyLine) /\ line \in AnyLine
  BY <1>1, <1>2, BufferedLine
<1> DEFINE new == parse(line)
<1>4. new \in Accepted /\ \A j \in DOMAIN processes : processes[j].pid # new.pid
  BY <1>2, <1>3, VerdictOnLine
<1>5. ASSUME text # <<>>
      PROVE  k <= Len(text) /\ line = text[k]
  <2>1. Len(text) \in Nat \ {0} /\ Len(processes) <= Len(text)
    BY <1>3, <1>5 DEF LoaderInv, OwnLines
  <2>2. ASSUME k > Len(text) PROVE FALSE
    <3>1. Len(processes) = Len(text) /\ Len(text) \in DOMAIN processes
      BY <2>1, <2>2, <1>1
    <3>2. line = text[Len(text)]
      BY <1>1, <1>2, <1>5, <2>2, BufferedLine
    <3>3. processes[Len(text)] = new
      BY <1>5, <3>1, <3>2 DEF LoaderInv, OwnLines
    <3> QED
      BY <1>4, <3>1, <3>3
  <2>3. k <= Len(text)
    BY <2>1, <2>2, <1>1
  <2> QED
    BY <2>3, <1>1, <1>2, BufferedLine
<1> HIDE DEF new
<1>6. /\ processes' = Append(processes, new) /\ processes' \in Seq(Accepted)
      /\ Len(processes') = k /\ DOMAIN processes' = 1 .. k
      /\ \A i \in DOMAIN processes : processes'[i] = processes[i]
      /\ processes'[k] = new /\ DOMAIN processes = 1 .. k - 1
  BY <1>1, <1>2, <1>4 DEF new
<1>7. LoaderTypeOK'
  BY <1>1, <1>6 DEF LoaderInv, LoaderTypeOK
<1>8. OwnLines'
  <2>1. text' = text /\ \A l : parse(l)' = parse(l)
    BY <1>1 DEF Text, parse, Number
  <2>2. ASSUME text # <<>>
        PROVE  k <= Len(text) /\ \A i \in 1 .. k : processes'[i] = parse(text[i])
    <3>1. \A i \in 1 .. k - 1 : processes[i] = parse(text[i])
      BY <2>2, <1>6 DEF LoaderInv, OwnLines
    <3> QED
      BY <2>2, <3>1, <1>1, <1>5, <1>6 DEF new
  <2> QED
    BY <2>1, <2>2, <1>6 DEF OwnLines
<1>9. DistinctPids'
  BY <1>1, <1>4, <1>6 DEF LoaderInv, DistinctPids
<1>10. CountInv' /\ RefusalIsAboutNextLine'
  BY <1>1 DEF LoaderInv, CountInv, RefusalIsAboutNextLine
<1> QED
  BY <1>6, <1>7, <1>8, <1>9, <1>10 DEF LoaderInv

(* A line that is refused is the next one of the file.                     *)
LEMMA RefuseKeepsLoader ==
  ASSUME LoaderInv, RefuseLine
  PROVE  LoaderInv'
<1> DEFINE k == Len(processes) + 1
<1>1. /\ processes \in Seq(Accepted) /\ file \in Seq(Lines) /\ k \in Nat \ {0}
      /\ num_processes >= 1 /\ (header # Bad => num_processes = header)
      /\ loading = "lines" /\ outcome = "reading" /\ loading' = "done"
      /\ UNCHANGED <<header, file, num_processes, processes>>
  BY DEF LoaderInv, LoaderTypeOK, RefuseLine, CountInv
<1>2. PICK line \in Buffer(k) : /\ Verdict(parse(line)) # "reading"
                                  /\ outcome' = Verdict(parse(line))
  BY DEF RefuseLine
<1>3. line \in AnyLine
  BY <1>1, <1>2, BufferedLine
<1> DEFINE next == parse(line)
<1>4. /\ outcome' \in {"bad_line", "bad_pid", "bad_arrival", "bad_processing",
                       "repeated_pid"}
      /\ Fault(outcome', next)
  BY <1>2, <1>3, VerdictOnLine
<1>5. LoaderTypeOK' /\ CountInv'
  BY <1>1, <1>4 DEF LoaderInv, LoaderTypeOK, Outcomes, CountInv
<1>6. (OwnLines /\ DistinctPids)'
  BY <1>1 DEF LoaderInv, OwnLines, DistinctPids, Text, parse, Number
<1>7. RefusalIsAboutNextLine'
  <2> SUFFICES ASSUME Len(processes) < Len(file)
               PROVE  /\ \A i \in DOMAIN processes : processes[i] = parse(file[i])
                      /\ \/ header = Bad
                         \/ outcome' = "bad_line" /\ parse(file[k]).pid = 0
                         \/ /\ outcome' = "bad_pid"
                            /\ \/ parse(file[k]).pid > MAX_PID
                               \/ LegalPidRefused(parse(file[k]).pid)
                         \/ outcome' = "bad_arrival" /\ parse(file[k]).arrival_time >= TIMEOUT
                         \/ /\ outcome' = "bad_processing"
                            /\ parse(file[k]).processing_time \notin 1 .. TIMEOUT - 1
                         \/ /\ outcome' = "repeated_pid"
                            /\ \E i \in DOMAIN processes : file[i].pid = parse(file[k]).pid
    BY <1>1 DEF RefusalIsAboutNextLine, LegalPidRefused, parse, Number
  <2>1. CASE header = Bad
    <3>1. Text # <<>> /\ Text[1] = Refused
      BY <2>1, <1>1 DEF Text
    <3>2. parse(Refused).pid = 0
      BY DEF parse, Refused
    <3>3. ASSUME processes # <<>> PROVE FALSE
      <4>1. 1 \in DOMAIN processes /\ processes[1] \in Accepted
        BY <3>3, <1>1
      <4>2. processes[1].pid = 0
        BY <4>1, <3>1, <3>2 DEF LoaderInv, OwnLines
      <4> QED
        BY <4>1, <4>2 DEF Accepted
    <3> QED
      BY <2>1, <3>3
  <2>2. CASE header # Bad
    <3>1. Text = file /\ k <= Len(file) /\ file # <<>>
      BY <2>2, <1>1 DEF Text
    <3>2. line = file[k]
      BY <3>1, <1>1, <1>2, BufferedLine
    <3>3. \A i \in DOMAIN processes : processes[i] = parse(file[i])
      BY <3>1 DEF LoaderInv, OwnLines
    <3>4. ASSUME NEW j \in DOMAIN processes, processes[j].pid = next.pid, next.pid # 0
          PROVE  file[j].pid = next.pid
      <4>1. file[j] \in AnyLine
        BY <1>1, <3>1 DEF AnyLine
      <4> QED
        BY <4>1, <3>3, <3>4, ParsedLine
    <3> QED
      BY <1>4, <3>2, <3>3, <3>4 DEF Fault
  <2> QED
    BY <2>1, <2>2
<1> QED
  BY <1>1, <1>5, <1>6, <1>7 DEF LoaderInv

LEMMA NextKeepsLoader ==
  ASSUME LoaderInv, [LoaderNext]_loaderVars
  PROVE  LoaderInv'
<1>1. CASE ReadCount \/ RefuseCount \/ StackOverflow
  BY <1>1, CountKeepsLoader
<1>2. CASE AcceptLine
  BY <1>2, AcceptKeepsLoader
<1>3. CASE RefuseLine
  BY <1>3, RefuseKeepsLoader
<1>4. CASE RunSimulation \/ UNCHANGED loaderVars
  <2>1. /\ UNCHANGED <<header, file, num_processes, processes>>
        /\ \/ loading = "lines" /\ Len(processes) = num_processes
              /\ loading' = "done" /\ outcome' = "run"
           \/ UNCHANGED <<loading, outcome>>
    BY <1>4 DEF RunSimulation, loaderVars
  <2>2. LoaderTypeOK' /\ CountInv'
    BY <2>1 DEF LoaderInv, LoaderTypeOK, Outcomes, CountInv
  <2>3. (OwnLines /\ DistinctPids)'
    BY <2>1 DEF LoaderInv, OwnLines, DistinctPids, Text, parse, Number
  <2>4. RefusalIsAboutNextLine'
    BY <2>1 DEF LoaderInv, RefusalIsAboutNextLine, parse, Number
  <2> QED
    BY <2>1, <2>2, <2>3, <2>4 DEF LoaderInv
<1> QED
  BY <1>1, <1>2, <1>3, <1>4 DEF LoaderNext

(* The inductive invariant of the loader.                                  *)
THEOREM LoaderInvariance ==
  LoaderSpec => []LoaderInv
<1>1. LoaderInit => LoaderInv
  BY InitLoader
<1>2. LoaderInv /\ [LoaderNext]_loaderVars => LoaderInv'
  BY NextKeepsLoader
<1> QED
  BY <1>1, <1>2, PTL DEF LoaderSpec

(* Whatever is read, and whatever is parsed past the end of the file, the  *)
(* simulation starts from a workload that its constants allow.             *)
THEOREM LoadedWorkloadIsValid ==
  LoaderSpec => []WorkloadValid
<1>1. LoaderInv => WorkloadValid
  <2> SUFFICES ASSUME LoaderInv, outcome = "run" PROVE WorkloadValid
    BY DEF WorkloadValid
  <2>1. Len(processes) = num_processes /\ \A i \in DOMAIN processes : processes[i] \in Accepted
    BY DEF LoaderInv, CountInv
  <2>2. MAX_PID \in Nat /\ TIMEOUT \in Nat
    BY DEF LoaderAssumption
  <2> QED
    BY <2>1, <2>2 DEF WorkloadValid, Accepted, LoaderInv, DistinctPids
<1> QED
  BY <1>1, LoaderInvariance, PTL

(* The missing tests for the end of the file and for the number are not    *)
(* needed in a file with at least one line to parse: it is simulated only  *)
(* when it has enough of them.  Nothing is said of a file with only its    *)
(* header.                                                                 *)
THEOREM TruncationIsNoticed ==
  LoaderSpec => []TruncatedFileRefused
<1>1. LoaderInv => TruncatedFileRefused
  <2> SUFFICES ASSUME LoaderInv, outcome = "run", Text # <<>> PROVE TruncatedFileRefused
    BY DEF TruncatedFileRefused
  <2>1. /\ Len(processes) = num_processes /\ num_processes >= 1
        /\ header # Bad => num_processes = header
        /\ processes \in Seq(Accepted) /\ file \in Seq(Lines)
        /\ Len(processes) <= Len(Text)
        /\ \A i \in DOMAIN processes : processes[i] = parse(Text[i])
    BY DEF LoaderInv, CountInv, OwnLines, LoaderTypeOK
  <2>2. header # Bad
    <3> SUFFICES ASSUME header = Bad PROVE FALSE
      OBVIOUS
    <3>1. Text[1] = Refused
      BY <2>1 DEF Text
    <3>2. parse(Refused).pid = 0
      BY DEF parse, Refused
    <3>3. 1 \in DOMAIN processes /\ processes[1] \in Accepted
      BY <2>1
    <3>4. processes[1].pid = 0
      BY <2>1, <3>1, <3>2, <3>3
    <3> QED
      BY <3>3, <3>4 DEF Accepted
  <2>3. Text = file
    BY <2>2 DEF Text
  <2> QED
    BY <2>1, <2>2, <2>3 DEF TruncatedFileRefused
<1> QED
  BY <1>1, LoaderInvariance, PTL

(* A refusal blames the first line that cannot be accepted.                *)
THEOREM FirstBadLineIsRefused ==
  LoaderSpec => []RefusalIsAboutNextLine
<1>1. LoaderInv => RefusalIsAboutNextLine
  BY DEF LoaderInv
<1> QED
  BY <1>1, LoaderInvariance, PTL

(***************************************************************************)
(* The marking script, for any number of submissions, executions, edits    *)
(* and signals.                                                            *)
(***************************************************************************)
(* The places in the script without a directory, in it, and beside it.     *)
Clear == {"begin", "collected", "generate", "touched", "mark", "end"}
Within == {"collect_setup", "collect", "collect_popd", "setup", "process", "popd", "exit"}
Beside == {"collect_made", "made", "collect_rm", "rm"}

(* The temporary directory is there only between mktemp and rm.  Where the *)
(* script should be in it, it has left it only by its handler, which then  *)
(* removes it; and the handler runs once, after a signal or at the exit.   *)
DirInv ==
  /\ label \in {"idle"} \cup Clear \cup Within \cup Beside
  /\ handler \in {"none", "popd", "rm"} /\ trapped \in BOOLEAN /\ signals \in Nat
  /\ label \in Clear => sim_dir = "removed"
  /\ label \in Within /\ handler # "rm" /\ ~pushed => sim_dir = "removed"
  /\ handler # "none" => sim_dir # "removed" /\ ~trapped /\ label # "idle"
  /\ label = "exit" => handler # "none"
  /\ ~trapped => label \in {"idle", "exit"} \/ disturbed

(* An execution that ends is at rest, whatever it leaves.                  *)
LEMMA QuitKeepsDirInv ==
  ASSUME DirInv, Quit, signals' \in Nat
  PROVE  DirInv'
BY DEF Quit, DirInv, Clear, Within, Beside

(* The commands that make, enter, leave and remove the directory.          *)
LEMMA DirStep ==
  ASSUME DirInv, MakeDir \/ PushDir \/ PopDir \/ RemoveDir
  PROVE  DirInv'
<1>1. CASE MakeDir
  BY <1>1 DEF DirInv, Clear, Within, Beside, MakeDir, At, trap, counts
<1>2. CASE PushDir
  BY <1>2 DEF DirInv, Clear, Within, Beside, PushDir, At, trap, counts
<1>3. CASE PopDir
  <2>1. CASE pushed
    BY <1>3, <2>1 DEF DirInv, Clear, Within, Beside, PopDir, At, trap, counts
  <2>2. CASE ~pushed
    BY <1>3, <2>2, QuitKeepsDirInv DEF DirInv, PopDir, counts
  <2> QED
    BY <2>1, <2>2
<1>4. CASE RemoveDir
  BY <1>4 DEF DirInv, Clear, Within, Beside, RemoveDir, At, trap, counts
<1> QED
  BY <1>1, <1>2, <1>3, <1>4

(* The end of the script, and its handler.                                 *)
LEMMA ExitStep ==
  ASSUME DirInv, CollectDies \/ End \/ HandlerPop \/ HandlerRemove
  PROVE  DirInv'
<1>1. CASE CollectDies \/ End
  <2>1. /\ handler = "none" /\ (label = "collect_setup" \/ label = "end")
        /\ Exit /\ UNCHANGED <<sim_dir, signals>>
    BY <1>1 DEF CollectDies, End, At, counts
  <2>2. CASE trapped /\ sim_dir # "removed"
    BY <2>1, <2>2 DEF DirInv, Clear, Within, Beside, Exit
  <2>3. CASE ~(trapped /\ sim_dir # "removed")
    BY <2>1, <2>3, QuitKeepsDirInv DEF DirInv, Exit
  <2> QED
    BY <2>2, <2>3
<1>2. CASE HandlerPop
  <2>1. CASE pushed
    BY <1>2, <2>1 DEF DirInv, Clear, Within, Beside, HandlerPop, counts
  <2>2. CASE ~pushed
    BY <1>2, <2>2, QuitKeepsDirInv DEF DirInv, HandlerPop, counts
  <2> QED
    BY <2>1, <2>2
<1>3. CASE HandlerRemove
  <2>1. CASE label = "exit"
    BY <1>3, <2>1, QuitKeepsDirInv DEF DirInv, HandlerRemove, counts
  <2>2. CASE label # "exit"
    BY <1>3, <2>2 DEF DirInv, Clear, Within, Beside, HandlerRemove, counts
  <2> QED
    BY <2>1, <2>2
<1> QED
  BY <1>1, <1>2, <1>3

LEMMA DirInvStep ==
  ASSUME DirInv, [ScriptNext]_scriptVars
  PROVE  DirInv'
<1>1. CASE Start
  BY <1>1 DEF DirInv, Clear, Within, Beside, Start
<1>2. CASE MakeDir \/ PushDir \/ PopDir \/ RemoveDir
  BY <1>2, DirStep
<1>3. CASE CollectDies \/ End \/ HandlerPop \/ HandlerRemove
  BY <1>3, ExitStep
<1>4. CASE CollectBegin \/ CollectEnd
  BY <1>4 DEF DirInv, Clear, Within, Beside, CollectBegin, CollectEnd, At, SetUp, Compiles,
              dir, trap, counts
<1>5. ASSUME NEW w \in Submissions, Collect(w) PROVE DirInv'
  BY <1>5 DEF DirInv, Clear, Within, Beside, Collect, dir, trap, counts
<1>6. CASE Generate \/ Compile \/ Processed \/ Mark
  BY <1>6 DEF DirInv, Clear, Within, Beside, Generate, Compile, Processed, Mark, At, SetUp,
              Compiles, dir, trap, counts
<1>7. ASSUME NEW w \in Authors, Touch(w) PROVE DirInv'
  BY <1>7 DEF DirInv, Clear, Within, Beside, Touch, At, dir, trap, counts
<1>8. ASSUME NEW n \in Names \cup {NoSuchFile}, Process(n) PROVE DirInv'
  BY <1>8 DEF DirInv, Clear, Within, Beside, Process, dir, trap, counts
<1>9. CASE Signal
  <2>1. /\ label' = label /\ label # "idle" /\ UNCHANGED <<sim_dir, pushed>>
        /\ handler = "none" /\ label # "exit"
    BY <1>9 DEF DirInv, Signal, dir
  <2>2. /\ trapped' = FALSE /\ disturbed' = TRUE /\ signals' \in Nat
        /\ handler' = IF sim_dir = "removed" THEN "none" ELSE "popd"
    BY <1>9 DEF DirInv, Signal
  <2> QED
    BY <2>1, <2>2 DEF DirInv
<1>10. CASE SecondSignal
  BY <1>10, QuitKeepsDirInv DEF DirInv, SecondSignal
<1>11. CASE Edit \/ RemoveSchedule
  BY <1>11 DEF DirInv, Clear, Within, Beside, Edit, RemoveSchedule, dir, trap
<1>12. CASE UNCHANGED scriptVars
  BY <1>12 DEF DirInv, Clear, Within, Beside, scriptVars, dir, trap, counts
<1> QED
  BY <1>1, <1>2, <1>3, <1>4, <1>5, <1>6, <1>7, <1>8, <1>9, <1>10, <1>11, <1>12
     DEF ScriptNext, ScriptStep

LEMMA DirInvariance == ScriptSpec => []DirInv
<1>1. ScriptInit => DirInv
  <2>1. ScriptInit =>
          /\ label = "idle" /\ handler = "none" /\ trapped = FALSE /\ signals \in Nat
          /\ label \notin Clear \cup Within
    BY DEF ScriptInit, Clear, Within
  <2> QED
    BY <2>1 DEF DirInv
<1> QED
  BY <1>1, DirInvStep, PTL DEF ScriptSpec

(* A directory stays behind only where the property says.                  *)
LEMMA LeftBehind ==
  ASSUME DirInv, ScriptNext, label # "idle", label' = "idle", sim_dir' # "removed"
  PROVE  /\ label # "end"
         /\ \/ signals' > signals /\ (disturbed \/ label = "exit")
            \/ disturbed /\ label = "collect_setup"
            \/ disturbed /\ handler = "popd" /\ OutsideDir
<1>1. ASSUME MakeDir \/ PushDir \/ RemoveDir \/ Start \/ CollectBegin \/ CollectEnd
             \/ Generate \/ Compile \/ Processed \/ Mark \/ Edit \/ RemoveSchedule \/ Signal
      PROVE  FALSE
  BY <1>1 DEF MakeDir, PushDir, RemoveDir, Start, CollectBegin, CollectEnd, Generate, Compile,
              Processed, Mark, Edit, RemoveSchedule, Signal
<1>2. ASSUME \/ \E w \in Submissions : Collect(w)
             \/ \E w \in Authors : Touch(w)
             \/ \E n \in Names \cup {NoSuchFile} : Process(n)
      PROVE  FALSE
  BY <1>2 DEF Collect, Touch, Process
<1>3. ASSUME PopDir \/ End \/ HandlerRemove
      PROVE  FALSE
  BY <1>3 DEF PopDir, End, HandlerRemove, At, DirInv, Clear, Within
<1>4. CASE CollectDies
  BY <1>4 DEF CollectDies, Exit, At, DirInv
<1>5. CASE SecondSignal
  BY <1>5 DEF SecondSignal, DirInv, Clear
<1>6. CASE HandlerPop
  BY <1>6 DEF HandlerPop, DirInv, Clear, Within, Beside, OutsideDir
<1> QED
  BY <1>1, <1>2, <1>3, <1>4, <1>5, <1>6 DEF ScriptNext, ScriptStep

(* mktemp runs only where there is no directory.                           *)
LEMMA OneDirectory ==
  ASSUME DirInv, ScriptNext, sim_dir' = "unbuilt", sim_dir' # sim_dir
  PROVE  sim_dir = "removed"
<1>1. ASSUME PushDir \/ PopDir \/ CollectDies \/ CollectEnd \/ Generate \/ Processed \/ Mark
             \/ End \/ Signal \/ SecondSignal \/ HandlerPop \/ Edit \/ RemoveSchedule
      PROVE  FALSE
  BY <1>1 DEF PushDir, PopDir, CollectDies, CollectEnd, Generate, Processed, Mark, End, Signal,
              SecondSignal, HandlerPop, Edit, RemoveSchedule, dir
<1>2. ASSUME \/ \E w \in Submissions : Collect(w)
             \/ \E w \in Authors : Touch(w)
             \/ \E n \in Names \cup {NoSuchFile} : Process(n)
      PROVE  FALSE
  BY <1>2 DEF Collect, Touch, Process, dir
<1>3. ASSUME Start \/ RemoveDir \/ HandlerRemove \/ CollectBegin \/ Compile PROVE FALSE
  BY <1>3 DEF Start, RemoveDir, HandlerRemove, CollectBegin, Compile, SetUp, Compiles
<1>4. CASE MakeDir
  BY <1>4 DEF MakeDir, At, DirInv, Clear
<1> QED
  BY <1>1, <1>2, <1>3, <1>4 DEF ScriptNext, ScriptStep

(* The simulator that the script compiles stays behind only when a signal  *)
(* meets the script at one of the places the property names.               *)
THEOREM DirectoryIsRemoved == ScriptSpec => SimulatorRemoved
<1> DEFINE Kept ==
      /\ sim_dir' = "unbuilt" /\ sim_dir' # sim_dir => sim_dir = "removed"
      /\ label # "idle" /\ label' = "idle" /\ sim_dir' # "removed" =>
           /\ label # "end"
           /\ \/ signals' > signals /\ (disturbed \/ label = "exit")
              \/ disturbed /\ label = "collect_setup"
              \/ disturbed /\ handler = "popd" /\ OutsideDir
<1>1. DirInv /\ ScriptNext => Kept
  BY OneDirectory, LeftBehind
<1>2. DirInv /\ [ScriptNext]_scriptVars => [Kept]_scriptVars
  BY <1>1
<1>3. ScriptSpec => [][Kept]_scriptVars
  BY <1>2, DirInvariance, PTL DEF ScriptSpec
<1> QED
  BY <1>3 DEF SimulatorRemoved

-----------------------------------------------------------------------------
(* A name that mktemp has given is not given again.                        *)
CollectedInv ==
  /\ CollectedOnce
  /\ fresh \in Nat
  /\ \A n \in DOMAIN schedules : n \in Nat /\ n < fresh

LEMMA CollectKeepsSchedules ==
  ASSUME CollectedInv, NEW w \in Submissions, Collect(w)
  PROVE  CollectedInv'
<1>1. valid' = valid
  BY DEF Collect, given
<1>2. CASE ~Collectable(w)
  BY <1>1, <1>2 DEF Collect, CollectedInv, CollectedOnce
<1>3. CASE Collectable(w)
  <2> DEFINE new == <<spec[w], "collected">>
  <2>1. /\ spec[w] \in valid
        /\ \A n \in DOMAIN schedules : schedules[n] # new
    BY <1>3 DEF Collectable, Succeeds, Unique
  <2>2. /\ fresh' = fresh + 1 /\ fresh \in Nat /\ fresh \notin DOMAIN schedules
        /\ DOMAIN schedules' = DOMAIN schedules \cup {fresh}
        /\ schedules'[fresh] = new
        /\ \A n \in DOMAIN schedules : schedules'[n] = schedules[n]
    BY <1>3 DEF Collect, Added, CollectedInv
  <2>3. new[1] = spec[w]
    OBVIOUS
  <2> HIDE DEF new
  <2>4. CollectedOnce'
    BY <1>1, <2>1, <2>2, <2>3 DEF CollectedInv, CollectedOnce
  <2> QED
    BY <2>2, <2>4 DEF CollectedInv
<1> QED
  BY <1>2, <1>3

LEMMA CollectedStep ==
  ASSUME CollectedInv, [ScriptNext]_scriptVars
  PROVE  CollectedInv'
<1>1. ASSUME UNCHANGED <<valid, schedules, fresh>> PROVE CollectedInv'
  BY <1>1 DEF CollectedInv, CollectedOnce
<1>2. ASSUME NEW w \in Submissions, Collect(w) PROVE CollectedInv'
  BY <1>2, CollectKeepsSchedules
<1>3. CASE RemoveSchedule
  <2>1. PICK n \in DOMAIN schedules :
          schedules' = [m \in DOMAIN schedules \ {n} |-> schedules[m]]
    BY <1>3 DEF RemoveSchedule
  <2> QED
    BY <1>3, <2>1 DEF RemoveSchedule, CollectedInv, CollectedOnce, given
<1>4. CASE \/ Start \/ CollectBegin \/ CollectEnd \/ CollectDies \/ End
           \/ MakeDir \/ PushDir \/ PopDir \/ RemoveDir
  BY <1>1, <1>4 DEF Start, CollectBegin, CollectEnd, CollectDies, End, MakeDir, PushDir,
                    PopDir, RemoveDir, given, files
<1>5. CASE Generate \/ Compile \/ Processed \/ Mark
  BY <1>1, <1>5 DEF Generate, Compile, Processed, Mark, given, files
<1>6. ASSUME NEW w \in Authors, Touch(w) PROVE CollectedInv'
  BY <1>1, <1>6 DEF Touch, given
<1>7. ASSUME NEW n \in Names \cup {NoSuchFile}, Process(n) PROVE CollectedInv'
  BY <1>1, <1>7 DEF Process, given
<1>8. CASE Signal \/ SecondSignal \/ HandlerPop \/ HandlerRemove \/ Edit
           \/ UNCHANGED scriptVars
  BY <1>1, <1>8 DEF Signal, SecondSignal, HandlerPop, HandlerRemove, Edit, scriptVars, given,
                    files
<1> QED
  BY <1>2, <1>3, <1>4, <1>5, <1>6, <1>7, <1>8 DEF ScriptNext, ScriptStep

(* However often the submissions are collected, a schedule is there once.  *)
THEOREM SchedulesAreCollectedOnce == ScriptSpec => []CollectedOnce
<1>1. ScriptInit => CollectedInv
  <2> SUFFICES ASSUME ScriptInit PROVE CollectedInv
    OBVIOUS
  <2>1. CASE schedules = Nothing
    BY <2>1 DEF ScriptInit, CollectedInv, CollectedOnce, Nothing
  <2>2. CASE \E c \in Contents : schedules = [n \in {1} |-> <<c, "given">>]
    BY <2>2 DEF ScriptInit, CollectedInv, CollectedOnce
  <2> QED
    BY <2>1, <2>2 DEF ScriptInit
<1>2. CollectedInv => CollectedOnce
  BY DEF CollectedInv
<1> QED
  BY <1>1, <1>2, CollectedStep, PTL DEF ScriptSpec
-----------------------------------------------------------------------------
(* A rank is a number between one and that of the submissions, and the     *)
(* higher one belongs to the higher average.                               *)
LEMMA RankBounds ==
  ASSUME NEW W, IsFiniteSet(W), NEW f \in [W -> Int], NEW w \in W
  PROVE  Rank(f, w) \in Int /\ Rank(f, w) >= 1 /\ Rank(f, w) <= Cardinality(W) + 1
<1>1. {v \in W : f[v] < f[w]} \subseteq W
  OBVIOUS
<1>2. Cardinality({v \in W : f[v] < f[w]}) <= Cardinality(W)
  BY <1>1, FS_Subset
<1>3. Cardinality({v \in W : f[v] < f[w]}) \in Nat /\ Cardinality(W) \in Nat
  BY <1>1, FS_Subset, FS_CardinalityType
<1>4. DOMAIN f = W
  OBVIOUS
<1> QED
  BY <1>2, <1>3, <1>4 DEF Rank

LEMMA RankGrows ==
  ASSUME NEW W, IsFiniteSet(W), NEW f \in [W -> Int], NEW w \in W, NEW v \in W,
         f[w] <= f[v]
  PROVE  Rank(f, w) <= Rank(f, v)
<1> DEFINE below(u) == {x \in W : f[x] < f[u]}
<1>1. below(w) \subseteq below(v) /\ below(v) \subseteq W
  OBVIOUS
<1>2. IsFiniteSet(below(v)) /\ IsFiniteSet(below(w))
  BY <1>1, FS_Subset
<1>3. Cardinality(below(w)) <= Cardinality(below(v))
  BY <1>1, <1>2, FS_Subset
<1>4. Cardinality(below(w)) \in Nat /\ Cardinality(below(v)) \in Nat
  BY <1>2, FS_CardinalityType
<1>5. DOMAIN f = W
  OBVIOUS
<1> QED
  BY <1>3, <1>4, <1>5 DEF Rank

LEMMA RankOfBest ==
  ASSUME NEW W, NEW f \in [W -> Int], NEW w \in W, \A v \in W : f[w] <= f[v]
  PROVE  Rank(f, w) = 1
<1>1. DOMAIN f = W
  OBVIOUS
<1>2. {v \in W : f[v] < f[w]} = {}
  OBVIOUS
<1> QED
  BY <1>1, <1>2, FS_EmptySet DEF Rank

LEMMA MaxRankBounds ==
  ASSUME NEW W, IsFiniteSet(W), NEW f \in [W -> Int], NEW w \in W
  PROVE  MaxRank(f) \in Int /\ Rank(f, w) <= MaxRank(f)
<1> DEFINE ranks == {Rank(f, v) : v \in W}
           bound == Cardinality(W) + 1
<1>1. DOMAIN f = W
  OBVIOUS
<1>2. bound \in Int
  BY FS_CardinalityType
<1>3. ASSUME NEW v \in W PROVE Rank(f, v) \in Int /\ Rank(f, v) <= bound
  BY RankBounds
<1>4. Rank(f, w) \in ranks
  OBVIOUS
<1>5. ranks \subseteq Int /\ ranks # {}
  BY <1>3, <1>4
<1>6. \A r \in ranks : r <= bound
  BY <1>3
<1> HIDE DEF ranks, bound
<1>7. Max(ranks) \in ranks /\ \A r \in ranks : r <= Max(ranks)
  BY <1>2, <1>5, <1>6, MaxOfBounded
<1>8. MaxRank(f) = Max(ranks)
  BY <1>1 DEF MaxRank, ranks
<1> QED
  BY <1>4, <1>5, <1>7, <1>8

(* What the three clauses of CompetitionFair say of any averages f.        *)
LEMMA FairShares ==
  ASSUME NEW W, IsFiniteSet(W), NEW f \in [W -> Int], NEW worst \in Int,
         \A v \in W : f[v] <= worst, NEW w \in W
  PROVE  /\ f[w] = worst => Share(f, worst, w) = 0
         /\ f[w] # worst /\ (\A v \in W : f[w] <= f[v])
              => Share(f, worst, w) = MaxRank(f)
         /\ \A v \in W : f[w] <= f[v] => Share(f, worst, v) <= Share(f, worst, w)
<1>1. MaxRank(f) \in Int /\ Rank(f, w) <= MaxRank(f)
  BY MaxRankBounds
<1>2. Rank(f, w) \in Int
  BY RankBounds
<1>3. f[w] = worst => Share(f, worst, w) = 0
  BY DEF Share
<1>4. ASSUME f[w] # worst, \A v \in W : f[w] <= f[v]
      PROVE  Share(f, worst, w) = MaxRank(f)
  <2>1. Rank(f, w) = 1
    BY <1>4, RankOfBest
  <2> QED
    BY <1>1, <1>4, <2>1 DEF Share
<1>5. ASSUME NEW v \in W, f[w] <= f[v]
      PROVE  Share(f, worst, v) <= Share(f, worst, w)
  <2>1. Rank(f, w) <= Rank(f, v)
    BY <1>5, RankGrows
  <2>2. Rank(f, v) \in Int
    BY RankBounds
  <2>3. f[v] \in Int /\ f[w] \in Int /\ f[w] <= worst
    OBVIOUS
  <2>4. CASE f[v] = worst
    BY <1>1, <1>2, <2>4 DEF Share
  <2>5. CASE f[v] # worst
    <3>1. f[w] # worst
      BY <1>5, <2>3, <2>5
    <3> QED
      BY <1>1, <1>2, <2>1, <2>2, <2>5, <3>1 DEF Share
  <2> QED
    BY <2>4, <2>5
<1> QED
  BY <1>3, <1>4, <1>5

(* The worst average is above all that are there.                          *)
LEMMA WorstIsAbove ==
  ASSUME NEW results, NEW bound \in Nat,
         \A w \in DOMAIN results : \A s \in DOMAIN results[w] :
           results[w][s] \in Int /\ results[w][s] <= bound
  PROVE  /\ Worst(results) \in Nat \ {0}
         /\ \A w \in DOMAIN results : \A s \in DOMAIN results[w] :
              results[w][s] < Worst(results)
<1> DEFINE averages == {0} \cup UNION {{results[w][s] : s \in DOMAIN results[w]} :
                                         w \in DOMAIN results}
<1>1. 0 \in averages
  OBVIOUS
<1>2. /\ averages \subseteq Int /\ averages # {} /\ bound \in Int
      /\ \A x \in averages : x <= bound
  OBVIOUS
<1>3. \A w \in DOMAIN results : \A s \in DOMAIN results[w] : results[w][s] \in averages
  OBVIOUS
<1> HIDE DEF averages
<1>4. Max(averages) \in averages /\ \A x \in averages : x <= Max(averages)
  BY <1>2, MaxOfBounded
<1>5. Worst(results) = Max(averages) + 1
  BY DEF Worst, MaxVal, averages
<1>6. Max(averages) \in Int /\ Max(averages) >= 0
  BY <1>1, <1>2, <1>4
<1>7. ASSUME NEW w \in DOMAIN results, NEW s \in DOMAIN results[w]
      PROVE  results[w][s] < Worst(results)
  <2>1. results[w][s] \in averages
    BY <1>3
  <2>2. results[w][s] \in Int /\ results[w][s] <= Max(averages)
    BY <1>2, <1>4, <2>1
  <2> QED
    BY <1>5, <1>6, <2>2
<1> QED
  BY <1>5, <1>6, <1>7

(* Whatever the averages are: the competition is fair.                     *)
THEOREM ScoresAreFair ==
  ASSUME NEW results, IsFiniteSet(DOMAIN results), NEW s,
         \A w \in DOMAIN results : s \in DOMAIN results[w],
         NEW bound \in Nat,
         \A w \in DOMAIN results : \A t \in DOMAIN results[w] :
           results[w][t] \in Int /\ results[w][t] <= bound,
         NEW w \in DOMAIN results
  PROVE  LET f == Column(results, s)
             share(v) == Share(f, Worst(results), v)
         IN /\ results[w][s] = NULL => share(w) = 0
            /\ results[w][s] # NULL /\ (\A v \in DOMAIN results : f[w] <= f[v])
                 => share(w) = MaxRank(f)
            /\ \A v \in DOMAIN results : f[w] <= f[v] => share(v) <= share(w)
<1> DEFINE W == DOMAIN results
           worst == Worst(results)
           f == Column(results, s)
<1>1. worst \in Nat /\ \A v \in W : results[v][s] \in Int /\ results[v][s] < worst
  BY WorstIsAbove
<1>2. f \in [W -> Int] /\ (\A v \in W : f[v] <= worst)
  BY <1>1 DEF Column
<1>3. f[w] = worst <=> results[w][s] = NULL
  BY <1>1 DEF Column
<1> HIDE DEF f, worst
<1>4. /\ f[w] = worst => Share(f, worst, w) = 0
      /\ f[w] # worst /\ (\A v \in W : f[w] <= f[v]) => Share(f, worst, w) = MaxRank(f)
      /\ \A v \in W : f[w] <= f[v] => Share(f, worst, v) <= Share(f, worst, w)
  BY <1>1, <1>2, FairShares
<1> QED
  BY <1>3, <1>4 DEF f, worst

(* The marks of the script are fair in every state.                        *)
THEOREM CompetitionIsFair == ScriptSpec => []CompetitionFair
<1>1. CompetitionFair
  <2> SUFFICES ASSUME NEW n \in Matches, NEW w \in Submissions
      PROVE LET f == Column(Results, n)
                share(v) == Share(f, Worst(Results), v)
            IN /\ Average(w, n) = NULL => share(w) = 0
               /\ Average(w, n) # NULL /\ (\A v \in Submissions : f[w] <= f[v])
                    => share(w) = MaxRank(f)
               /\ \A v \in Submissions : f[w] <= f[v] => share(v) <= share(w)
    BY DEF CompetitionFair
  <2>1. \A v \in Submissions, m \in Matches : Average(v, m) \in Int /\ Average(v, m) <= 2
    BY DEF Average, NULL
  <2>2. DOMAIN Results = Submissions /\ \A v \in Submissions : DOMAIN Results[v] = Matches
    BY DEF Results
  <2>3. \A v \in Submissions, m \in Matches : Results[v][m] = Average(v, m)
    BY DEF Results
  <2> DEFINE results == Results
  <2> HIDE DEF results
  <2>4. IsFiniteSet(DOMAIN results) /\ w \in DOMAIN results
    BY <2>2, ScriptAssumption DEF results
  <2>5. \A v \in DOMAIN results : n \in DOMAIN results[v]
    BY <2>2 DEF results
  <2>6. \A v \in DOMAIN results : \A m \in DOMAIN results[v] :
          results[v][m] \in Int /\ results[v][m] <= 2
    BY <2>1, <2>2, <2>3 DEF results
  <2>7. LET f == Column(results, n)
            share(v) == Share(f, Worst(results), v)
        IN /\ results[w][n] = NULL => share(w) = 0
           /\ results[w][n] # NULL /\ (\A v \in DOMAIN results : f[w] <= f[v])
                => share(w) = MaxRank(f)
           /\ \A v \in DOMAIN results : f[w] <= f[v] => share(v) <= share(w)
    BY <2>4, <2>5, <2>6, ScoresAreFair
  <2>8. DOMAIN results = Submissions /\ results[w][n] = Average(w, n)
    BY <2>2, <2>3 DEF results
  <2> QED
    BY <2>7, <2>8 DEF results
<1> QED
  BY <1>1, PTL
-----------------------------------------------------------------------------
(* The outputs of an author, for some of the schedules, are those of the   *)
(* file that is there.                                                     *)
UpToDate(a, names) ==
  \A n \in names : n \in DOMAIN output[a] /\ output[a][n] = Result(code[a], Accepts(n))

Undisturbed == options.generate /\ options.answers /\ ~disturbed

(* Where the loop over the authors is done with the one it visits.         *)
Visited == {"generate", "popd", "rm"}
Visiting == {"touched", "made", "setup", "process"}

(* The loop over the authors: those it has visited are up to date, unless  *)
(* they have outputs for schedules that are no longer there.               *)
VisitedInv ==
  \A a \in Authors \ todo :
    \/ label \in Visiting /\ a = author
    \/ Compiles(code[a]) /\ DOMAIN output[a] = Matches => UpToDate(a, Matches)

(* The loop over the schedules, for the author who is visited.             *)
ProcessedInv ==
  label = "process" /\ Compiles(code[author]) =>
    /\ pushed /\ sim_dir = code[author] /\ left \subseteq Matches
    /\ DOMAIN output[author] = Matches => UpToDate(author, Matches \ left)

GenerateInv ==
  /\ DOMAIN output = Authors
  /\ label = "mark" => ~options.generate
  /\ Undisturbed /\ label \in Visited \cup Visiting => VisitedInv
  /\ Undisturbed /\ label \in Visiting =>
       /\ author \in Authors
       /\ label = "made" => sim_dir = "unbuilt"
       /\ label = "setup" => sim_dir = "unbuilt" /\ pushed
       /\ ProcessedInv
  /\ FreshMarks

LEMMA SomeMatch == Matches # {}
BY DEF Matches

(* Outside the loop over the authors nothing is promised.                  *)
LEMMA OutsideKeepsOutputs ==
  ASSUME DOMAIN output = Authors, output' = output,
         label' \notin Visited \cup Visiting \cup {"mark", "end"}
  PROVE  GenerateInv'
BY DEF GenerateInv, FreshMarks

(* Without a signal the handler does not run in the loop.                  *)
LEMMA NoHandler ==
  ASSUME DirInv, ~disturbed, handler # "none"
  PROVE  label = "exit"
BY DEF DirInv

(* The same files give the same promises.                                  *)
LEMMA SameFiles ==
  ASSUME UNCHANGED <<valid, code, schedules, output>>
  PROVE  /\ Matches' = Matches
         /\ \A a \in Authors, names \in SUBSET Matches :
              UpToDate(a, names)' <=> UpToDate(a, names)
BY DEF Matches, UpToDate, Accepts

(* The loop over the authors goes on.                                      *)
LEMMA LoopGoesOn ==
  ASSUME GenerateInv, label \in Visited, label' \in Visited,
         UNCHANGED <<valid, code, schedules, output, options, todo, author, disturbed>>
  PROVE  GenerateInv'
<1>1. Matches' = Matches /\ \A a \in Authors, names \in SUBSET Matches :
        UpToDate(a, names)' <=> UpToDate(a, names)
  BY SameFiles
<1>2. Undisturbed' => VisitedInv
  BY DEF GenerateInv, Undisturbed
<1>3. Undisturbed' => VisitedInv'
  BY <1>1, <1>2 DEF VisitedInv, Visited, Visiting
<1> QED
  BY <1>3 DEF GenerateInv, FreshMarks, Visited, Visiting

LEMMA GenerateKeeps ==
  ASSUME GenerateInv, Generate
  PROVE  GenerateInv'
<1>1. DOMAIN output' = Authors
  BY DEF Generate, files, GenerateInv
<1>2. CASE options.generate
  <2>1. label' = "generate" /\ UNCHANGED <<options, disturbed>>
        /\ todo' = Submissions \cup IF options.answers THEN {Solutions} ELSE {}
    BY <1>2 DEF Generate
  <2>2. Undisturbed' => VisitedInv'
    BY <2>1 DEF Undisturbed, VisitedInv, Authors
  <2> QED
    BY <1>1, <2>1, <2>2 DEF GenerateInv, FreshMarks, Visiting
<1>3. CASE ~options.generate
  <2>1. label' = "mark" /\ options' = options
    BY <1>3 DEF Generate
  <2> QED
    BY <1>1, <1>3, <2>1 DEF GenerateInv, FreshMarks, Undisturbed
<1> QED
  BY <1>2, <1>3

LEMMA TouchKeeps ==
  ASSUME GenerateInv, NEW w \in Authors, Touch(w)
  PROVE  GenerateInv'
<1>1. /\ label = "generate" /\ label' = "touched"
      /\ author' = w /\ todo' = todo \ {w}
      /\ output' = [output EXCEPT ![w] = Touched(output[w])]
      /\ UNCHANGED <<valid, code, schedules, options, disturbed>>
  BY DEF Touch, At, given
<1>2. DOMAIN output' = Authors /\ \A a \in Authors \ {w} : output'[a] = output[a]
  BY <1>1 DEF GenerateInv
<1>3. Matches' = Matches
  BY <1>1 DEF Matches
<1>4. ASSUME Undisturbed' PROVE VisitedInv'
  <2>1. VisitedInv
    BY <1>1, <1>4 DEF GenerateInv, Undisturbed, Visited
  <2>2. ASSUME NEW a \in Authors \ todo', a # w, Compiles(code[a]), DOMAIN output'[a] = Matches
        PROVE  UpToDate(a, Matches)'
    <3>1. UpToDate(a, Matches)
      BY <1>1, <1>2, <2>1, <2>2 DEF VisitedInv, Visiting
    <3> QED
      BY <1>1, <1>2, <1>3, <2>2, <3>1 DEF UpToDate, Accepts
  <2> QED
    BY <1>1, <1>3, <2>2 DEF VisitedInv, Visiting
<1> QED
  BY <1>1, <1>2, <1>4 DEF GenerateInv, FreshMarks, ProcessedInv

(* Between the outputs and the compiler: the directory is made and entered.*)
LEMMA DirKeeps ==
  ASSUME GenerateInv, MakeDir \/ PushDir \/ PopDir \/ RemoveDir
  PROVE  GenerateInv'
<1>1. UNCHANGED <<valid, code, schedules, output, fresh>> /\ DOMAIN output = Authors
  BY DEF MakeDir, PushDir, PopDir, RemoveDir, given, files, GenerateInv
<1>2. CASE label' \notin Visited \cup Visiting
  <2>1. label' \notin {"mark", "end"}
    BY DEF MakeDir, PushDir, PopDir, RemoveDir, Quit
  <2> QED
    BY <1>1, <1>2, <2>1, OutsideKeepsOutputs
<1>3. CASE label' \in Visited
  <2>1. label \in Visited /\ UNCHANGED <<options, todo, author, disturbed>>
    BY <1>3 DEF MakeDir, PushDir, PopDir, RemoveDir, Quit, At, Visited, loop
  <2> QED
    BY <1>1, <1>3, <2>1, LoopGoesOn
<1>4. CASE label' \in Visiting
  <2>1. /\ \/ label = "touched" /\ label' = "made" /\ sim_dir' = "unbuilt"
           \/ label = "made" /\ label' = "setup" /\ sim_dir' = sim_dir /\ pushed'
        /\ UNCHANGED <<options, todo, author, disturbed>>
    BY <1>4 DEF MakeDir, PushDir, PopDir, RemoveDir, Quit, At, Visiting, loop
  <2>2. Matches' = Matches /\ \A a \in Authors, names \in SUBSET Matches :
          UpToDate(a, names)' <=> UpToDate(a, names)
    BY <1>1, SameFiles
  <2>3. ASSUME Undisturbed' PROVE VisitedInv /\ author \in Authors
                                  /\ (label = "made" => sim_dir = "unbuilt")
    BY <2>1, <2>3 DEF GenerateInv, Undisturbed, Visiting
  <2>4. ASSUME Undisturbed' PROVE VisitedInv'
    BY <1>1, <2>1, <2>2, <2>3, <2>4 DEF VisitedInv, Visiting
  <2> QED
    BY <1>1, <2>1, <2>3, <2>4 DEF GenerateInv, FreshMarks, ProcessedInv
<1> QED
  BY <1>2, <1>3, <1>4

LEMMA CompileKeeps ==
  ASSUME GenerateInv, Compile
  PROVE  GenerateInv'
<1>1. /\ label = "setup" /\ label' = "process"
      /\ UNCHANGED <<valid, code, schedules, output, options, todo, author, pushed, disturbed>>
  BY DEF Compile, At, given, files
<1>2. Matches' = Matches /\ \A a \in Authors, names \in SUBSET Matches :
        UpToDate(a, names)' <=> UpToDate(a, names)
  BY <1>1, SameFiles
<1>3. ASSUME Undisturbed'
      PROVE  VisitedInv' /\ author' \in Authors
  <2>1. VisitedInv /\ author \in Authors
    BY <1>1, <1>3 DEF GenerateInv, Undisturbed, Visiting
  <2> QED
    BY <1>1, <1>2, <2>1 DEF VisitedInv, Visiting
<1>4. ASSUME Undisturbed' PROVE ProcessedInv'
  <2>1. sim_dir = "unbuilt" /\ pushed
    BY <1>1, <1>4 DEF GenerateInv, Undisturbed, Visiting
  <2>2. ASSUME Compiles(code[author])
        PROVE  sim_dir' = code[author] /\ left' = Matches
    BY <2>1, <2>2 DEF Compile, SetUp
  <2>3. ASSUME Compiles(code[author])
        PROVE  UpToDate(author, Matches \ left)'
    BY <1>2, <2>2, <2>3 DEF UpToDate
  <2> QED
    BY <1>1, <1>2, <2>1, <2>2, <2>3 DEF ProcessedInv
<1> QED
  BY <1>1, <1>3, <1>4 DEF GenerateInv, FreshMarks

(* Where the outputs are of the schedules there are, an output goes to the *)
(* file of its schedule.                                                   *)
LEMMA TargetIsSchedule ==
  ASSUME NEW a, NEW n \in Matches, DOMAIN output[a] = Matches
  PROVE  Target(a, n) = n
<1>1. CASE DOMAIN schedules = {}
  <2>1. Matches = {NoSuchFile}
    BY <1>1 DEF Matches
  <2>2. First(DOMAIN output[a]) \in {NoSuchFile}
    BY <2>1 DEF First
  <2> QED
    BY <1>1, <2>1, <2>2 DEF Target
<1>2. CASE DOMAIN schedules # {}
  BY <1>2 DEF Target
<1> QED
  BY <1>1, <1>2

LEMMA ProcessKeeps ==
  ASSUME GenerateInv, NEW n, Process(n)
  PROVE  GenerateInv'
<1>1. /\ label = "process" /\ label' = "process" /\ left' = left \ {n} /\ n \in left
      /\ output' = [output EXCEPT ![author][Target(author, n)] =
                      Result(Executable, Accepts(n))]
      /\ UNCHANGED <<valid, code, schedules, options, todo, author, sim_dir, pushed, disturbed>>
  BY DEF Process, At, First, given, dir
<1>2. /\ DOMAIN output' = Authors
      /\ \A a \in Authors : DOMAIN output'[a] = DOMAIN output[a]
      /\ \A a \in Authors \ {author} : output'[a] = output[a]
  BY <1>1 DEF GenerateInv
<1>3. Matches' = Matches
  BY <1>1 DEF Matches
<1>4. ASSUME Undisturbed'
      PROVE  VisitedInv' /\ author' \in Authors
  <2>1. VisitedInv /\ author \in Authors
    BY <1>1, <1>4 DEF GenerateInv, Undisturbed, Visiting
  <2>2. ASSUME NEW a \in Authors \ todo', a # author, Compiles(code[a]),
               DOMAIN output[a] = Matches
        PROVE  UpToDate(a, Matches)'
    <3>1. UpToDate(a, Matches)
      BY <1>1, <2>1, <2>2 DEF VisitedInv
    <3> QED
      BY <1>1, <1>2, <1>3, <2>2, <3>1 DEF UpToDate, Accepts
  <2> QED
    BY <1>1, <1>2, <1>3, <2>1, <2>2 DEF VisitedInv, Visiting
<1>5. ASSUME Undisturbed', Compiles(code[author])
      PROVE  /\ pushed' /\ sim_dir' = code'[author'] /\ left' \subseteq Matches'
             /\ DOMAIN output'[author] = Matches => UpToDate(author, Matches \ left)'
  <2>1. /\ author \in Authors /\ pushed /\ sim_dir = code[author] /\ left \subseteq Matches
        /\ DOMAIN output[author] = Matches => UpToDate(author, Matches \ left)
    BY <1>1, <1>5 DEF GenerateInv, Undisturbed, Visiting, ProcessedInv
  <2>2. Executable = code[author]
    BY <2>1 DEF Executable
  <2>3. ASSUME DOMAIN output'[author] = Matches, NEW m \in Matches, m \notin left'
        PROVE  m \in DOMAIN output'[author]
               /\ output'[author][m] = Result(code[author], Accepts(m))
    <3>1. /\ m \in DOMAIN output[author] /\ m \in DOMAIN output'[author]
          /\ DOMAIN output[author] = Matches
      BY <1>2, <2>1, <2>3
    <3>2. Target(author, n) = n
      BY <1>1, <2>1, <3>1, TargetIsSchedule
    <3>3. CASE m = n
      BY <1>1, <2>1, <2>2, <3>1, <3>2, <3>3 DEF GenerateInv
    <3>4. CASE m # n
      <4>1. output'[author][m] = output[author][m]
        BY <1>1, <2>1, <3>1, <3>2, <3>4 DEF GenerateInv
      <4> QED
        BY <1>1, <2>1, <2>3, <3>1, <3>4, <4>1 DEF UpToDate
    <3> QED
      BY <3>3, <3>4
  <2>4. \A m : Accepts(m)' <=> Accepts(m)
    BY <1>1 DEF Accepts
  <2> QED
    BY <1>1, <1>3, <2>1, <2>3, <2>4 DEF UpToDate
<1> QED
  BY <1>1, <1>2, <1>3, <1>4, <1>5 DEF GenerateInv, FreshMarks, ProcessedInv

LEMMA ProcessedKeeps ==
  ASSUME GenerateInv, Processed
  PROVE  GenerateInv'
<1>1. /\ label = "process" /\ left = {} /\ label' \in Visited
      /\ UNCHANGED <<valid, code, schedules, output, options, todo, author, disturbed>>
  BY DEF Processed, At, Visited, given, files, loop
<1>2. Matches' = Matches /\ \A a \in Authors, names \in SUBSET Matches :
        UpToDate(a, names)' <=> UpToDate(a, names)
  BY <1>1, SameFiles
<1>3. ASSUME Undisturbed' PROVE VisitedInv'
  <2>1. VisitedInv /\ ProcessedInv
    BY <1>1, <1>3 DEF GenerateInv, Undisturbed, Visiting
  <2>2. Compiles(code[author]) /\ DOMAIN output[author] = Matches => UpToDate(author, Matches)
    BY <1>1, <2>1 DEF ProcessedInv
  <2>3. ASSUME NEW a \in Authors \ todo
        PROVE  Compiles(code[a]) /\ DOMAIN output[a] = Matches => UpToDate(a, Matches)
    BY <2>1, <2>2, <2>3 DEF VisitedInv
  <2> QED
    BY <1>1, <1>2, <2>3 DEF VisitedInv
<1> QED
  BY <1>1, <1>3 DEF GenerateInv, FreshMarks, Visited, Visiting

(* What the marks compare is what the files as they are now give.          *)
LEMMA MarksAreFresh ==
  ASSUME NEW w \in Submissions, UpToDate(w, Matches), UpToDate(Solutions, Matches),
         NoOldOutputs(w)
  PROVE  Marks(w) =
           [tests |-> Cardinality(Matches),
            failed |-> Cardinality({n \in Matches :
              Result(code[w], Accepts(n)) # Result(code[Solutions], Accepts(n))})]
<1>1. DOMAIN output[w] = Matches /\ DOMAIN output[Solutions] = Matches
  BY DEF NoOldOutputs
<1>2. \A n \in Matches : Agrees(output[w], output[Solutions], n) <=>
        Result(code[w], Accepts(n)) = Result(code[Solutions], Accepts(n))
  BY <1>1 DEF Agrees, UpToDate
<1>3. {n \in DOMAIN output[w] \cup DOMAIN output[Solutions] :
         ~Agrees(output[w], output[Solutions], n)}
      = {n \in Matches : Result(code[w], Accepts(n)) # Result(code[Solutions], Accepts(n))}
  BY <1>1, <1>2
<1>4. Failed(output[w], output[Solutions]) =
        Cardinality({n \in Matches :
          Result(code[w], Accepts(n)) # Result(code[Solutions], Accepts(n))})
  BY <1>1, <1>3, SomeMatch DEF Failed
<1> QED
  BY <1>1, <1>4 DEF Marks

LEMMA MarkKeeps ==
  ASSUME GenerateInv, Mark
  PROVE  GenerateInv'
<1>1. /\ label = "mark" \/ (label = "generate" /\ todo = {})
      /\ label' = "end" /\ score' = [w \in Submissions |-> Marks(w)]
      /\ UNCHANGED <<valid, code, schedules, output, options, disturbed>>
  BY DEF Mark, At, given, files
<1>2. ASSUME Undisturbed', NEW w \in Submissions,
             Compiles(code[w]), Compiles(code[Solutions]), NoOldOutputs(w)
      PROVE  score'[w] =
               [tests |-> Cardinality(Matches),
                failed |-> Cardinality({n \in Matches :
                  Result(code[w], Accepts(n)) # Result(code[Solutions], Accepts(n))})]
  <2>1. label = "generate" /\ todo = {} /\ VisitedInv
    BY <1>1, <1>2 DEF GenerateInv, Undisturbed, Visited
  <2>2. UpToDate(w, Matches) /\ UpToDate(Solutions, Matches)
    BY <1>2, <2>1 DEF VisitedInv, NoOldOutputs, Authors, Visiting
  <2> QED
    BY <1>1, <1>2, <2>2, MarksAreFresh
<1>3. /\ Matches' = Matches /\ code' = code
      /\ \A n : Accepts(n)' = Accepts(n)
      /\ \A w \in Submissions : NoOldOutputs(w)' <=> NoOldOutputs(w)
  BY <1>1 DEF Matches, Accepts, NoOldOutputs
<1>4. FreshMarks'
  <2> SUFFICES ASSUME Undisturbed', NEW w \in Submissions,
                      Compiles(code'[w]), Compiles(code'[Solutions]), NoOldOutputs(w)'
      PROVE score'[w] =
              [tests |-> Cardinality(Matches'),
               failed |-> Cardinality({n \in Matches' :
                 Result(code'[w], Accepts(n)') # Result(code'[Solutions], Accepts(n)')})]
    BY DEF FreshMarks, Undisturbed
  <2>1. score'[w] =
          [tests |-> Cardinality(Matches),
           failed |-> Cardinality({n \in Matches :
             Result(code[w], Accepts(n)) # Result(code[Solutions], Accepts(n))})]
    BY <1>2, <1>3
  <2>2. {n \in Matches' : Result(code'[w], Accepts(n)') # Result(code'[Solutions], Accepts(n)')}
        = {n \in Matches : Result(code[w], Accepts(n)) # Result(code[Solutions], Accepts(n))}
    BY <1>3
  <2> QED
    BY <1>3, <2>1, <2>2
<1> QED
  BY <1>1, <1>2, <1>4 DEF GenerateInv, Visited, Visiting

LEMMA GenerateStep ==
  ASSUME GenerateInv, DirInv, [ScriptNext]_scriptVars
  PROVE  GenerateInv'
<1> DEFINE Inside == Visited \cup Visiting \cup {"mark", "end"}
<1>1. DOMAIN output = Authors
  BY DEF GenerateInv
<1>2. CASE Start \/ CollectBegin \/ CollectDies \/ CollectEnd \/ End
  <2>1. output' = output /\ label' \notin Inside
    BY <1>2 DEF Start, CollectBegin, CollectDies, CollectEnd, End, Exit, files, Quit, Visited,
                Visiting
  <2> QED
    BY <1>1, <2>1, OutsideKeepsOutputs
<1>3. ASSUME NEW w \in Submissions, Collect(w) PROVE GenerateInv'
  <2>1. output' = output /\ label' \notin Inside
    BY <1>3 DEF Collect, At, Visited, Visiting
  <2> QED
    BY <1>1, <2>1, OutsideKeepsOutputs
<1>4. CASE SecondSignal \/ Edit \/ RemoveSchedule
  <2>1. output' = output /\ label' \notin Inside
    BY <1>4 DEF SecondSignal, Edit, RemoveSchedule, files, Quit, Visited, Visiting
  <2> QED
    BY <1>1, <2>1, OutsideKeepsOutputs
<1>5. CASE Signal \/ ((HandlerPop \/ HandlerRemove) /\ label' \in Inside)
  <2>1. output' = output /\ label' = label /\ options' = options
    BY <1>5 DEF Signal, HandlerPop, HandlerRemove, Quit, files, loop, Visited, Visiting
  <2>0. disturbed'
    BY <1>5, <2>1, NoHandler DEF Signal, HandlerPop, HandlerRemove, Quit, Visited, Visiting
  <2>2. ~Undisturbed' /\ ~(options'.generate /\ options'.answers /\ ~disturbed')
    BY <2>0 DEF Undisturbed
  <2>3. FreshMarks'
    BY <2>2 DEF FreshMarks
  <2>4. DOMAIN output' = Authors /\ (label' = "mark" => ~options'.generate)
    BY <2>1 DEF GenerateInv
  <2> QED
    BY <2>2, <2>3, <2>4 DEF GenerateInv
<1>6. CASE UNCHANGED scriptVars
  <2>1. UNCHANGED <<valid, code, schedules, output, label, options, todo, author, left,
                    sim_dir, pushed, score, disturbed>>
    BY <1>6 DEF scriptVars, given, files, loop, dir
  <2>2. VisitedInv' <=> VisitedInv
    BY <2>1 DEF VisitedInv, UpToDate, Matches, Accepts
  <2>3. ProcessedInv' <=> ProcessedInv
    BY <2>1 DEF ProcessedInv, UpToDate, Matches, Accepts
  <2>4. FreshMarks' <=> FreshMarks
    BY <2>1 DEF FreshMarks, NoOldOutputs, Matches, Accepts
  <2>5. Matches' = Matches /\ (Undisturbed' <=> Undisturbed)
    BY <2>1 DEF Matches, Undisturbed
  <2> QED
    BY <2>1, <2>2, <2>3, <2>4, <2>5 DEF GenerateInv
<1>7. CASE Generate \/ Compile \/ Processed \/ Mark
  BY <1>7, GenerateKeeps, CompileKeeps, ProcessedKeeps, MarkKeeps
<1>8. ASSUME NEW w \in Authors, Touch(w) PROVE GenerateInv'
  BY <1>8, TouchKeeps
<1>9. ASSUME NEW n \in Names \cup {NoSuchFile}, Process(n) PROVE GenerateInv'
  BY <1>9, ProcessKeeps
<1>10. CASE (HandlerPop \/ HandlerRemove) /\ label' \notin Inside
  <2>1. output' = output
    BY <1>10 DEF HandlerPop, HandlerRemove, files
  <2> QED
    BY <1>1, <1>10, <2>1, OutsideKeepsOutputs
<1>11. CASE MakeDir \/ PushDir \/ PopDir \/ RemoveDir
  BY <1>11, DirKeeps
<1> QED
  BY <1>2, <1>3, <1>4, <1>5, <1>6, <1>7, <1>8, <1>9, <1>10, <1>11 DEF ScriptNext, ScriptStep

(* An execution without a signal gives the marks for the files there are,  *)
(* whatever the executions before it have left.                            *)
THEOREM MarksAreForCurrentFiles == ScriptSpec => []FreshMarks
<1>1. ScriptInit => GenerateInv
  BY DEF ScriptInit, GenerateInv, FreshMarks, Visited, Visiting
<1>2. GenerateInv => FreshMarks
  BY DEF GenerateInv
<1> QED
  BY <1>1, <1>2, GenerateStep, DirInvariance, PTL DEF ScriptSpec
===============================================================================
