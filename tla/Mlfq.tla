--------------------------------- MODULE Mlfq ---------------------------------
(***************************************************************************)
(* The multi-level feedback queue inside the simulator.                    *)
(* submissions/submission/constant.c and exponential.c are one program but *)
(* for the quantum of a level; the variable submission says which of them  *)
(* was compiled as scheduler.c.  The lines named are those of constant.c.  *)
(***************************************************************************)
EXTENDS Simulator, ReadyList

CONSTANT NUM_PRIORITY_QUEUES   \* line 20 (4 there)

ASSUME QueuesAssumption == NUM_PRIORITY_QUEUES \in Nat \ {0, 1}

Levels == 0 .. NUM_PRIORITY_QUEUES - 1
Lowest == NUM_PRIORITY_QUEUES - 1

(* The null pointer, as a value of current.                                *)
NULL == 0

VARIABLES
  submission,           \* "constant" or "exponential"
  priority_queues,      \* per level, the PIDs of the nodes after the sentinel
  current,              \* the PID of the node on the processor, or NULL
  priority_level,       \* the level current was taken from
  node_processed_time,  \* the processed_time field of the process's node
  quantum_used          \* the quantum_used field of the process's node

schedVars == <<priority_queues, current, priority_level, node_processed_time,
               quantum_used>>
vars == <<simVars, submission, schedVars>>

(* constant.c, lines 23 and 180                                            *)
QUANTUM == 3
ConstantQuantum(level) == QUANTUM * (level + 1)

(* exponential.c, lines 177-178                                            *)
ExponentialQuantum(level) == 2 * ((level + 1) * (level + 1))

Quantum(level) ==
  IF submission = "constant" THEN ConstantQuantum(level)
                             ELSE ExponentialQuantum(level)

TypeOK ==
  /\ SimTypeOK
  /\ submission \in {"constant", "exponential"}
  /\ priority_queues \in [Levels -> Seq(Pids)]
  /\ current \in Pids \cup {NULL}
  /\ priority_level \in Levels
  /\ node_processed_time \in [Pids -> 0 .. TIMEOUT]
  /\ quantum_used \in [Pids -> 0 .. TIMEOUT]

Init ==
  /\ SimInit
  /\ submission \in {"constant", "exponential"}
  /\ priority_queues = [level \in Levels |-> <<>>]
  /\ current = NULL
  /\ priority_level = 0
  /\ node_processed_time = [p \in Pids |-> 0]
  /\ quantum_used = [p \in Pids |-> 0]

(* A process enters at the highest priority, level 0.                      *)
add_to_ready_queue(p) ==
  /\ Admit(p)
  /\ priority_queues' =
       [priority_queues EXCEPT ![0] = SortedInsert(@, p, arrival_time)]
  /\ node_processed_time' = [node_processed_time EXCEPT ![p] = 0]
  /\ quantum_used' = [quantum_used EXCEPT ![p] = 0]
  /\ UNCHANGED <<current, priority_level>>

NonEmpty == {level \in Levels : priority_queues[level] # <<>>}

(* The process get_next_scheduled_process runs, the level it was taken     *)
(* from and the queues without it: a process that keeps the processor, or  *)
(* the head of the first queue that has one (lines 141-150).               *)
Kept == [pid |-> current, level |-> priority_level, queues |-> priority_queues]

(* Mutant of Taken: the last queue that has a process.                     *)
TakenFromLowest ==
  LET level == Max(NonEmpty)
  IN  [pid |-> Head(priority_queues[level]),
       level |-> level,
       queues |-> [priority_queues EXCEPT ![level] = remove_next(@, 0)]]

Taken ==
  LET level == Min(NonEmpty)
  IN  [pid |-> Head(priority_queues[level]),
       level |-> level,
       queues |-> [priority_queues EXCEPT ![level] = remove_next(@, 0)]]

(* Mutant of Finish: current still points to the freed node.               *)
FinishKeepsCurrent(chosen) ==
  /\ current' = chosen.pid
  /\ priority_queues' = chosen.queues
  /\ quantum_used' = [quantum_used EXCEPT ![chosen.pid] = @ + 1]

(* The node is freed.                                                      *)
Finish(chosen) ==
  /\ current' = NULL
  /\ priority_queues' = chosen.queues
  /\ quantum_used' = [quantum_used EXCEPT ![chosen.pid] = @ + 1]

DemoteSameLevel(chosen) ==
  /\ current' = NULL
  /\ priority_queues' =
       [chosen.queues EXCEPT ![chosen.level] = AddLast(@, chosen.pid)]
  /\ quantum_used' = [quantum_used EXCEPT ![chosen.pid] = 0]

(* The quantum is used up: to the end of the next level's queue.           *)
Demote(chosen) ==
  /\ current' = NULL
  /\ priority_queues' =
       [chosen.queues EXCEPT ![Min({chosen.level + 1, Lowest})] =
          AddLast(@, chosen.pid)]
  /\ quantum_used' = [quantum_used EXCEPT ![chosen.pid] = 0]

KeepProcessor(chosen) ==
  /\ current' = chosen.pid
  /\ priority_queues' = chosen.queues
  /\ quantum_used' = [quantum_used EXCEPT ![chosen.pid] = @ + 1]

(* The rest of the call, lines 157-195, for the process chosen.            *)
Execute(chosen) ==
  LET p == chosen.pid
      finished == node_processed_time[p] + 1 = processing_time[p]
      quantumUp == quantum_used[p] + 1 = Quantum(chosen.level)
  IN  /\ Account(p)
      /\ priority_level' = chosen.level
      /\ node_processed_time' = [node_processed_time EXCEPT ![p] = @ + 1]
      /\ \/ finished /\ Finish(chosen)
         \/ ~finished /\ quantumUp /\ Demote(chosen)
         \/ ~finished /\ ~quantumUp /\ KeepProcessor(chosen)

ScheduleCurrent == current # NULL /\ Execute(Kept)

ScheduleFirst == current = NULL /\ NonEmpty # {} /\ Execute(Taken)

ScheduleNone ==
  /\ current = NULL
  /\ NonEmpty = {}
  /\ Account(Idle)
  /\ UNCHANGED schedVars

get_next_scheduled_process == ScheduleCurrent \/ ScheduleFirst \/ ScheduleNone

Next ==
  /\ \/ (EnterIteration \/ LeaveLoop) /\ UNCHANGED schedVars
     \/ \E p \in Pids : add_to_ready_queue(p)
     \/ get_next_scheduled_process
  /\ UNCHANGED submission

Spec == Init /\ [][Next]_vars

(* The program is sequential: while it can take a step, it does.           *)
FairSpec == Spec /\ WF_vars(Next)

(***************************************************************************)
(* Properties                                                              *)
(***************************************************************************)
Queued(level) == ToSet(priority_queues[level])

Waiting == UNION {Queued(level) : level \in Levels}

Ready == Waiting \cup ({current} \ {NULL})

Contract == INSTANCE ReadyContract WITH ready <- Ready

(* The multi-level feedback queue is a scheduler as simulator.c wants one, *)
(* and with it the simulation ends.                                        *)
ImplementsContract == Contract!FairSpec

(* Every ready process's node is in one place, a queue or current, and in  *)
(* it once; it counts the process's time as the simulator does, and starts *)
(* each stay in a queue with a fresh quantum.  Level 0 is sorted as line   *)
(* 82 says.                                                                *)
NodesFaithful ==
  /\ TypeOK
  /\ \A p \in Ready : node_processed_time[p] = processed_time[p]
  /\ \A p \in Waiting : quantum_used[p] = 0 /\ p # current
  /\ \A level \in Levels : IsInjective(priority_queues[level])
  /\ \A l, m \in Levels : l # m => Queued(l) \cap Queued(m) = {}
  /\ SortedByArrival(priority_queues[0], arrival_time)

(* The units a process has had when it enters level, coming from above.    *)
ServiceBelow(level) == MapThenSumSet(Quantum, 0 .. level - 1)

(* A process's level tells how much time it has had: the quanta of the     *)
(* levels above, whole, and in the last level any number of its own; the   *)
(* process on the processor has used a part of its level's quantum more.   *)
(* Its node is in one place only and agrees with the simulator.            *)
LevelMatchesService ==
  /\ NodesFaithful
  /\ \A level \in Levels : \A p \in Queued(level) :
       LET here == processed_time[p] - ServiceBelow(level)
       IN  IF level = Lowest THEN here >= 0 /\ here % Quantum(Lowest) = 0 ELSE here = 0
  /\ current # NULL =>
       LET here == processed_time[current] - ServiceBelow(priority_level)
       IN  /\ quantum_used[current] \in 1 .. Quantum(priority_level) - 1
           /\ IF priority_level = Lowest
              THEN here >= 0 /\ here % Quantum(Lowest) = quantum_used[current]
              ELSE here = quantum_used[current]

(* When the processor is given to another process, no process that waits   *)
(* has had less time, but for those of the last level, which take turns.   *)
LeastServedFirst ==
  [][\A p \in Waiting :
       processed_time'[p] = processed_time[p] + 1
         => \A q \in Waiting :
              processed_time[q] >= Min({processed_time[p], ServiceBelow(Lowest)})]_vars

(* A new process is not starved: it waits for the rest of the quantum that *)
(* was running and then for the first quantum of each process before it,   *)
(* whatever has been waiting in the lower levels.                          *)
LongestQuantum == Max({Quantum(level) : level \in Levels})

FirstServiceIsBounded ==
  \A p \in admitted :
    processed_time[p] = 0 =>
      time - arrival_time[p] <=
        LongestQuantum - 1
          + MapThenSumSet(LAMBDA q : Min({Quantum(0), processing_time[q]}),
                          {q \in Pids : Before(q, p)})
===============================================================================
