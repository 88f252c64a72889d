-------------------------------- MODULE Custom --------------------------------
(***************************************************************************)
(* The scoring scheduler, submissions/submission/custom.c, inside the      *)
(* simulator: a fast queue for the first turn of every process, and a      *)
(* smart queue from which the process with the best score is taken.        *)
(***************************************************************************)
EXTENDS Simulator, ReadyList

CONSTANT
  PRECISION  \* a score is off by at most 1 / PRECISION of its terms' sum

(* 2 ^ 50 is enough for a double: a relative 2 ^ -53 for the constant 1.2  *)
(* and for each of the four operations a term passes through, lines 132 to *)
(* 142.  The less it is, the more choices the model allows.                *)
ASSUME PrecisionAssumption == PRECISION \in Nat \ {0}

(* The null pointer, as a value of current.                                *)
NULL == 0

(* priority_queues[0] is the fast queue, priority_queues[1] the smart one. *)
Fast == 0
Smart == 1
Queues == {Fast, Smart}

VARIABLES
  priority_queues,      \* per queue, the PIDs of the nodes after the sentinel
  current,              \* the PID of the node on the processor, or NULL
  priority_level,       \* the queue current was taken from
  node_processed_time,  \* the processed_time field of the process's node
  quantum_used,         \* the quantum_used field of the process's node
  process_histories,    \* the PIDs that have a history after the sentinel
  wait_time,            \* the wait_time field of the process's history
  reschedule_count      \* the reschedule_count field of the same

nodeVars == <<node_processed_time, quantum_used>>
historyVars == <<process_histories, wait_time, reschedule_count>>
schedVars == <<priority_queues, current, priority_level, nodeVars, historyVars>>
vars == <<simVars, schedVars>>

TypeOK ==
  /\ SimTypeOK
  /\ priority_queues \in [Queues -> Seq(Pids)]
  /\ current \in Pids \cup {NULL}
  /\ priority_level \in Queues
  /\ node_processed_time \in [Pids -> 0 .. TIMEOUT]
  /\ quantum_used \in [Pids -> 0 .. TIMEOUT]
  /\ process_histories \subseteq Pids
  /\ wait_time \in [Pids -> 0 .. TIMEOUT]
  /\ reschedule_count \in [Pids -> 0 .. TIMEOUT]

Init ==
  /\ SimInit
  /\ priority_queues = [queue \in Queues |-> <<>>]
  /\ current = NULL
  /\ priority_level = Fast
  /\ node_processed_time = [p \in Pids |-> 0]
  /\ quantum_used = [p \in Pids |-> 0]
  /\ process_histories = {}
  /\ wait_time = [p \in Pids |-> 0]
  /\ reschedule_count = [p \in Pids |-> 0]

init_process_history(p) ==
  /\ process_histories' = process_histories \cup {p}
  /\ wait_time' = [wait_time EXCEPT ![p] = 0]
  /\ reschedule_count' = [reschedule_count EXCEPT ![p] = 0]

add_to_ready_queue(p) ==
  /\ Admit(p)
  /\ node_processed_time' = [node_processed_time EXCEPT ![p] = 0]
  /\ quantum_used' = [quantum_used EXCEPT ![p] = 0]
  /\ init_process_history(p)
  /\ priority_queues' =
       [priority_queues EXCEPT ![Fast] = SortedInsert(@, p, arrival_time)]
  /\ UNCHANGED <<current, priority_level>>

(***************************************************************************)
(* Scores                                                                  *)
(***************************************************************************)
(* The score of calculate_new_score is the number                          *)
(*   (wait + 1) / (run + 1) + 1.2 (need + 1) / (need - run + 1)            *)
(*     - 0.5 (rescheduled + 1)                                             *)
(* in double precision.  Here num / den is ten times its exact value, and  *)
(* size / den ten times the sum of its three terms, which bounds the error.*)
calculate_new_score(p) ==
  LET run == node_processed_time[p] + 1
      left == processing_time[p] - node_processed_time[p] + 1
      earned == 10 * (wait_time[p] + 1) * left + 12 * (processing_time[p] + 1) * run
      penalty == 5 * (reschedule_count[p] + 1) * run * left
  IN  [num |-> earned - penalty, size |-> earned + penalty, den |-> run * left]

(* The most by which rounding can move the difference of two scores.       *)
Rounding(s, t) == (s.size * t.den + t.size * s.den) \div PRECISION

(* One score is greater than the other however they are rounded.           *)
Better(s, t) == s.num * t.den - t.num * s.den > Rounding(s, t)

(* q scores no less than p in any of the three terms, and so in their sum: *)
(* every operation of lines 132-142 rounds to the nearest double, and      *)
(* keeps the order of its operands.                                        *)
NoWorse(q, p) ==
  /\ (wait_time[q] + 1) * (node_processed_time[p] + 1)
       >= (wait_time[p] + 1) * (node_processed_time[q] + 1)
  /\ (processing_time[q] + 1) * (processing_time[p] - node_processed_time[p] + 1)
       >= (processing_time[p] + 1) * (processing_time[q] - node_processed_time[q] + 1)
  /\ reschedule_count[q] <= reschedule_count[p]

(* The nodes of the smart queue that select_best_process_from_smart_queue  *)
(* scores: it stops at the first one that has no history.                  *)
Scored ==
  {i \in DOMAIN priority_queues[Smart] :
     \A j \in 1 .. i : priority_queues[Smart][j] \in process_histories}

(* Mutant of Best: the lowest score wins.                                  *)
BestReversed ==
  {i \in Scored :
     LET p == priority_queues[Smart][i]
     IN  \A j \in Scored :
           LET q == priority_queues[Smart][j]
           IN  /\ ~Better(calculate_new_score(p), calculate_new_score(q))
               /\ j < i => ~NoWorse(p, q)}

(* The nodes it may return: it takes the greatest score, and of equal ones *)
(* the first in the queue.  Two scores that rounding may have brought      *)
(* together come out either way, unless the order is that of every term.   *)
Best ==
  {i \in Scored :
     LET p == priority_queues[Smart][i]
     IN  \A j \in Scored :
           LET q == priority_queues[Smart][j]
           IN  /\ ~Better(calculate_new_score(q), calculate_new_score(p))
               /\ j < i => ~NoWorse(q, p)}

(***************************************************************************)
(* get_next_scheduled_process                                              *)
(***************************************************************************)
(* One more time unit of waiting for every process in a queue that has a   *)
(* history.                                                                *)
update_wait_times(queues) ==
  wait_time' =
    [p \in Pids |->
       wait_time[p] +
         (IF p \in process_histories
               /\ \E queue \in Queues : p \in ToSet(queues[queue])
          THEN 1 ELSE 0)]

move_to_smart_queue(queues, p) == [queues EXCEPT ![Smart] = AddLast(@, p)]

(* Mutants of Finish: current still points to the freed node; the history  *)
(* is not freed.                                                           *)
FinishKeepsCurrent(p, queues) ==
  /\ current' = p
  /\ priority_queues' = queues
  /\ quantum_used' = [quantum_used EXCEPT ![p] = @ + 1]
  /\ process_histories' = process_histories \ {p}
  /\ UNCHANGED reschedule_count

FinishKeepsHistory(p, queues) ==
  /\ current' = NULL
  /\ priority_queues' = queues
  /\ quantum_used' = [quantum_used EXCEPT ![p] = @ + 1]
  /\ UNCHANGED <<process_histories, reschedule_count>>

(* A finished process loses its node and its history.                      *)
Finish(p, queues) ==
  /\ current' = NULL
  /\ priority_queues' = queues
  /\ quantum_used' = [quantum_used EXCEPT ![p] = @ + 1]
  /\ process_histories' = process_histories \ {p}
  /\ UNCHANGED reschedule_count

(* A process whose quantum is used up goes to the end of the smart queue.  *)
Reschedule(p, queues) ==
  /\ current' = NULL
  /\ priority_queues' = move_to_smart_queue(queues, p)
  /\ quantum_used' = [quantum_used EXCEPT ![p] = 0]
  /\ reschedule_count' = [reschedule_count EXCEPT ![p] = @ + 1]
  /\ UNCHANGED process_histories

KeepProcessor(p, queues) ==
  /\ current' = p
  /\ priority_queues' = queues
  /\ quantum_used' = [quantum_used EXCEPT ![p] = @ + 1]
  /\ UNCHANGED <<process_histories, reschedule_count>>

(* Lines 355-386, for p taken from queue `level', the queues being then as *)
(* given.                                                                  *)
Execute(p, level, queues) ==
  LET finished == node_processed_time[p] + 1 = processing_time[p]
      quantumUp == quantum_used[p] + 1 >= (level + 1) * 2
  IN  /\ Account(p)
      /\ priority_level' = level
      /\ update_wait_times(queues)
      /\ node_processed_time' = [node_processed_time EXCEPT ![p] = @ + 1]
      /\ \/ finished /\ Finish(p, queues)
         \/ ~finished /\ quantumUp /\ Reschedule(p, queues)
         \/ ~finished /\ ~quantumUp /\ KeepProcessor(p, queues)

ScheduleCurrent ==
  current # NULL /\ Execute(current, priority_level, priority_queues)

ScheduleFast ==
  /\ current = NULL
  /\ priority_queues[Fast] # <<>>
  /\ Execute(Head(priority_queues[Fast]), Fast,
             [priority_queues EXCEPT ![Fast] = remove_next(@, 0)])

(* Mutant of ScheduleSmart: it does not wait for the fast queue to empty.  *)
ScheduleSmartAnyway ==
  /\ current = NULL
  /\ \E i \in Best :
       Execute(priority_queues[Smart][i], Smart,
               [priority_queues EXCEPT ![Smart] = remove_next(@, i - 1)])

ScheduleSmart ==
  /\ current = NULL
  /\ priority_queues[Fast] = <<>>
  /\ \E i \in Best :
       Execute(priority_queues[Smart][i], Smart,
               [priority_queues EXCEPT ![Smart] = remove_next(@, i - 1)])

ScheduleNone ==
  /\ current = NULL
  /\ priority_queues[Fast] = <<>>
  /\ Scored = {}
  /\ Account(Idle)
  /\ priority_level' =
       IF priority_queues[Smart] = <<>> THEN priority_level ELSE Smart
  /\ UNCHANGED <<priority_queues, current, nodeVars, historyVars>>

get_next_scheduled_process ==
  ScheduleCurrent \/ ScheduleFast \/ ScheduleSmart \/ ScheduleNone

Next ==
  \/ (EnterIteration \/ LeaveLoop) /\ UNCHANGED schedVars
  \/ \E p \in Pids : add_to_ready_queue(p)
  \/ get_next_scheduled_process

Spec == Init /\ [][Next]_vars

(* The program is sequential: while it can take a step, it does.           *)
FairSpec == Spec /\ WF_vars(Next)

(***************************************************************************)
(* Properties                                                              *)
(***************************************************************************)
Queued(queue) == ToSet(priority_queues[queue])

Waiting == Queued(Fast) \cup Queued(Smart)

Ready == Waiting \cup ({current} \ {NULL})

Contract == INSTANCE ReadyContract WITH ready <- Ready

(* custom.c is a scheduler as simulator.c wants one, and with it the       *)
(* simulation ends.                                                        *)
ImplementsContract == Contract!FairSpec

(* Every ready process's node is in one place and in it once, and counts   *)
(* the process's time as the simulator does; the fast queue is sorted as   *)
(* line 191 says, and holds the processes that have not run.               *)
NodesFaithful ==
  /\ TypeOK
  /\ \A p \in Ready : node_processed_time[p] = processed_time[p]
  /\ \A p \in Waiting : p # current /\ quantum_used[p] = 0
  /\ \A queue \in Queues : IsInjective(priority_queues[queue])
  /\ \A p \in Queued(Fast) : processed_time[p] = 0
  /\ \A p \in Queued(Smart) : processed_time[p] > 0
  /\ SortedByArrival(priority_queues[Fast], arrival_time)

(* A process has a history exactly as long as it has a node: the history   *)
(* points into the node (total_time_run), is dereferenced without a test   *)
(* at line 381, and hides the rest of the smart queue when it is missing.  *)
HistoriesMatchNodes == process_histories = Ready

(* The wait_time of a history counts every unit since the arrival in which *)
(* the process did not run.                                                *)
WaitTimeExact ==
  \A p \in Ready : wait_time[p] + processed_time[p] = time - arrival_time[p]

(* The reschedule_count of a history tells, with the quantum used, how     *)
(* much time the process has had: a turn of 2 units, then turns of 4.      *)
RescheduleCountExact ==
  \A p \in Ready :
    processed_time[p] =
      quantum_used[p]
        + (IF reschedule_count[p] = 0 THEN 0 ELSE 2 + 4 * (reschedule_count[p] - 1))

(* The histories, from which the scores are computed, say what happened,   *)
(* and so do the nodes they point into.                                    *)
HistoriesExact ==
  /\ NodesFaithful
  /\ HistoriesMatchNodes
  /\ WaitTimeExact
  /\ RescheduleCountExact

(* Of the processes of the smart queue that have run just as long, none is *)
(* taken past one that has waited longer and needs no more, nor past one   *)
(* before it in the queue that has waited as long and needs no more.  (The *)
(* scores of two that have waited as long may be equal in floating point   *)
(* though one needs less, line 302; then the queue decides.)               *)
NoDominatedChoice ==
  [][\A i, j \in DOMAIN priority_queues[Smart] :
       LET p == priority_queues[Smart][i]
           q == priority_queues[Smart][j]
       IN  /\ processed_time'[p] = processed_time[p] + 1
           /\ processed_time[q] = processed_time[p]
           /\ wait_time[q] >= wait_time[p]
           /\ processing_time[q] <= processing_time[p]
           => wait_time[q] = wait_time[p] /\ i <= j]_vars

(* A new process is not starved by the smart queue: it waits for the rest  *)
(* of a turn (at most 3 units) and for the first turn of each process      *)
(* before it.                                                              *)
FirstServiceIsBounded ==
  \A p \in admitted :
    processed_time[p] = 0 =>
      time - arrival_time[p] <=
        3 + MapThenSumSet(LAMBDA q : Min({2, processing_time[q]}),
                          {q \in Pids : Before(q, p)})
===============================================================================
