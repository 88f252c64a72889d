------------------------------ MODULE ParallelSum ------------------------------
(***************************************************************************)
(* The sums of assignments/assignment2, by one loop (loop.c), by a thread  *)
(* per value (thread.c) and by a child process per value (fork.c), and the *)
(* exercises of assignments/a2prepquiz that lead to them: the same loop,   *)
(* the same mutex, and a thread whose result is printed with               *)
(* (pthread_join_intro.c) or without (pthread_create_intro.c) waiting for  *)
(* it.  The variable program says which of them runs.                      *)
(***************************************************************************)
EXTENDS Integers, FiniteSets

CONSTANTS
  N,          \* VALUES_SIZE (9 in the assignment, 2 threads in the exercise)
  Values,     \* what the elements of values may be
  BYTE,       \* values of an exit status that reach the parent (256)
  Garbage     \* what the uninitialised output may hold

ASSUME SizeAssumption == N \in Nat \ {0}
ASSUME ValuesAssumption == Values \subseteq Int
ASSUME ByteAssumption == BYTE \in Nat \ {0}
ASSUME GarbageAssumption == Garbage \subseteq Int

Workers == 1 .. N
Programs == {"loop", "thread", "fork", "join", "create"}

NoOne == 0
Nothing == -1     \* not an exit status

VARIABLES
  program,
  values,
  outcome,   \* "running", "printed" or "failed": of the main thread or process
  phase,     \* what main does: "create", "wait" or "print"
  next,      \* i of its loop
  worker,    \* per thread or child, where it is
  holder,    \* the thread that holds mutex, or NoOne
  copy,      \* per thread, the total it has read
  status,    \* per child, its exit status: a byte, or Nothing when it was killed
  total,     \* total, or the output field of the one thread
  printed,   \* what has been printed
  added      \* history: the values in total

control == <<program, values, outcome, phase, next, printed>>
vars == <<control, worker, holder, copy, status, total, added>>

(* calculate_value                                                         *)
calculate_value(value) == 8 * value + 6
Value(i) == calculate_value(values[i])

(* The processes and threads there are.                                    *)
Size == IF program \in {"join", "create"} THEN 1 ELSE N

(* Threads end with their process, children do not.                        *)
Alive(i) == i \in 1 .. Size /\ (outcome = "running" \/ program = "fork")

-----------------------------------------------------------------------------
(* The main thread or process                                              *)

Main(p) == outcome = "running" /\ phase = p

Goto(p) == phase' = p /\ next' = 1

(* Mutant: the loop stops before the last worker.                          *)
AdvanceEarly(after) ==
  IF next < Size - 1 THEN next' = next + 1 /\ UNCHANGED phase ELSE Goto(after)

(* The loop at phase p goes on with the next worker, or to the phase after. *)
Advance(after) ==
  IF next < Size THEN next' = next + 1 /\ UNCHANGED phase ELSE Goto(after)

(* The whole of loop.c but for the output.                                 *)
AddInLoop ==
  /\ program = "loop" /\ Main("create")
  /\ total' = total + Value(next)
  /\ added' = added \cup {next}
  /\ Advance("print")
  /\ UNCHANGED <<program, values, outcome, printed, worker, holder, copy, status>>

(* pthread_create, fork                                                    *)
Create ==
  /\ program # "loop" /\ Main("create")
  /\ worker' = [worker EXCEPT ![next] = "ready"]
  /\ Advance(IF program = "create" THEN "print" ELSE "wait")
  /\ UNCHANGED <<program, values, outcome, printed, holder, copy, status, total,
                 added>>

(* No thread or process can be created, or a thread not be waited for:     *)
(* exit.  Children that run go on.                                         *)
Fail ==
  /\ \/ program # "loop" /\ Main("create")
     \/ program \in {"thread", "join"} /\ Main("wait")
  /\ outcome' = "failed"
  /\ UNCHANGED <<program, values, phase, next, printed, worker, holder, copy,
                 status, total, added>>

(* pthread_join                                                            *)
Join ==
  /\ program \in {"thread", "join"} /\ Main("wait")
  /\ worker[next] = "ended"
  /\ Advance("print")
  /\ UNCHANGED <<program, values, outcome, printed, worker, holder, copy, status,
                 total, added>>

(* waitpid.  A child that did not exit by itself adds nothing.             *)
WaitForChild ==
  /\ program = "fork" /\ Main("wait")
  /\ worker[next] = "ended"
  /\ IF status[next] = Nothing
     THEN UNCHANGED <<total, added>>
     ELSE total' = total + status[next] /\ added' = added \cup {next}
  /\ Advance("print")
  /\ UNCHANGED <<program, values, outcome, printed, worker, holder, copy, status>>

Output ==
  /\ Main("print")
  /\ printed' = total
  /\ outcome' = "printed"
  /\ UNCHANGED <<program, values, phase, next, worker, holder, copy, status, total,
                 added>>

-----------------------------------------------------------------------------
(* The threads                                                             *)

Step(i, from, to) ==
  /\ Alive(i) /\ worker[i] = from
  /\ worker' = [worker EXCEPT ![i] = to]

(* Mutant: the mutex is not waited for.                                    *)
LockTaken(i) ==
  /\ program = "thread"
  /\ Step(i, "ready", "locked")
  /\ holder' = i
  /\ UNCHANGED <<control, copy, status, total, added>>

Lock(i) ==
  /\ program = "thread"
  /\ Step(i, "ready", "locked")
  /\ holder = NoOne
  /\ holder' = i
  /\ UNCHANGED <<control, copy, status, total, added>>

(* total += value: a load and a store.                                     *)
Load(i) ==
  /\ program = "thread"
  /\ Step(i, "locked", "loaded")
  /\ copy' = [copy EXCEPT ![i] = total]
  /\ UNCHANGED <<control, holder, status, total, added>>

Store(i) ==
  /\ program = "thread"
  /\ Step(i, "loaded", "stored")
  /\ total' = copy[i] + Value(i)
  /\ added' = added \cup {i}
  /\ UNCHANGED <<control, holder, copy, status>>

(* Mutant: the thread returns with the mutex locked.                       *)
UnlockForgotten(i) ==
  /\ program = "thread"
  /\ Step(i, "stored", "ended")
  /\ UNCHANGED <<control, holder, copy, status, total, added>>

Unlock(i) ==
  /\ program = "thread"
  /\ Step(i, "stored", "ended")
  /\ holder' = NoOne
  /\ UNCHANGED <<control, copy, status, total, added>>

(* A thread that cannot lock or unlock ends the whole process.             *)
ThreadFails(i) ==
  /\ program = "thread" /\ Alive(i) /\ worker[i] \in {"ready", "stored"}
  /\ outcome' = "failed"
  /\ UNCHANGED <<program, values, phase, next, printed, worker, holder, copy,
                 status, total, added>>

(* The one thread of the exercises: output = input.                        *)
StoreOutput(i) ==
  /\ program \in {"join", "create"}
  /\ Step(i, "ready", "ended")
  /\ total' = values[i]
  /\ added' = added \cup {i}
  /\ UNCHANGED <<control, holder, copy, status>>

(* The children                                                            *)

Exit(i) ==
  /\ program = "fork"
  /\ Step(i, "ready", "ended")
  /\ status' = [status EXCEPT ![i] = Value(i) % BYTE]
  /\ UNCHANGED <<control, holder, copy, total, added>>

Killed(i) ==
  /\ program = "fork"
  /\ Step(i, "ready", "ended")
  /\ UNCHANGED <<control, holder, copy, status, total, added>>

-----------------------------------------------------------------------------

Init ==
  /\ program \in Programs
  /\ values \in [Workers -> Values]
  /\ outcome = "running" /\ phase = "create" /\ next = 1
  /\ worker = [i \in Workers |-> "none"]
  /\ holder = NoOne
  /\ copy = [i \in Workers |-> 0]
  /\ status = [i \in Workers |-> Nothing]
  /\ IF program \in {"join", "create"} THEN total \in Garbage ELSE total = 0
  /\ printed = 0
  /\ added = {}

MainNext == AddInLoop \/ Create \/ Join \/ WaitForChild \/ Output

WorkerNext(i) ==
  Lock(i) \/ Load(i) \/ Store(i) \/ Unlock(i) \/ StoreOutput(i) \/ Exit(i)

Failure == Fail \/ \E i \in Workers : ThreadFails(i) \/ Killed(i)

Next == MainNext \/ (\E i \in Workers : WorkerNext(i)) \/ Failure

Spec == Init /\ [][Next]_vars

(* Threads and processes that can run do, and the mutex is not kept from a *)
(* thread for ever: the others take it once each.  Nothing has to fail.    *)
FairSpec ==
  Spec /\ WF_vars(MainNext) /\ \A i \in Workers : WF_vars(WorkerNext(i))

-----------------------------------------------------------------------------

TypeOK ==
  /\ program \in Programs
  /\ values \in [Workers -> Values]
  /\ outcome \in {"running", "printed", "failed"}
  /\ phase \in {"create", "wait", "print"}
  /\ next \in 1 .. Size
  /\ worker \in [Workers -> {"none", "ready", "locked", "loaded", "stored",
                             "ended"}]
  /\ holder \in Workers \cup {NoOne}
  /\ copy \in [Workers -> Int]
  /\ status \in [Workers -> Int]
  /\ total \in Int
  /\ printed \in Int
  /\ added \in SUBSET Workers

(* What worker i brings into the total: a child only the low byte, and     *)
(* nothing when it was killed.                                             *)
Contribution(i) ==
  IF i \notin added THEN 0
  ELSE IF program = "fork" THEN Value(i) % BYTE
  ELSE Value(i)

\* The sum in the order of the loop.
SumTo[n \in 0 .. N] == IF n = 0 THEN 0 ELSE SumTo[n - 1] + Contribution(n)

(* Nothing is missing from the total that is printed.                      *)
EveryThreadAdded ==
  outcome = "printed" /\ program = "thread" => added = Workers

\* However the threads and children are scheduled, what is printed is the sum of
\* the loop: of every value with threads, and with children of the low byte of
\* the values of those that were not killed.  A thread that is waited for has left
\* its output ("The child is guaranteed to have completed", a comment of
\* pthread_join_intro.c); one that is not may have left none.
PrintedTotal ==
  outcome = "printed" =>
    /\ EveryThreadAdded
    /\ program = "loop" => added = Workers
    /\ program \in {"loop", "thread", "fork"} => printed = SumTo[N]
    /\ program = "join" => printed = values[1]
    /\ program = "create" => printed \in Garbage \cup {values[1]}

\* No thread's addition is lost: each store brings one value into the total, and
\* brings it once.
NoLostUpdate ==
  [][program = "thread" /\ total' # total =>
       \E i \in Workers \ added :
         total' = total + Value(i) /\ added' = added \cup {i}]_vars

\* The program ends: no thread waits for the mutex, and main for no worker, for
\* ever.
Terminates == <>(outcome # "running")
=============================================================================
