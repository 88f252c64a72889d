# A verification of the COSC240 process scheduling simulator, its marking, and two kernels

The repository holds the work of an operating-systems course.  Its core is
`src/assignments/assignment4/simulator`: a discrete-time simulator in C
(`simulator.c`) that is compiled with one of several schedulers, the
schedulers themselves (`submissions/submission/{fcfs,rr,constant,exponential,custom}.c`),
and a shell script that marks schedulers (`cosc240_a4.sh`, with `score_competition.py`).
Beside it are programs that add numbers with threads and with child processes
(`assignment2`, `a2prepquiz`) and two small kernels that handle the keyboard
(`tutorials/tutorial7`, `tutorials/tutorial8`).
This project models all of these in TLA+, checks the models with TLC, and proves with
TLAPS what every scheduler that keeps the simulator's interface gets, that all
of the schedulers keep it, what each of them makes of it, that the simulator is right whatever a submission returns,
that only valid workloads get to it, that the marks are for the present files, that threads and child processes add up
to what the loop does, and what a key can do to a kernel.

In this document `simulator.c`, `fcfs.c` and so on are the files of that directory.

## 1. Inventory

### The simulator and its schedulers

`simulator.c` is one sequential program.  It `#include`s one `scheduler.c`, and
calls two functions of it:

    add_to_ready_queue(process)      once per process, in the time unit it arrives
    get_next_scheduled_process()     once per time unit; returns a PID, or 0 for none

| Component | State | Operations | What makes it correct |
|---|---|---|---|
| Loader: `main`, `read_process_initial`, `strtoui` | `num_processes`, `processes[]`, the line buffer (uninitialised at first, stale at the end of the file) | read the count; read, test and store a line; refuse | only a workload the simulation can start from is simulated; what is simulated is what the file says; a refusal is about the first line that deserves it |
| Simulation loop: `run_simulation`, `still_running`, `get_pid_index` | the loop counter, `processed_time` and `end_time` of each process | loop test, arrivals, the scheduler's call, the account of the unit, three ways to end | one process per unit; each arrival is handed over once and on time; the verdict says what happened, whatever a submission returns; it ends |
| Statistics: `calculate_*` | none (reads the accounts) | turnaround, wait, their averages | the unsigned subtractions do not wrap around |
| Scheduler interface (comments of `simulator.c`:27-39) | the ready processes, abstractly | the two functions | only ready processes run; 0 only when there is none |
| Ready list (the same code in every scheduler) | a linked list with a sentinel | insert in order, append, remove | sorted by arrival time and PID, nobody lost or twice |
| `fcfs.c` | the list; a second count of each process's time, in its node | | first come, first served; the two counts agree |
| `rr.c` | the list, the node's count, `quantum_used` | rotation at the quantum | turns in order of arrival |
| `constant.c`, `exponential.c` | four lists, `current`, `priority_level`, the node's counts | demotion at the level's quantum | a node is in one place; the level tells the service; bounded first service |
| `custom.c` | a fast and a smart list, `current`, the node's counts, a list of histories (waiting time, number of turns) that point into nodes | scoring, rescheduling, freeing of histories | histories live as long as nodes and say what happened; nobody is passed over for one that has waited less and needs no less |
| Marking script `cosc240_a4.sh` | files: schedules, outputs by submission and schedule, a temporary directory with a simulator; they stay between executions | collect schedules, generate outputs, mark, clean up at a signal or at the end | a schedule is collected once; the marks are for the present files; what may be left behind, and when |
| `score_competition.py` | the table of averages | rank, mark | better averages get no fewer marks, a missing one gets none |

The simulator and the scheduler share no memory but the value passed and the PID
returned: the scheduler copies what it needs of a process into its own node and
counts the process's time a second time.  That nothing forces the two accounts to
agree is the main hazard of this code.

### The other programs of the repository

| Component | State | Operations | What makes it correct |
|---|---|---|---|
| `assignment2/{loop,thread,fork}.c`, `a2prepquiz/pthread_*.c`, `loop_quiz.c` | `total`, the mutex, the threads or children, exit statuses | create, lock, add, unlock, exit, join, wait | what is printed is the sum of the loop, as far as it reaches the parent; the program ends |
| `tutorials/tutorial8` kernel | video memory, `cursor_position`, the display controller's registers, GDT, IDT, the interrupt mask | the boot, `write`, `set_cursor`, `clear_screen`; the keyboard interrupt, which calls `write` too | a key is echoed at the cursor as on a terminal, and answered; the greeting and the cursor are shown; no interrupt without a handler |
| `tutorials/tutorial7` kernel | the same without a GDT | an earlier form of the same functions | the same, where it claims it |
| the exercises of `tutorials` 4 and 5 | none that stays | an exchange sort, string and file exercises | not modelled (section 7) |
| `tutorials` 2, 3 and 6 | none | print a fixed text | nothing to check |

### Hard behaviours

The simulator is sequential, nothing of it is persistent, and it has no messages:
its hazards are long sequences of legal calls, state kept twice, equality tests on
counters that are reset elsewhere, boundaries, unsigned arithmetic, and reads of
uninitialised or stale memory.  The marking script is what has a disk: it is started again
over the outputs of executions that were interrupted, and its signal handler pulls the directory from
under it and lets it go on.  The threads, the children and the keyboard interrupt are the concurrency of this
repository.  PROJECT.json lists each at its line, with the
properties that would catch it.

## 2. Modules

    Limits --------------- TIMEOUT, which Simulator and Loader share
    Simulator ------------ simulator.c from line 382 on: state, loop, accounts, statistics
      |-- AnyScheduler --- with a submission that may return anything
      |     `-- SimulatorProofs       its theorems, and those of Loader, MarkingScript and Competition
      |-- ReadyContract -- with any scheduler that keeps the interface (abstract specification)
      |     `-- ReadyContractProofs   its theorems
      |-- Fcfs ----------- with fcfs.c                        \
      |     `-- FcfsProofs            its theorems             |
      |-- RoundRobin ----- with rr.c                           |  each EXTENDS ReadyList and
      |     `-- RoundRobinProofs      its theorems             |  implements ReadyContract
      |-- Mlfq ----------- with constant.c or exponential.c    |
      |     `-- MlfqProofs            its theorems             |
      `-- Custom --------- with custom.c                       |
            `-- CustomProofs          its theorems            /
    ReadyList ------------ the linked list, as operators on sequences
      `-- OperatorProofs              lemmas about lists and sums
    Loader --------------- main up to the call of run_simulation
      `-- MCLoader ------- the lines and headers for TLC
    Competition ---------- score_competition.py, as operators on the table of averages
      `-- MarkingScript -- cosc240_a4.sh, which hands it the averages
    ParallelSum ---------- loop.c, thread.c, fork.c and the exercises before them
      `-- TutorialProofs              its theorems, and those of Kernel
    Kernel --------------- the kernels of tutorials 7 and 8 with the keyboard

`SimulatorProofs` EXTENDS `AnyScheduler`, `Loader` and `MarkingScript`, and `TutorialProofs` EXTENDS `ParallelSum` and
`Kernel`, so that a theorem names the very definitions that the runs check.  For that the names of these modules are
distinct: `LoaderInit`, `LoaderNext`, `LoaderSpec`; `ScriptInit`, `ScriptStep`, `ScriptNext`, `ScriptSpec`; `KernelInit`,
`KernelNext`, `KernelSpec`, with `Statement` for a statement of `kmain` and `CallStep` for a step of a call.

**Composition.** `Simulator` has the simulator's half of both calls as actions that
leave the scheduler's variables open: `Admit(p)` and `Account(pid)`.  A scheduler
module defines the other half and conjoins it: `add_to_ready_queue(p)` is
`Admit(p) /\ ...`, `get_next_scheduled_process` is a disjunction of
`Account(p) /\ ...` over what the function may return.  Both halves of a call are one
step, as nothing runs between them.

**Steps.** An iteration of the loop of `run_simulation` is `EnterIteration`, one
`Admit` per arrival of the unit, and one `Account`; `LeaveLoop` is the end of the
loop.  The branches of `Account` are those of the code: nothing to run
(`AccountIdle`), a unit for a process that needs it (`AccountUnit`), a unit too many
(`AccountOverrun`), a PID of no process (`AccountUnknown`).

**Refinement.** `ReadyContract` states what the interface promises with one variable,
the set `ready`.  Each scheduler module has

    Contract == INSTANCE ReadyContract WITH ready <- Ready
    ImplementsContract == Contract!FairSpec

where `Ready` is the set of the PIDs in its lists and of `current`.  Everything shown
of `ReadyContract`, by TLC or by proof, then holds of the four modules.

**MarkingScript.** An action is a command of the script that changes a file or a directory; `label` is the
place in the script.  `Start` begins an execution with any of the options `-k` (collect), `-n`
(generate nothing) and `-a` (answers); `Edit` and `RemoveSchedule` are what people do between executions.
The commands of `setup_simulator` and `teardown_simulator` that the whole script uses are steps of their own: `MakeDir`
(`mktemp`), `PushDir`, `PopDir`, `RemoveDir`, with `pushed` for the directory stack.  `Signal` may come between any two
commands; it resets the trap and starts the handler `cleanup`, whose commands are `HandlerPop` and `HandlerRemove`
(`handler` is the next one).  A `popd` without a directory on the stack fails, and `set -e` ends the script there, the handler
included.  When the handler has removed the directory the script goes on in the directory it was started in
(`Executable`), where there may be a working simulator or not (`leftover`).  The trap on `EXIT` runs the same handler (`Exit`).
`SecondSignal` ends the script where it is.

**ParallelSum.** `program` says which of the programs runs.  The main thread or process has a loop to create
(`Create`) and a loop to wait (`Join`, `WaitForChild`); `total += value` in a thread is a load and a store.
Every call whose status is tested can fail (`Fail`, `ThreadFails`), and a child can be killed (`Killed`).

**Kernel.** `version` says which kernel was started.  Both are the same functions in a different order and with
different tests, so that most actions serve both.  `kmain` is a sequence of statements (`Boot`) with `pc` in it;
a call of `write` or `set_cursor` has a frame for the program (`"main"`) and one for the interrupt
(`"handler"`), and a step is one cell of the screen or one port.  The handler runs behind an interrupt gate and
is not interrupted itself, so that `"main"` stands still while it runs.  An interrupt without a handler,
or with half of one, resets the machine or sends it astray, and nothing is modelled after that.

### Abstractions

- `processes[]` is indexed by PID, as the loader refuses repeated PIDs.  The order of
  the array shows only in the order of the `add_to_ready_queue` calls of one time unit;
  the models take the due processes in any order, which covers every order of the lines
  of the file.
- A linked list is the sequence of the PIDs behind its sentinel.  The fields of a
  node are functions of the PID; they are meaningful while the PID is in a list or is
  `current`.  Allocation does not fail.
- The scores of `custom.c` are computed in `double`.  The model has the exact score with a bound for its error, a part
  `1 / PRECISION` of the sum of the score's terms (`Rounding`).  Scores that are further apart compare as they are (`Better`); those
  that are not come out either way, unless one process has no less in each term (`NoWorse`): every operation rounds
  monotonically, so that its score is no less either, and the order of the queue decides.
- What is printed is left out, with the formatted averages; the sums the averages are
  made of are in the model.
- `unsigned int` has `UINT` values; the statistics and the index -1 are computed modulo `UINT`.
- Undefined behaviour is what a build can do: a PID of no process indexes the array
  at `UINT - 1` and the program is killed; the variable that `fscanf` leaves
  uninitialised may hold any number; at the end of the file the parser sees what the
  buffer, an uninitialised array on the stack, may hold (the previous line, or
  anything if there was none); an array that is too long for the stack kills the
  program.
- In `MarkingScript` a schedule is its contents and whether the line of `collect_schedule` was added; an output is
  right, another one, the loader's message, or nothing.  One algorithm stands for all of them, as each has
  directories of its own and nothing passes between them; the marks are their two numbers (tests and failures).
  Without a schedule the unquoted names of lines 196 and 205 are patterns, and stand for outputs that are there (`Touched`, `Target`).
- In `Competition` an average is a natural number (hundredths) and a share of the marks a number of parts.
- In `Kernel` a cell is its character, since the colour written is always the same; the greeting has two characters,
  and a key is a character, a newline, a tab or a release.
- A field of a line is a number, `Empty` or `Bad`, and a line has a newline or not: what
  `strtoui` and the tests of separators tell apart.

## 3. Runs

Every pass run states its bounds in its cfg.  Deadlock is not checked, as the programs end:
that they end only with a verdict is `Terminates` in `any_scheduler` and `parallel_sum`, part of the refinement
for the schedulers, and `KeysAnswered` for the kernels; the executions of the marking script are bounded.

| Run | Question | Bounds, and why they are enough |
|---|---|---|
| `ready_contract` | What does every scheduler that keeps the interface get? | 3 processes, 4 arrivals, 3 bursts, TIMEOUT 9: gaps, simultaneous arrivals, workloads that fit and that do not |
| `any_scheduler` | Does the simulator keep right accounts, give the right verdict and end, whatever the submission returns? | 3 processes; 0, any process at any time, and a PID of none are returned |
| `invalid_pid` (violation) | Is a PID of no process noticed? | the shortest such behaviour |
| `fcfs` | Is `fcfs.c` FCFS? | the times of the example of `readme.md` and others; it needs overlap, a gap and a simultaneous arrival |
| `round_robin` | Which turns does `rr.c` give? | the quantum of the code; bursts below, at, just above and more than twice the quantum; an arrival during a rotation |
| `round_robin_modulo` (violation) | Does it switch as its comment says? | 2 processes, a burst of more than two quanta |
| `mlfq` | Is the queue of both submissions a multi-level feedback queue? | the levels and quanta of the code; bursts that end in the first level, with a quantum, reach the last level and take a second turn in it |
| `custom` | Are the histories exact, and the choices sensible? | bursts that end in, with and after the first turn and after several; bursts of 15 and 16, whose scores `PRECISION` 200 cannot always tell apart, so that a process that needs more is taken |
| `loader` | Is what is simulated valid, and what the file says? | up to three lines of 15 kinds: each right, or wrong in one way |
| `kernel` | What can a key do to the boot and to the screen, and what not? | a screen of 3 rows of 4 cells, both kernels, 4 keys of which 2 during the boot at any step: every row is written, passed and scrolled, a tab crosses rows and the end of the screen; registers of 4 values make the cursor need both bytes, and 4 newlines take that of tutorial 7 beyond them |
| `parallel_sum` | Is what is printed the sum of the loop? | 3 workers; values whose results are below, and equal to or above 256 (254, 262), and one that is repeated; any order, any failure |
| `marking_script` | Do old files, broken submissions and signals spoil marks? | 2 submissions with the same or no schedule, 2 executions with any options, 1 change between them, 2 signals: an execution that is cleaned up under way and goes on, one that is killed, and one that follows it |

What the properties say:

- `VerdictSound`, `OneProcessPerUnit`, `AdmittedOnTime`, `Terminates`: the accounts of the
  simulator for any submission at all.
- `ReadyExact`, `NeverStopped`, `StatisticsDoNotWrap`, `IdleOnlyWhenDone`: the promise of the
  interface and what follows from it.  `MakespanIsFixed` compares the length of the simulation
  with a closed form computed from the workload: no choice a scheduler makes among ready processes
  changes when the simulation ends, nor whether it meets the time limit.
- `FcfsTimes` computes when each process starts and ends from the workload alone.
  Its last part, `ReadmeExample`, is the worked example of `readme.md` (totals 13 and 26).
- `TurnsInArrivalOrder`, `FirstTurnsComplete`, `SecondTurnRunsToCompletion` together say what
  `rr.c` really does: one whole quantum each in order of arrival, even though rotation
  breaks the order that insertion assumes, and then each process to its end.
- `LevelMatchesService` ties the level and the two counters to the sum of the quanta of the
  levels above; `LeastServedFirst` and `FirstServiceIsBounded` are its consequences for scheduling.
- `HistoriesExact` says that histories exist as long as nodes do, that the waiting time is the time since the
  arrival that was not service, and that the number of turns tells the service;
  `NoDominatedChoice` says that of processes that have run as long none is passed over for one that has waited less and needs no less,
  nor for a later one in the queue that has waited as long and needs no less.  It does not say that of two that have waited as long the
  one that needs less goes first: their scores can be the same `double`.
- `WorkloadValid`, `TruncatedFileRefused`, `RefusalIsAboutNextLine`: nothing in the code tests for the end
  of the file; a truncated file is refused because the last line is parsed again and its PID repeats.  A file with a header and no line is exempt:
  an uninitialised buffer is parsed there, and the model can go on to simulate what it holds.  `RefusalIsAboutNextLine` holds each
  message against what the line says; the one verdict without a fault is that on the PID 999999, and `LegalPidRefused` names it
  (section 4).

- `EchoIsTerminal` compares the whole screen and the cursor after a key with one step of a terminal, however the
  cells were written and scrolled; it says exactly what may go wrong beyond the screen.  `GreetingShown` and
  `CursorShown` say what the interrupt can spoil and what it cannot: a key in the middle of `write` is written over by it
  (line 191 reads the cursor before, line 226 stores it after), and a key between two ports of
  `set_cursor` leaves the display with a cursor made of two.  The cursor of tutorial 7 is never taken back, and the registers
  hold what two bytes can of it.  `ResetOnlyBeforeHandler` is the order of
  installing the handler and letting interrupts through, right in tutorial 8 and wrong in tutorial 7; the boot of tutorial 8 can go
  astray all the same, by the registers that its handler does not save, but is never reset.  `KeysAnswered`
  is that no scan code is left in the controller for ever.
- `PrintedTotal` gives each program its sum: that of a child is the low byte of its value, or nothing if it was killed.
  `NoLostUpdate` is about each store, whatever the main thread does later.
- `CollectedOnce` is about the directory of schedules after any number of executions, cut off or not.  `FreshMarks`
  says which executions give marks for the present files: those that generate outputs and answers and get no signal, for
  submissions that compile, when no outputs of removed schedules are left.  Each of these conditions is needed; in
  particular a submission that no longer compiles keeps the marks of its last outputs (`cosc240_a4.sh`:196).
- `CompetitionFair` follows from what the script hands on, files of any age included; `SimulatorRemoved` names the cases in
  which the temporary directory may stay: a second signal, or one during the clean-up at the exit; a signal before the
  directory was made, which has reset the trap, and a solution that does not compile; one signal between `mktemp` and `pushd` or
  between `popd` and `rm -R`, where the handler's own `popd` fails.  In no other case does it, and no second one is made while there is one.

### Fairness

The program is one sequential process without blocking calls in the part
modelled: while it can take a step it takes one.  That is `WF_vars(Next)`, weak fairness of
the whole next-state relation, and no stronger fairness is assumed anywhere: nothing is
assumed of the choices of a scheduler.  In `ParallelSum` the main thread or process and each
worker have weak fairness, which is what an operating system's scheduler gives them; failures (`Failure`) have none,
as they need not happen, and waiting for the mutex needs no strong fairness because each worker takes it once.
In `Kernel` the processor executes the program and the handler, and takes a pending interrupt (weak fairness of
`Statement`, `CallStep`, `Take`, `ReadKey`, `Return`); keys (`Press`) need not come.  `MarkingScript` has
no fairness and no liveness property: its loops are over finite sets of files.  `ImplementsContract` includes the fairness of the
contract, so that the runs show that a scheduler's steps are steps of the contract and that it does not
stop where the contract goes on.

### Comparison with the program

The models of the schedulers were compared with the compiled simulator while they were written: for every workload
of three processes over small sets of arrival and processing times (729 each for
fcfs, rr, constant and exponential, 8000 for custom, with bursts of 1, 2, 5, 7 and 15 and exact scores) the end times of the model and of the program agree.

## 4. Findings

| Run | What the code says, and what it does |
|---|---|
| `invalid_pid` | `simulator.c`:197 says "Invalid process scheduled - stop".  The index -1 is returned as an unsigned int, `index < 0` never holds, and the program accesses `processes[4294967295]` and is killed. |
| `round_robin_modulo` | `rr.c`:109 says "The process switches via a modulo operation on the processed_time".  The quantum is compared for equality with a counter that is never reset, and from its second turn on a process is not preempted. |

Other things noticed while reading, which no run of its own is about: `readme.md` and the error message of
`simulator.c`:362 allow PIDs less than 1,000,000, and the PID 999999 is refused (`MAX_PID` and `>=`; `LegalPidRefused`); a line `1,,5` is accepted as an
arrival at time 0, and an arrival time of 0 is accepted (and used in the example)
although `readme.md` says positive; `rr.c`:67 says of its list "sorted by arrival time, then pid", which
rotation does not keep; `main` exits with status 0 when a simulation has failed, so that `process_schedule`
does not return 1 "if there is a failure" (`cosc240_a4.sh`:93); one Ctrl-C between two commands of the script can leave its
temporary directory behind (`SimulatorRemoved`); the marks of `calculate_marks` can be negative; a key
during the boot of tutorial 7 can reset the machine; `keyboard_handler` saves no registers, so that the module of
tutorial 8 loses the value it puts into `eax` at the first key.

## 5. Proofs

Every theorem is for all values of the constants that its assumptions admit: any finite set of processes, any workload,
any time limit, any quantum, any number of queues, threads or lines.

### What is assumed

| Assumption | Says | Why the code justifies it |
|---|---|---|
| `SimulatorAssumption` | there is a process, PIDs are positive numbers, the times are in the range the loader accepts, `TIMEOUT` is positive and an `unsigned int` | `LoadedWorkloadIsValid` proves it of every workload `main` hands on, but for the width of the numbers, which is that of the type |
| `UnknownAssumption` (`AnyScheduler`) | the PID of no process is none of the processes' and not 0 | it stands for any such number |
| `QuantumAssumption` (`RoundRobin`) | `QUANTUM` is positive | 3 in the code (`rr.c`:116) |
| `QueuesAssumption` (`Mlfq`) | there are at least two queues | 4 in the code; with one queue the level after the first would be an index outside the array |
| `PrecisionAssumption` (`Custom`) | `PRECISION` is positive; `NoneDominated` needs it to be at least `6 * TIMEOUT * TIMEOUT` | each term of the score goes through at most four operations and the constant 1.2, each with a relative error of 2^-53, hence 2^50; `TIMEOUT` is 1,000,000, and 6 * 10^12 < 2^50 |
| `LoaderAssumption` | a line is a PID field, two time fields and their separators | what `read_process_initial` looks at |
| `ScriptAssumption` (`MarkingScript`) | there are finitely many submissions | they are directories on a disk |
| `ScreenAssumption` (`Kernel`) | there is a cell, a tab is not longer than a row, two registers can hold any cell of the screen | 80 by 25 cells, tabs of 8 and 4, 2000 < 256 * 256 |
| `GreetingAssumption` (`Kernel`) | the greeting ends more than a row before the end of the screen, so that the first key after it does not scroll it | 80 * 12 + 33 + 12 + 80 < 2000 |
| `SizeAssumption`, `ValuesAssumption`, `ByteAssumption`, `GarbageAssumption` (`ParallelSum`) | there is a value, values are integers | `VALUES_SIZE` is a positive constant, `int` |

### The simulator, for any submission (`SimulatorProofs`)

| Theorem | Statement |
|---|---|
| `Invariance` | `Spec => []AInv` |
| `VerdictsAreSound` | `Spec => []VerdictSound` |
| `UnitsAreNotShared` | `Spec => []OneProcessPerUnit` |
| `ArrivalsAreHandedOver` | `Spec => []AdmittedOnTime` |

`OneProcessPerUnit` speaks of the units of those that have finished; it is not inductive, since it says nothing of those that will
finish next.  `AInv` adds that the units given to all processes together are at most the units that have passed
(`UnitsWithinTime`); those of the finished ones are among them.

### The loader (`SimulatorProofs`)

| Theorem | Statement |
|---|---|
| `LoaderInvariance` | `LoaderSpec => []LoaderInv` |
| `LoadedWorkloadIsValid` | `LoaderSpec => []WorkloadValid` |
| `TruncationIsNoticed` | `LoaderSpec => []TruncatedFileRefused` |
| `FirstBadLineIsRefused` | `LoaderSpec => []RefusalIsAboutNextLine` |

Why no test for the end of the file is needed is `OwnLines`: the processes read so far come from lines of their own, because what is parsed
at the end of the file is the last line again and its PID repeats (`DistinctPids`).
`LoadedWorkloadIsValid` discharges `SimulatorAssumption`, which all other theorems about the simulator
start from.

### The marking script and the competition (`SimulatorProofs`)

| Theorem | Statement |
|---|---|
| `DirectoryIsRemoved` | `ScriptSpec => SimulatorRemoved` |
| `SchedulesAreCollectedOnce` | `ScriptSpec => []CollectedOnce` |
| `MarksAreForCurrentFiles` | `ScriptSpec => []FreshMarks` |
| `ScoresAreFair` | the parts of `CompetitionFair`, for any table of averages that has a finite number of rows and a bound |
| `CompetitionIsFair` | `ScriptSpec => []CompetitionFair` |

They hold for any number of submissions, contents, executions, edits and signals.

- **`SimulatorRemoved`** (`DirInv`).  The property is about the step that ends an execution; `DirInv` says at each place of the script and
  of its handler whether the directory is there, whether the script is in it and whether the trap is still set.  `LeftBehind` and
  `OneDirectory` are the two halves of the property, from that invariant.
- **`CollectedOnce`** (`CollectedInv`).  A schedule is compared, with its line added, with all that are there (`Unique`), and it
  must not overwrite another one: the invariant adds that `mktemp` gives no name twice (`fresh`).
- **`FreshMarks`** (`GenerateInv`).  Two loops, one inside the other, and a signal, an edit or a broken file at any place in them.
  `VisitedInv` says which submissions are up to date in the loop over the authors, `ProcessedInv` which schedules are in
  the loop over the files, where the simulator in the temporary directory must be the one of the author visited; both are
  promised only as long as nothing has disturbed the execution.  `UpToDate` is a fact about each schedule; `Marks` counts, and
  equal outputs make equal counts.
- **`CompetitionFair`** holds in every state and not only in those that are reached, since the ranks make it so: that a better
  average has no higher rank is an inclusion of finite sets (`ScoresAreFair`).  The property of the script is that it hands over a
  table with an entry for each submission and schedule.

### The interface (`ReadyContractProofs`)

| Theorem | Statement |
|---|---|
| `Invariance` | `Spec => []IInv` |
| `TypeCorrect` | `Spec => []TypeOK` |
| `ReadyQueueExact` | `Spec => []ReadyExact` |
| `SchedulerNeverStopped` | `Spec => []NeverStopped` |
| `ServiceWithinElapsed` | `Spec => []ElapsedCoversService` |
| `StatisticsAreSound` | `Spec => []StatisticsDoNotWrap` |
| `WorkConserving` | `Spec => IdleOnlyWhenDone` |
| `LengthIsFixed` | `Spec => []MakespanIsFixed` |

The properties are not inductive one by one.  That the simulator never stops the
scheduler needs the ready queue to hold unfinished processes only; that the type of
`processed_time` is kept needs that too; that the statistics do not wrap needs that a process
runs only after its arrival, hence that processes are admitted when they arrive.  `IInv` joins these:

    IInv == TypeOK /\ ControlInv /\ AdmissionInv /\ ReadyExact /\ NeverStopped /\ ElapsedCoversService

`InitInv` shows it of the initial states; `LoopTestKeepsInv`, `AddKeepsInv`, `RunKeepsInv`
and `RunNoneKeepsInv` that each action keeps it, one step per conjunct.  `RunIsUnit` and
`RunNoneIsIdle` say which branch of `Account` a call of a well-behaved scheduler takes:
the branches for finished and unknown processes are excluded there, by `ReadyExact`.
`AllArrivedAdmitted` is what `WorkConserving` rests on.

`LengthIsFixed` compares the end of the simulation with a closed form, the greatest of the sums "arrival time of p, plus the
processing times of all that arrive with p or after it".  `SpanInv` says it of the time used so far: from no arrival on have more
units been used than there were (`ServiceWithinSpan`), and for some arrival all of them have, or
there is nothing to do (`BusyOrQuiet`).

### The schedulers

| Scheduler | Theorem | Statement |
|---|---|---|
| `FcfsProofs` | `FcfsKeepsContract` | `Spec => C!Spec`, the contract with `ready <- Ready` |
| | `ListIsFaithful` | `Spec => []ListFaithful` |
| | `FcfsStatistics` | `Spec => [](C!NeverStopped /\ C!StatisticsDoNotWrap)` |
| | `TimesAreFirstComeFirstServed` | `Spec => []FcfsTimes` |
| `RoundRobinProofs` | `RoundRobinKeepsContract` | `Spec => C!Spec` |
| | `ListIsFaithful` | `Spec => []ListFaithful` |
| | `TailIsOrdered` | `Spec => []TurnsInArrivalOrder` |
| | `FirstTurnsInOrder` | `Spec => []FirstTurnsComplete` |
| | `SecondTurnIsLast` | `Spec => SecondTurnRunsToCompletion` |
| `MlfqProofs` | `MlfqKeepsContract` | `Spec => C!Spec` |
| | `NodesAreFaithful` | `Spec => []NodesFaithful` |
| | `LevelTellsService` | `Spec => []LevelMatchesService` |
| | `LeastServedRunsFirst` | `Spec => LeastServedFirst` |
| | `NewcomersAreServed` | `Spec => []FirstServiceIsBounded` |
| `CustomProofs` | `CustomKeepsContract` | `Spec => C!Spec` |
| | `HistoriesAreExact` | `Spec => []HistoriesExact` |
| | `NoneDominated` | `Spec => NoDominatedChoice`, when `PRECISION >= 6 * TIMEOUT * TIMEOUT` |
| | `NewcomersAreServed` | `Spec => []FirstServiceIsBounded` |

In each module the invariant and the refinement are proved together.  The invariant (`FInv`, `RInv`, `MInv`, `CInv`) is
`C!IInv`, the invariant of the contract with the processes on the lists as the ready ones, and the scheduler's own part.
The scheduler's part alone is not inductive: that the
node count stays equal to the simulator's needs that the listed processes are admitted and
unfinished, and that the walk past finished nodes ends at the head of the list needs `ReadyExact`.
A step from the invariant is shown to be a step of the contract; the contract's `NextKeepsInv` then gives `C!IInv'`, and
with it the scheduler's part.  `C!Spec` is the safety part of the contract.

What each module adds:

- **`FcfsTimes`** (`TimesInv`).  `RanInOrder` is the property for a process that has run, with the unit it
  started in as a witness.  That the first unit comes no later needs `KeptBusy`: while a process waits,
  the last unit went to a process before it.
- **The turns of `rr.c`** (`TurnInv`).  The list is not sorted.  `TailHadOneTurn` says that behind the head nobody has had more than
  `QUANTUM` units.  It survives an insertion at the front, which pushes the head into the tail, because the
  insertion goes there only when the head did not arrive earlier, so that by `ElapsedCoversService` it has not
  run (`HeadHasNotRun`).  `TurnInv` adds that in the tail there is no process in the middle of a turn, that those with the same
  number of turns are in order of arrival, and that an insertion, which stops at the first process that comes later,
  has nothing but processes of the same time unit behind it (`NewOnesLast`).
- **The levels of the multi-level feedback queue** (`LevelsFit`).  The sum of the quanta of the levels above a process and its counter make up
  its processed time; in the last level they do so up to a multiple of the quantum, which is where `quantum_used` is
  compared for equality.  The proof is for any quanta: the linear and the quadratic ones are both instances.
- **The histories of `custom.c`** (`TurnInv` of `CustomProofs`).  A history is freed with its node, so that the pointers into nodes hold; the
  number of turns tells the service only together with what is used of the current turn, and with which queue the
  turn came from (`InTurn`).
- **The choice by score** (`LongerWaitIsBetter`).  Of two that have run as long, the number of turns is the same (`RescheduleCountExact`), and
  one more unit of waiting is worth more than rounding can take away, since every factor of a score is at most `TIMEOUT`
  (`LongerWaitScoresMore`, `ScoreIsBounded`).  When they have waited as long nothing but `NoWorse` can be had.
- **Bounded first service** (`NewcomerInv`, in both).  How long a process has waited is at most what is gone of the turn it found running (`OldTurn`)
  and of the first turns of those before it (`SharesAhead`).  Each unit that passes adds to one of the two, since the
  fast queue is served first and is in order, and so is the process that runs from it (`CurrentInOrder`).

### The kernels (`TutorialProofs`)

| Theorem | Statement |
|---|---|
| `OnlyResetBeforeHandler` | `KernelSpec => []ResetOnlyBeforeHandler` |
| `KernelTypeCorrect` | `KernelSpec => []KernelTypeOK` |
| `DisplayShowsCursor` | `KernelSpec => []CursorShown` |
| `KeysAreEchoed` | `KernelSpec => []EchoIsTerminal` |
| `GreetingStands` | `KernelSpec => []GreetingShown` |

They are for both kernels, a screen of any size, tabs of any length up to a row, any number of keys
and any moments at which they come.  Each invariant rests on those before it:

| Invariant | Says | Is needed because |
|---|---|---|
| `BootInv` | where kmain and the handler can be, and what is installed and unmasked at each statement | `ResetOnlyBeforeHandler` speaks only of a machine that has been reset; when it is, the order of the statements decides |
| `RangeInv` | what is in the frame of each call; how far the address and the cursor are, by the keys that have come | the handler may start anywhere and moves the cursor under `write`.  In tutorial 8 a tab takes the address beyond the screen by less than a row, and one scroll is enough; in tutorial 7 each key adds at most a row (`Reach`) |
| `PortInv` | which bytes of the cursor the display has been sent | both contexts call `set_cursor`; the handler's call is whole, and the one of kmain is until a key comes between its ports (`torn`).  `TwoRegisters`: high and low byte make the number again, modulo 256 * 256, by the uniqueness of division; in tutorial 8 the cursor is less than that (`CursorFits`) |
| `EchoInv` | the screen, cell by cell, while the handler writes: blanks up to the address and the old screen behind it (`CharacterInv`), rows that have been moved up and rows that have not (`ScrollInv`), the finished screen (`EndInv`) | a step writes one cell.  The scrolling loop goes up from cell 0 and reads a row below what it writes, so that it never reads what it has written |
| `MainInv`, `GreetingInv` | what kmain holds of the greeting and what stands on the screen of it | from `set_cursor` on no key is echoed, so that nobody else writes; the first key after the greeting writes behind it and, by `GreetingAssumption`, does not scroll, so that the greeting stands while its handler is still running |
| `ClearedInv` | the cells `clear_screen` has blanked: those before its cursor | the rest of the screen is blank whatever the memory held.  Each of its 25 newlines blanks the row of the cursor; the last one passes the end of the screen and scrolls, which moves blank rows onto blank rows |

### Threads and child processes (`TutorialProofs`)

| Theorem | Statement |
|---|---|
| `TypeCorrect` | `Spec => []TypeOK` |
| `MutualExclusion` | in `thread.c` two workers that hold the mutex are the same one |
| `NoUpdateLost` | `Spec => NoLostUpdate` |
| `PrintedTotalComplete` | `Spec => []EveryThreadAdded`, the first part of `PrintedTotal` |
| `PrintedTotalIsSum` | `Spec => []PrintedTotal` |

That a store loses nothing needs that what the thread has loaded still is the total.  The invariant says so for whoever is
between load and store, and it is kept because `holder` is the only thread there (`MutexInv`).  That a printed total has all
additions needs that main has passed the join of every worker (`JoinInv`).  `AInv` adds that the total always is the sum of
what has been added (`SumInv`), for a child the low byte of its value; that needs that main adds no status twice (`ForkInv`) and
that no thread stores twice (`MutexInv`).  `SumToIsTotal` turns the sum over a set into that in the order of the loop.

### The operators (`OperatorProofs`)

- Lists: what `add_next` and `remove_next` do to the length, the elements,
  the set of the PIDs and the absence of repetitions; where the loops of `add_to_ready_queue` stop; that insertion into a sorted
  list keeps it sorted (`SortedInsertKeepsSorted`), and that into an unsorted one it still adds the process and
  nothing else (`SortedInsertAdds`); the same for several lists that share no process.
- Sums: the fold the properties are written with satisfies its recursive equation on a finite set (`TotalIsSolution`) and has
  only one solution there (`TotalUnique`), from which follow what one more element, one changed term, greater terms and a
  larger set do to a sum (`TotalAdd`, `TotalUpdate`, `TotalMonotone`, `TotalOfSubset`).  The inductions in these proofs are over
  sets of natural numbers or of subsets (`InductionOnNat`, `InductionOnSubsets`: a set that has the first element and with
  each element the next has all), so that no theorem with an operator as its parameter is used.
- First shares: of the units each process has had, at most a given part (`FirstShare`), and how their sum grows with a unit.
- Numbers: the greatest of a bounded set of integers exists (`MaxOfBounded`), which the marks of the competition need; quotient
  and remainder determine each other (`Division`, `DivisionUnique`), which rows, tab stops and the bytes of the cursor need.

## 6. Only model-checked

Every invariant and every action property of the passing runs is stated by a theorem.  What stays with TLC:

- Liveness: `Terminates` of `any_scheduler` and of `parallel_sum`, `KeysAnswered` of `kernel`, and the fairness part of
  `ImplementsContract` in the four schedulers.  Liveness under fairness and `ENABLED` are out of TLAPS's reach; the safety part
  of `ImplementsContract` is proved.
- The two violations of section 4: a counterexample needs no proof.
- The comparison with the program (section 3), which is over finitely many workloads.

## 7. Not modelled

| Part | Reason |
|---|---|
| The lines printed, the averages as floating-point numbers, the command line, opening the file | output and I/O |
| Failing `malloc` | the program is killed, or exits, at once |
| Tutorials 2, 3, 6 | print a fixed text |
| `cosc240_a4.sh`: `-1`, `-d`, several algorithms, `parse_params` | one submission is a set of one; the debug mode only copies output to the terminal; algorithms do not meet; the command line |
| The averages of the competition, the marks as decimals | formatted output; the numbers they are made of are in the model |
| `fork_intro.c`, `wait_intro.c`, `waitpid_intro.c` | print which process they are |
| What a kernel does after a reset or with wrong registers | anything |
| Colours, scan code tables, `multiboot.h`, segment descriptors field by field | tables that no property is about |
| Tutorial 4 and 5 exercises | short sequential programs on strings, files and numbers |
