----------------------------- MODULE MarkingScript -----------------------------
(***************************************************************************)
(* assignment4/simulator/cosc240_a4.sh, run again and again over the same  *)
(* directories: it collects the schedules of the submissions, generates    *)
(* the outputs of an algorithm, marks them against those of the solutions  *)
(* and holds the competition (score_competition.py).  Schedules, outputs   *)
(* and the code of the submissions stay between the executions; the code   *)
(* is edited and schedules are removed there.  The algorithms are treated  *)
(* alike, each in directories of its own: one of them is modelled.         *)
(*                                                                         *)
(* A step is a command of the script that changes a file or a directory.   *)
(* A signal arrives between two of them, and its handler runs there; one   *)
(* that kills the simulation of the moment as well is the signal before    *)
(* it.  A command that fails ends the script (set -e), unless the script   *)
(* tests it.                                                               *)
(***************************************************************************)
EXTENDS Competition

CONSTANTS
  Submissions,    \* the directories with submissions
  Solutions,      \* the directory with the solutions
  Contents,       \* what a spec_schedule.txt may say
  MaxExecutions,  \* bound: executions of the script
  MaxEdits,       \* bound: changes between executions
  MaxSignals      \* bound: signals, over all executions

NoSchedule == "none"

ASSUME ScriptAssumption == IsFiniteSet(Submissions)

Authors == Submissions \cup {Solutions}

(* A file of the directory schedules: a schedule as it was given, or with  *)
(* the line collect_schedule adds to it.                                   *)
Files == Contents \X {"given", "collected"}

(* Their names; those that come from mktemp are counted from 2.            *)
Names == 1 .. Cardinality(Submissions) * MaxExecutions + 1

(* The file of the algorithm: it may not be there or not compile, do what  *)
(* is asked for, something else (a simulation that fails exits with 0      *)
(* too), or crash or run into the timeout.                                 *)
Code == {"broken", "right", "wrong", "stuck"}

(* An output: nothing, the right one, another one, or the message of the   *)
(* loader, which is the same for every scheduler.                          *)
Outputs == {"empty", "answer", "other", "refused"}

VARIABLES
  valid,        \* the contents the simulator accepts
  spec,         \* per submission, its spec_schedule.txt
  leftover,     \* the simulator in the directory the script was started in
  code,         \* per author, the file of the algorithm
  schedules,    \* the directory of schedules: files by name
  fresh,        \* the next name for a file
  output,       \* per author, the directory of outputs: by schedule name
  label,        \* the place in the script, or "idle" between executions
  options,      \* of this execution: collect, generate, generate_answers
  todo,         \* who is still to be visited by the loop
  author,       \* who is visited
  left,         \* the schedules still to be processed
  sim_dir,      \* what is in the temporary directory, or "removed"
  pushed,       \* the script is in that directory: pushd, and no popd yet
  trapped,      \* the handler of signals and of the exit is set
  handler,      \* the next command of that handler, "none" when it does not run
  score,        \* per submission, the tests and how many of them failed
  executions,   \* how many there were
  edits,        \* how many changes between them
  signals,      \* how many signals
  disturbed     \* history: this execution got a signal

given == <<valid, spec, leftover>>
files == <<code, schedules, fresh, output>>
loop == <<options, todo, author, left, score>>
dir == <<sim_dir, pushed>>
trap == <<trapped, handler>>
counts == <<executions, edits, signals>>
scriptVars == <<given, files, label, loop, dir, trap, counts, disturbed>>

(* The variables of the script before and after an execution.              *)
NoOptions == [collect |-> FALSE, generate |-> FALSE, answers |-> FALSE]
NoScore == [w \in Submissions |-> [tests |-> 0, failed |-> 0]]

Quit ==
  /\ label' = "idle"
  /\ options' = NoOptions /\ todo' = {} /\ author' = Solutions /\ left' = {}
  /\ score' = NoScore /\ disturbed' = FALSE
  /\ pushed' = FALSE /\ handler' = "none" /\ trapped' = FALSE

(* The script is at a command, and not in the handler.                     *)
At(l) == label = l /\ handler = "none"

NoSuchFile == 0      \* the name "*": what the pattern is when nothing matches

-----------------------------------------------------------------------------
(* External: the compiler and the simulator.                               *)

Compiles(c) == c \in {"right", "wrong", "stuck"}

Accepts(name) == name # NoSuchFile /\ schedules[name][1] \in valid

(* The output of an executable, on a schedule that is accepted or not.     *)
Result(exe, accepted) ==
  CASE ~Compiles(exe) -> "empty"
    [] Compiles(exe) /\ ~accepted -> "refused"
    [] exe = "right" /\ accepted -> "answer"
    [] exe = "wrong" /\ accepted -> "other"
    [] exe = "stuck" /\ accepted -> "empty"

Succeeds(exe, accepted) == exe \in {"right", "wrong"} /\ accepted

(* ./simulator: in the temporary directory or, when cleanup has left it,   *)
(* where the script was started.                                           *)
Executable == IF pushed THEN sim_dir ELSE leftover

-----------------------------------------------------------------------------
(* setup_simulator compiles the file in the directory it has made.  There  *)
(* is nothing to compile when find has found no file, and nothing to       *)
(* compile in when cleanup has removed the directory.                      *)

SetUp(c) == sim_dir # "removed" /\ Compiles(c)

(* A loop over a pattern visits what it matches in a fixed order.          *)
First(set) == CHOOSE e \in set : TRUE

(* What the loops over the directory of schedules run through.             *)
Matches == IF DOMAIN schedules = {} THEN {NoSuchFile} ELSE DOMAIN schedules

Start ==
  /\ label = "idle" /\ executions < MaxExecutions
  /\ executions' = executions + 1
  /\ options' \in [collect : BOOLEAN, generate : BOOLEAN, answers : BOOLEAN]
  /\ trapped' = TRUE
  /\ sim_dir' = "removed"
  /\ label' = "begin"
  /\ UNCHANGED <<given, files, todo, author, left, score, pushed, handler, edits,
                 signals, disturbed>>

-----------------------------------------------------------------------------
(* The temporary directory: collect_schedules and process_algorithm make   *)
(* it, enter it, leave it and remove it by the same commands.              *)

(* mktemp of setup_simulator                                               *)
MakeDir ==
  /\ \/ At("begin") /\ options.collect /\ label' = "collect_made"
     \/ At("touched") /\ label' = "made"
  /\ sim_dir' = "unbuilt"
  /\ UNCHANGED <<given, files, loop, pushed, trap, counts, disturbed>>

(* pushd of setup_simulator                                                *)
PushDir ==
  /\ \/ At("collect_made") /\ label' = "collect_setup"
     \/ At("made") /\ label' = "setup"
  /\ pushed' = TRUE
  /\ UNCHANGED <<given, files, loop, sim_dir, trap, counts, disturbed>>

(* popd of teardown_simulator.  It fails when cleanup was faster.          *)
PopDir ==
  /\ At("collect_popd") \/ At("popd")
  /\ IF pushed
     THEN /\ pushed' = FALSE
          /\ label' = IF label = "popd" THEN "rm" ELSE "collect_rm"
          /\ UNCHANGED <<loop, trap, disturbed>>
     ELSE Quit
  /\ UNCHANGED <<given, files, sim_dir, counts>>

(* rm -R of teardown_simulator                                             *)
RemoveDir ==
  /\ \/ At("collect_rm") /\ label' = "collected"
     \/ At("rm") /\ label' = "generate"
  /\ sim_dir' = "removed"
  /\ UNCHANGED <<given, files, loop, pushed, trap, counts, disturbed>>

(* trap cleanup ... EXIT: where the script ends, the handler runs when     *)
(* there is something to remove.                                           *)
Exit ==
  IF trapped /\ sim_dir # "removed"
  THEN /\ label' = "exit" /\ handler' = "popd" /\ trapped' = FALSE
       /\ UNCHANGED <<loop, pushed, disturbed>>
  ELSE Quit

-----------------------------------------------------------------------------
(* collect_schedules                                                       *)

CollectBegin ==
  /\ At("collect_setup") /\ SetUp(code[Solutions])
  /\ sim_dir' = code[Solutions]
  /\ todo' = Submissions
  /\ label' = "collect"
  /\ UNCHANGED <<given, files, options, author, left, score, pushed, trap, counts,
                 disturbed>>

(* Without a solution the script dies.                                     *)
CollectDies ==
  /\ At("collect_setup") /\ ~SetUp(code[Solutions])
  /\ Exit
  /\ UNCHANGED <<given, files, sim_dir, counts>>

(* Mutant: the file is compared before the line is added to it.            *)
UniqueBeforeLine(content) ==
  \A n \in DOMAIN schedules : schedules[n] # <<content, "given">>

(* unique_schedule                                                         *)
Unique(content) ==
  \A n \in DOMAIN schedules : schedules[n] # <<content, "collected">>

(* mktemp: a name that no file has or had.                                 *)
Added(content) ==
  [n \in DOMAIN schedules \cup {fresh} |->
     IF n = fresh THEN <<content, "collected">> ELSE schedules[n]]

Collectable(w) ==
  /\ spec[w] # NoSchedule
  /\ Succeeds(Executable, spec[w] \in valid)
  /\ Unique(spec[w])

(* collect_schedule                                                        *)
Collect(w) ==
  /\ At("collect") /\ todo # {} /\ w = First(todo)
  /\ IF Collectable(w) THEN schedules' = Added(spec[w]) /\ fresh' = fresh + 1
                       ELSE UNCHANGED <<schedules, fresh>>
  /\ todo' = todo \ {w}
  /\ UNCHANGED <<given, code, output, label, options, author, left, score, dir,
                 trap, counts, disturbed>>

CollectEnd ==
  /\ At("collect") /\ todo = {}
  /\ label' = IF sim_dir = "removed" THEN "collected" ELSE "collect_popd"
  /\ UNCHANGED <<given, files, loop, dir, trap, counts, disturbed>>

(* The loop of main over the submissions, and the solutions after them.    *)
Generate ==
  /\ At("collected") \/ (At("begin") /\ ~options.collect)
  /\ IF options.generate
     THEN /\ label' = "generate"
          /\ todo' = Submissions \cup IF options.answers THEN {Solutions} ELSE {}
     ELSE label' = "mark" /\ todo' = {}
  /\ UNCHANGED <<given, files, options, author, left, score, dir, trap, counts,
                 disturbed>>

-----------------------------------------------------------------------------
(* process_algorithm: every output is touched, then the simulator set up.  *)
(* Without a schedule the name is a pattern, for the outputs there are.    *)
Touched(outputs) ==
  IF DOMAIN schedules = {} /\ DOMAIN outputs # {} THEN outputs
  ELSE [n \in DOMAIN outputs \cup Matches |->
          IF n \in DOMAIN outputs THEN outputs[n] ELSE "empty"]

Touch(w) ==
  /\ At("generate") /\ todo # {}
  /\ w = IF todo = {Solutions} THEN Solutions ELSE First(todo \ {Solutions})
  /\ output' = [output EXCEPT ![w] = Touched(output[w])]
  /\ author' = w /\ todo' = todo \ {w}
  /\ label' = "touched"
  /\ UNCHANGED <<given, code, schedules, fresh, options, left, score, dir, trap,
                 counts, disturbed>>

Compile ==
  /\ At("setup")
  /\ IF SetUp(code[author])
     THEN sim_dir' = code[author] /\ left' = Matches
     ELSE sim_dir' = sim_dir /\ left' = {}
  /\ label' = "process"
  /\ UNCHANGED <<given, files, options, todo, author, score, pushed, trap, counts,
                 disturbed>>

(* The file a schedule's output goes to, the first one of a pattern.       *)
Target(w, n) == IF DOMAIN schedules = {} THEN First(DOMAIN output[w]) ELSE n

(* Mutant: the output of a simulation that has not ended is thrown away.   *)
ProcessKeepsOld(n) ==
  LET result == Result(Executable, Accepts(n)) IN
  /\ At("process") /\ left # {} /\ n = First(left)
  /\ output' = IF result = "empty" THEN output
               ELSE [output EXCEPT ![author][Target(author, n)] = result]
  /\ left' = left \ {n}
  /\ UNCHANGED <<given, code, schedules, fresh, label, options, todo, author,
                 score, dir, trap, counts, disturbed>>

(* process_schedule: the file is emptied, then written by the simulator.   *)
Process(n) ==
  /\ At("process") /\ left # {} /\ n = First(left)
  /\ output' = [output EXCEPT ![author][Target(author, n)] =
                   Result(Executable, Accepts(n))]
  /\ left' = left \ {n}
  /\ UNCHANGED <<given, code, schedules, fresh, label, options, todo, author,
                 score, dir, trap, counts, disturbed>>

(* Mutant: the directory is left when the simulator could not be compiled. *)
ProcessedWhenBuilt ==
  /\ At("process") /\ left = {}
  /\ label' = IF sim_dir \in {"removed", "unbuilt"} THEN "generate" ELSE "popd"
  /\ UNCHANGED <<given, files, loop, dir, trap, counts, disturbed>>

Processed ==
  /\ At("process") /\ left = {}
  /\ label' = IF sim_dir = "removed" THEN "generate" ELSE "popd"
  /\ UNCHANGED <<given, files, loop, dir, trap, counts, disturbed>>

-----------------------------------------------------------------------------
(* calculate_marks: a line of diff for each directory that is not there,   *)
(* or for each file that differs or is in only one of them.                *)

Agrees(mine, correct, n) ==
  n \in DOMAIN mine /\ n \in DOMAIN correct /\ mine[n] = correct[n]

Failed(mine, correct) ==
  IF DOMAIN mine = {} /\ DOMAIN correct = {} THEN 2
  ELSE IF DOMAIN mine = {} \/ DOMAIN correct = {} THEN 1
  ELSE Cardinality({n \in DOMAIN mine \cup DOMAIN correct :
                      ~Agrees(mine, correct, n)})

Marks(w) == [tests |-> Cardinality(DOMAIN output[Solutions]),
             failed |-> Failed(output[w], output[Solutions])]

(* output_averages: what grep finds in the output of a schedule; without   *)
(* the line, or without the file, there is no average.  Two outputs that   *)
(* differ are taken to have the averages 2 and 1.                          *)
Average(w, n) ==
  IF n \notin DOMAIN output[w] THEN NULL
  ELSE CASE output[w][n] = "answer" -> 2
         [] output[w][n] = "other" -> 1
         [] OTHER -> NULL

Results == [w \in Submissions |-> [n \in Matches |-> Average(w, n)]]

Mark ==
  /\ At("mark") \/ (At("generate") /\ todo = {})
  /\ score' = [w \in Submissions |-> Marks(w)]
  /\ label' = "end"
  /\ UNCHANGED <<given, files, options, todo, author, left, dir, trap, counts,
                 disturbed>>

End ==
  /\ At("end")
  /\ Exit
  /\ UNCHANGED <<given, files, sim_dir, counts>>

-----------------------------------------------------------------------------
(* cleanup, for the first signal.  The second one ends the script where it *)
(* is.                                                                     *)
Signal ==
  /\ label # "idle" /\ trapped /\ signals < MaxSignals
  /\ signals' = signals + 1
  /\ trapped' = FALSE /\ disturbed' = TRUE
  /\ handler' = IF sim_dir = "removed" THEN "none" ELSE "popd"
  /\ UNCHANGED <<given, files, label, loop, dir, executions, edits>>

SecondSignal ==
  /\ label # "idle" /\ ~trapped /\ signals < MaxSignals
  /\ signals' = signals + 1
  /\ Quit
  /\ UNCHANGED <<given, files, sim_dir, executions, edits>>

(* popd, in the handler: it fails where there is no directory to return    *)
(* to, and with it the script.                                             *)
HandlerPop ==
  /\ handler = "popd"
  /\ IF pushed
     THEN /\ pushed' = FALSE /\ handler' = "rm"
          /\ UNCHANGED <<label, loop, trapped, disturbed>>
     ELSE Quit
  /\ UNCHANGED <<given, files, sim_dir, counts>>

(* rm -R, in the handler.  After a signal the script goes on.              *)
HandlerRemove ==
  /\ handler = "rm"
  /\ sim_dir' = "removed"
  /\ IF label = "exit" THEN Quit
     ELSE /\ handler' = "none"
          /\ UNCHANGED <<label, loop, pushed, trapped, disturbed>>
  /\ UNCHANGED <<given, files, counts>>

(* Between the executions                                                  *)
Edit ==
  /\ label = "idle" /\ edits < MaxEdits
  /\ edits' = edits + 1
  /\ \E w \in Authors, c \in Code : code' = [code EXCEPT ![w] = c]
  /\ UNCHANGED <<given, schedules, fresh, output, label, loop, dir, trap,
                 executions, signals, disturbed>>

RemoveSchedule ==
  /\ label = "idle" /\ edits < MaxEdits
  /\ edits' = edits + 1
  /\ \E n \in DOMAIN schedules :
       schedules' = [m \in DOMAIN schedules \ {n} |-> schedules[m]]
  /\ UNCHANGED <<given, code, fresh, output, label, loop, dir, trap,
                 executions, signals, disturbed>>

-----------------------------------------------------------------------------

Nothing == [n \in {} |-> ""]

ScriptInit ==
  /\ valid \in SUBSET Contents
  /\ spec \in [Submissions -> Contents \cup {NoSchedule}]
  /\ leftover \in {"broken", "wrong"}
  /\ code = [w \in Authors |-> "right"]
  /\ schedules \in {Nothing} \cup
                   {[n \in {1} |-> <<c, "given">>] : c \in Contents}
  /\ fresh = 2
  /\ output = [w \in Authors |-> Nothing]
  /\ label = "idle"
  /\ options = NoOptions
  /\ todo = {} /\ author = Solutions /\ left = {}
  /\ sim_dir = "removed" /\ pushed = FALSE
  /\ trapped = FALSE /\ handler = "none"
  /\ score = NoScore
  /\ executions = 0 /\ edits = 0 /\ signals = 0
  /\ disturbed = FALSE

ScriptStep ==
  \/ MakeDir \/ PushDir \/ PopDir \/ RemoveDir
  \/ CollectBegin \/ CollectDies \/ CollectEnd
  \/ Generate \/ Compile \/ Processed \/ Mark \/ End
  \/ \E w \in Submissions : Collect(w)
  \/ \E w \in Authors : Touch(w)
  \/ \E n \in Names \cup {NoSuchFile} : Process(n)

ScriptNext ==
  \/ Start \/ ScriptStep
  \/ Signal \/ SecondSignal \/ HandlerPop \/ HandlerRemove
  \/ Edit \/ RemoveSchedule

ScriptSpec == ScriptInit /\ [][ScriptNext]_scriptVars

-----------------------------------------------------------------------------

\* A schedule that was collected is one the simulator accepts, and no other file
\* collected says the same, in whatever order and however often the submissions
\* are collected, signals included.
CollectedOnce ==
  \A n \in DOMAIN schedules : schedules[n][2] = "collected" =>
    /\ schedules[n][1] \in valid
    /\ \A m \in DOMAIN schedules \ {n} : schedules[m] # schedules[n]

(* The outputs are of the schedules there are, and of no earlier one.      *)
NoOldOutputs(w) == DOMAIN output[w] = Matches /\ DOMAIN output[Solutions] = Matches

\* Whatever earlier executions have left behind, broken ones and those that were
\* interrupted included: an execution without a signal that generates outputs and
\* answers from files that compile gives the marks for the files as they are now.
FreshMarks ==
  label = "end" /\ options.generate /\ options.answers /\ ~disturbed =>
    \A w \in Submissions :
      Compiles(code[w]) /\ Compiles(code[Solutions]) /\ NoOldOutputs(w) =>
        score[w] =
          [tests |-> Cardinality(Matches),
           failed |-> Cardinality({n \in Matches :
             Result(code[w], Accepts(n)) # Result(code[Solutions], Accepts(n))})]

\* In the competition a submission without an average gets nothing for the
\* schedule, the best one gets everything, and none gets more than a better one,
\* whatever the outputs on the disk have come from.
CompetitionFair ==
  label = "end" =>
    \A n \in Matches, w \in Submissions :
      LET f == Column(Results, n)
          share(v) == Share(f, Worst(Results), v)
      IN /\ Average(w, n) = NULL => share(w) = 0
         /\ Average(w, n) # NULL /\ (\A v \in Submissions : f[w] <= f[v])
              => share(w) = MaxRank(f)
         /\ \A v \in Submissions : f[w] <= f[v] => share(v) <= share(w)

(* Where the directory is there and the script is not in it.               *)
OutsideDir == label \in {"collect_made", "made", "collect_rm", "rm"}

\* No execution makes a second temporary directory while it has one, and it leaves
\* none behind when it has not been signalled or comes to its end.  A directory
\* stays in three cases: the script is killed, by a signal after the first one or
\* while it cleans up at its exit; a signal before the directory was made has reset
\* the trap, and the solution does not compile; or the signal came between mktemp
\* and pushd, or between popd and rm, where the handler's own popd fails.
SimulatorRemoved ==
  [][/\ sim_dir' = "unbuilt" /\ sim_dir' # sim_dir => sim_dir = "removed"
     /\ label # "idle" /\ label' = "idle" /\ sim_dir' # "removed" =>
          /\ label # "end"
          /\ \/ signals' > signals /\ (disturbed \/ label = "exit")
             \/ disturbed /\ label = "collect_setup"
             \/ disturbed /\ handler = "popd" /\ OutsideDir]_scriptVars
=============================================================================
