-------------------------------- MODULE Loader --------------------------------
(***************************************************************************)
(* How main of src/assignments/assignment4/simulator/simulator.c reads the *)
(* schedule file: a number of processes, then one line per process.        *)
(*                                                                         *)
(* A line is the three fields of "pid,arrival_time,processing_time" and    *)
(* whether it ends in a newline.  A field is the number it spells, Empty   *)
(* when it has no digits (strtoul then returns 0 without an error), or Bad *)
(* when strtoui or the separator after it is refused: a number above       *)
(* INT_MAX, a negative number, a letter.                                   *)
(***************************************************************************)
EXTENDS Limits, Integers, Sequences, SequencesExt

CONSTANTS
  MAX_PID,   \* simulator.c:51 (999999 there)
  STACK,     \* how many process_stats the array of main can hold on the stack
  Lines,     \* the lines a file may have
  Headers,   \* what fscanf may find: a number, Bad or EndOfFile
  MaxLines   \* bound: the lines after the header of the files considered

Empty == -1
Bad == -2
EndOfFile == -3

Field == Nat \cup {Empty, Bad}

ASSUME LoaderAssumption ==
  /\ MAX_PID \in Nat \ {0}
  /\ TIMEOUT \in Nat \ {0}
  /\ STACK \in Nat
  /\ MaxLines \in Nat
  /\ Lines \subseteq [pid : Field, arrival_time : Field, processing_time : Field,
                      newline : BOOLEAN]
  /\ Headers \subseteq Nat \cup {Bad, EndOfFile}

VARIABLES
  header,         \* the first line of the file
  file,           \* the lines after it
  num_processes,  \* the variable of main
  processes,      \* processes[0 .. i-1].initial of main
  loading,        \* "count", "lines" or "done"
  outcome         \* what main did: see Outcomes

loaderVars == <<header, file, num_processes, processes, loading, outcome>>

Outcomes ==
  {"reading", "run", "crashed", "bad_count", "bad_line", "bad_pid",
   "bad_arrival", "bad_processing", "repeated_pid"}

(* What strtoui makes of a field that is not Bad.                          *)
Number(field) == IF field = Empty THEN 0 ELSE field

(* read_process_initial, for the text in its buffer: PID 0 tells main that *)
(* the line is not in the format.                                          *)
parse(line) ==
  LET fields == {line.pid, line.arrival_time, line.processing_time}
  IN  [pid |-> IF Bad \in fields \/ ~line.newline THEN 0 ELSE Number(line.pid),
       arrival_time |-> Number(line.arrival_time),
       processing_time |-> Number(line.processing_time)]

(* The lines that fgets finds: fscanf leaves a header it cannot read.      *)
Refused == [pid |-> Bad, arrival_time |-> Bad, processing_time |-> Bad,
            newline |-> TRUE]

Text == IF header = Bad THEN <<Refused>> \o file ELSE file

(* What the buffer may hold when the i-th line has been asked for.  At the *)
(* end of the file fgets fails, line 98 sets a pid that line 108           *)
(* overwrites, and what is parsed is what was in the buffer, an            *)
(* uninitialised array: the previous line, whose call used the same stack  *)
(* frame, or anything at the first call.                                   *)
Buffer(i) ==
  IF i <= Len(Text) THEN {Text[i]}
  ELSE IF Text # <<>> THEN {Text[Len(Text)]}
  ELSE Lines

(* Mutants of Verdict: PIDs may be repeated; the last arrival time that is *)
(* legal is refused.                                                       *)
VerdictRepeats(initial) ==
  IF initial.pid = 0 THEN "bad_line"
  ELSE IF initial.pid >= MAX_PID THEN "bad_pid"
  ELSE IF initial.arrival_time >= TIMEOUT THEN "bad_arrival"
  ELSE IF initial.processing_time <= 0 \/ initial.processing_time >= TIMEOUT
       THEN "bad_processing"
  ELSE "reading"

VerdictEarly(initial) ==
  IF initial.pid = 0 THEN "bad_line"
  ELSE IF initial.pid >= MAX_PID THEN "bad_pid"
  ELSE IF initial.arrival_time >= TIMEOUT - 1 THEN "bad_arrival"
  ELSE IF initial.processing_time <= 0 \/ initial.processing_time >= TIMEOUT
       THEN "bad_processing"
  ELSE IF \E j \in DOMAIN processes : processes[j].pid = initial.pid
       THEN "repeated_pid"
  ELSE "reading"

(* The tests of lines 355-381, in their order.                             *)
Verdict(initial) ==
  IF initial.pid = 0 THEN "bad_line"
  ELSE IF initial.pid >= MAX_PID THEN "bad_pid"
  ELSE IF initial.arrival_time >= TIMEOUT THEN "bad_arrival"
  ELSE IF initial.processing_time <= 0 \/ initial.processing_time >= TIMEOUT
       THEN "bad_processing"
  ELSE IF \E j \in DOMAIN processes : processes[j].pid = initial.pid
       THEN "repeated_pid"
  ELSE "reading"

LoaderTypeOK ==
  /\ header \in Headers
  /\ file \in Seq(Lines)
  /\ num_processes \in Nat
  /\ Len(processes) <= num_processes
  /\ loading \in {"count", "lines", "done"}
  /\ outcome \in Outcomes
  /\ loading = "done" <=> outcome # "reading"

LoaderInit ==
  /\ header \in Headers
  /\ file \in BoundedSeq(Lines, MaxLines)
  /\ num_processes = 0
  /\ processes = <<>>
  /\ loading = "count"
  /\ outcome = "reading"

(* Lines 337-349.  fscanf returns EOF for an empty file only; when it      *)
(* finds no number it returns 0, which is not tested, and num_processes    *)
(* keeps what the uninitialised variable held.                             *)
Count ==
  CASE header = EndOfFile -> {}
    [] header = Bad -> 0 .. MaxLines + 1
    [] OTHER -> {header}

CountInRange(n) == n >= 1 /\ n < TIMEOUT

ReadCount ==
  /\ loading = "count"
  /\ \E n \in Count :
       /\ CountInRange(n) /\ n <= STACK
       /\ num_processes' = n
  /\ loading' = "lines"
  /\ UNCHANGED <<header, file, processes, outcome>>

RefuseCount ==
  /\ loading = "count"
  /\ header = EndOfFile \/ \E n \in Count : ~CountInRange(n)
  /\ loading' = "done"
  /\ outcome' = "bad_count"
  /\ UNCHANGED <<header, file, num_processes, processes>>

(* Line 352: the array of num_processes records does not fit on the stack. *)
StackOverflow ==
  /\ loading = "count"
  /\ \E n \in Count : CountInRange(n) /\ n > STACK
  /\ loading' = "done"
  /\ outcome' = "crashed"
  /\ UNCHANGED <<header, file, num_processes, processes>>

(* One iteration of the loop of lines 353-385: the line is accepted, or    *)
(* main prints why not and returns.                                        *)
AcceptLine ==
  /\ loading = "lines"
  /\ Len(processes) < num_processes
  /\ \E line \in Buffer(Len(processes) + 1) :
       /\ Verdict(parse(line)) = "reading"
       /\ processes' = Append(processes, parse(line))
  /\ UNCHANGED <<header, file, num_processes, loading, outcome>>

RefuseLine ==
  /\ loading = "lines"
  /\ Len(processes) < num_processes
  /\ \E line \in Buffer(Len(processes) + 1) :
       /\ Verdict(parse(line)) # "reading"
       /\ outcome' = Verdict(parse(line))
  /\ loading' = "done"
  /\ UNCHANGED <<header, file, num_processes, processes>>

(* The call of run_simulation, line 391.                                   *)
RunSimulation ==
  /\ loading = "lines"
  /\ Len(processes) = num_processes
  /\ loading' = "done"
  /\ outcome' = "run"
  /\ UNCHANGED <<header, file, num_processes, processes>>

LoaderNext ==
  \/ ReadCount \/ RefuseCount \/ StackOverflow
  \/ AcceptLine \/ RefuseLine
  \/ RunSimulation

LoaderSpec == LoaderInit /\ [][LoaderNext]_loaderVars

(***************************************************************************)
(* Properties                                                              *)
(***************************************************************************)
(* Whatever the file holds, and whatever is parsed past its end, a         *)
(* workload that is simulated is one the Simulator module starts from: the *)
(* PIDs are positive and distinct, and the times below TIMEOUT.            *)
WorkloadValid ==
  outcome = "run" =>
    /\ Len(processes) = num_processes
    /\ \A i \in DOMAIN processes :
         /\ processes[i].pid \in 1 .. MAX_PID
         /\ processes[i].arrival_time \in 0 .. TIMEOUT - 1
         /\ processes[i].processing_time \in 1 .. TIMEOUT - 1
         /\ \A j \in DOMAIN processes : i # j => processes[i].pid # processes[j].pid

(* A file that has lines, but fewer than it announces, is refused, and one *)
(* whose first line is no number is: what is simulated is what the lines   *)
(* say.  Nothing tests for the end of the file, or for the number: the     *)
(* buffer still holds the last line, so that its PID is met again, and the *)
(* header is met again as a line.                                          *)
(* A file with a header and no line is left out: what is parsed there is   *)
(* an uninitialised array, which may hold a line.                          *)
TruncatedFileRefused ==
  outcome = "run" /\ Text # <<>> =>
    /\ header = num_processes
    /\ Len(file) >= num_processes
    /\ \A i \in DOMAIN processes : processes[i] = parse(file[i])

(* The readme, the message of line 362 and the comment of MAX_PID allow    *)
(* the PIDs up to MAX_PID; line 360 refuses this one of them.              *)
LegalPidRefused(pid) == pid = MAX_PID

(* A file is refused at its first line that cannot be accepted, and for    *)
(* what that line says: every process read before is that of its own line, *)
(* and the message is about a fault of the next one.  There is one verdict *)
(* without a fault, on the greatest of the PIDs that are documented.       *)
RefusalIsAboutNextLine ==
  /\ outcome \in {"bad_line", "bad_pid", "bad_arrival", "bad_processing",
                  "repeated_pid"}
  /\ Len(processes) < Len(file)
  => LET next == parse(file[Len(processes) + 1])
     IN  /\ \A i \in DOMAIN processes : processes[i] = parse(file[i])
         /\ \/ header = Bad
            \/ outcome = "bad_line" /\ next.pid = 0
            \/ outcome = "bad_pid" /\ (next.pid > MAX_PID \/ LegalPidRefused(next.pid))
            \/ outcome = "bad_arrival" /\ next.arrival_time >= TIMEOUT
            \/ outcome = "bad_processing" /\ next.processing_time \notin 1 .. TIMEOUT - 1
            \/ /\ outcome = "repeated_pid"
               /\ \E i \in DOMAIN processes : file[i].pid = next.pid
===============================================================================
