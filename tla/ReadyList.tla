------------------------------ MODULE ReadyList ------------------------------
(***************************************************************************)
(* The singly linked list of ready processes that every scheduler of       *)
(* src/assignments/assignment4 carries: a sentinel node, whose             *)
(* next_process chain is here a sequence of PIDs, so that the node `end'   *)
(* of the loops is an index from 0 (the sentinel) to Len(list).  The       *)
(* operators follow algorithms/fcfs.c, the file the others were made from. *)
(***************************************************************************)
EXTENDS Integers, Sequences, SequencesExt

(* add_next(node, next), for the node at index end.                        *)
add_next(list, end, p) == InsertAt(list, end + 1, p)

(* remove_next(node), for the node at index end.                           *)
remove_next(list, end) == RemoveAt(list, end + 1)

(* Where `while (end->next_process && ...) end = end->next_process;' stops *)
(* when it starts at index start and its test holds of the PIDs in passed. *)
SkipWhile(list, start, passed) ==
  Min({end \in start .. Len(list) : end = Len(list) \/ list[end + 1] \notin passed})

(* Mutant of InsertionPoint: the second loop is missing.                   *)
InsertionPointByTime(list, p, arrival) ==
  SkipWhile(list, 0, {q \in ToSet(list) : arrival[q] < arrival[p]})

(* The node after which add_to_ready_queue inserts p: past the processes   *)
(* with an earlier arrival time, then past those with the same arrival     *)
(* time and an earlier PID.                                                *)
InsertionPoint(list, p, arrival) ==
  LET earlier == {q \in ToSet(list) : arrival[q] < arrival[p]}
      lower == {q \in ToSet(list) : arrival[q] = arrival[p] /\ q < p}
  IN  SkipWhile(list, SkipWhile(list, 0, earlier), lower)

SortedInsert(list, p, arrival) ==
  add_next(list, InsertionPoint(list, p, arrival), p)

(* `while (end->next_process) end = end->next_process;' then add_next.     *)
AddLast(list, p) == add_next(list, Len(list), p)

(* list is in increasing order of arrival time, then PID.                  *)
SortedByArrival(list, arrival) ==
  \A i, j \in 1 .. Len(list) :
    i < j => \/ arrival[list[i]] < arrival[list[j]]
             \/ arrival[list[i]] = arrival[list[j]] /\ list[i] < list[j]
===============================================================================
