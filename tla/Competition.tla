------------------------------ MODULE Competition ------------------------------
(***************************************************************************)
(* The scores of the competition, assignment4/simulator/                   *)
(* score_competition.py: a schedule ranks the submissions by their average *)
(* turnaround time, and a rank is worth a share of the marks.  Averages    *)
(* are natural numbers here (hundredths).  A share is a number of parts:   *)
(* max_rank of them are the whole.                                         *)
(***************************************************************************)
EXTENDS Integers, FiniteSets, FiniteSetsExt

(* An average that is not there, or is not a number.                       *)
NULL == -1

(* results is the table of that name: the averages, by submission and      *)
(* schedule.  Both operators are over the whole table.                     *)
MaxVal(results) ==
  Max({0} \cup UNION {{results[w][s] : s \in DOMAIN results[w]} :
                        w \in DOMAIN results})

Worst(results) == MaxVal(results) + 1

(* The averages of one schedule, with the worst one for those that have    *)
(* none.                                                                   *)
Column(results, s) ==
  [w \in DOMAIN results |->
     IF results[w][s] = NULL THEN Worst(results) ELSE results[w][s]]

(* Mutant: submissions with the same average have the rank of the last.    *)
RankOfLast(f, w) == Cardinality({v \in DOMAIN f : f[v] <= f[w]})

(* RANK() OVER (... ORDER BY average), of the averages f of a schedule.    *)
Rank(f, w) == Cardinality({v \in DOMAIN f : f[v] < f[w]}) + 1

MaxRank(f) == Max({Rank(f, w) : w \in DOMAIN f})

(* 1 - (rank - 1) / max_rank, and nothing for the worst average.           *)
Share(f, worst, w) ==
  IF f[w] = worst THEN 0 ELSE MaxRank(f) - (Rank(f, w) - 1)
=============================================================================
