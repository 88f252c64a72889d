------------------------------- MODULE MCLoader -------------------------------
(***************************************************************************)
(* Loader with lines that are right, and lines wrong in one way each.      *)
(***************************************************************************)
EXTENDS Loader

Line(p, a, t) == [pid |-> p, arrival_time |-> a, processing_time |-> t,
                  newline |-> TRUE]

MCLines ==
  {Line(1, 1, 1), Line(2, 0, TIMEOUT - 1), Line(MAX_PID - 1, TIMEOUT - 1, 1)}
  \cup {Line(0, 1, 1), Line(Empty, 1, 1), Line(Bad, 1, 1), Line(MAX_PID, 1, 1)}
  \cup {Line(3, Empty, 1), Line(3, Bad, 1), Line(3, TIMEOUT, 1)}
  \cup {Line(3, 1, 0), Line(3, 1, Empty), Line(3, 1, Bad), Line(3, 1, TIMEOUT)}
  \cup {[Line(3, 1, 1) EXCEPT !.newline = FALSE]}

MCHeaders == {EndOfFile, Bad, 0, 1, 2, 3, 4, TIMEOUT}
===============================================================================
