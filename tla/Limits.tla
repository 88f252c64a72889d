-------------------------------- MODULE Limits --------------------------------
(***************************************************************************)
(* The limit that both parts of simulator.c work with: main, which refuses *)
(* times beyond it (Loader), and the loop of run_simulation (Simulator).   *)
(***************************************************************************)

CONSTANT TIMEOUT   \* simulator.c:48, the time units simulated (1000000 there)
===============================================================================
