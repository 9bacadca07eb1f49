------------------------------ MODULE MCStartup ------------------------------
(***************************************************************************)
(* Every number of threads that can come out of the clamping, reached from *)
(* the command line and from the machine.                                  *)
(***************************************************************************)
EXTENDS Startup

Machines == {0, 1, 2, 3, 16}
Options  == 0..9 \union {Unset}
=============================================================================
