---------------------------- MODULE MCShowSaver ----------------------------
(* The instance of ShowSaver that TLC checks, with the mutants of its code. *)
EXTENDS ShowSaver
=============================================================================
