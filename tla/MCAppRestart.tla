----------------------------- MODULE MCAppRestart -----------------------------
(***************************************************************************)
(* AppRestart with two activities, and cameras of two sizes for which the    *)
(* user sets the right resolution.                                          *)
(***************************************************************************)
EXTENDS AppRestart

CONSTANTS small, large
Right == { [size |-> s, frames |-> s] : s \in { small, large } }
OneSize == { [size |-> small, frames |-> small] }
=============================================================================
