----------------------------- MODULE MCStartup -----------------------------
(* The five files of migrations/: 002 and 004 alter a table that 001 creates. *)
EXTENDS Startup, TLC

CONSTANTS old, new

Files == [m \in 1..5 |-> IF m \in {2, 4} THEN {1} ELSE {}]
=============================================================================
