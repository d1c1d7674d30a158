-------------------------- MODULE MCActionExecutor --------------------------
(* ActionExecutor on small instances: two high-priority and three normal   *)
(* submissions, the model values of the configuration files.               *)
EXTENDS ActionExecutor, TLC

CONSTANTS h1, h2, n1, n2, n3
=============================================================================
