----------------------------- MODULE MCOshRoutes -----------------------------
(* The route table for TLC: memory for four entries or routes, two entry      *)
(* numbers and two methods.                                                   *)
EXTENDS OshRoutes
=============================================================================
