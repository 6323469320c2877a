------------------------------ MODULE MCTimer ------------------------------
(* Timer with a few events and a short time.                               *)
EXTENDS Timer
=============================================================================
