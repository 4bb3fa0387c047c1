--------------------------- MODULE MCMonthlySensors ---------------------------
(* MonthlySensors over the turn of a year.                                 *)
EXTENDS MonthlySensors
===============================================================================
