---------------------------- MODULE MCCustomerFlows ----------------------------
(* CustomerFlows on small instances.                                       *)
EXTENDS CustomerFlows
===============================================================================
