----------------------------- MODULE MCBillService -----------------------------
(* BillService over the turn of a year.                                    *)
EXTENDS BillService

(* The months on either side of the window's ends, and numbers that are    *)
(* none.                                                                   *)
MCSomeAsked == {202312, 202401, 202402, 202500, 202513, 202512, 202601, 202602}
===============================================================================
