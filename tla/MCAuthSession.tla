---------------------------- MODULE MCAuthSession ----------------------------
(* AuthSession on small instances: model values for the calls.             *)
EXTENDS AuthSession
=============================================================================
