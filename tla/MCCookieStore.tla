---------------------------- MODULE MCCookieStore ----------------------------
(* CookieStore on small instances: JSESSIONID may be kept, WMONID may not. *)
EXTENDS CookieStore
==============================================================================
