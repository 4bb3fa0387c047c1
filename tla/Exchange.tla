------------------------------- MODULE Exchange -------------------------------
(***************************************************************************)
(* What KepcoOnTransport promises auth.py, with no attempt, time-out,      *)
(* status or connection in sight: an exchange that was asked for ends,     *)
(* with one outcome, and a token it brings was issued while it was open.   *)
(* KEPCO ON may issue tokens at any time: to the exchange, to an attempt   *)
(* it gave up, or to somebody else.                                        *)
(***************************************************************************)
EXTENDS Naturals

VARIABLES phase, outcome, issued, base, got

evars == <<phase, outcome, issued, base, got>>

Outcomes == {"ok", "refused", "failed"}

Init == /\ phase = "idle" /\ outcome = "none"
        /\ issued = 1 /\ base = 0 /\ got = 0

Ask == /\ phase = "idle" /\ phase' = "open"
       /\ base' = issued
       /\ UNCHANGED <<outcome, issued, got>>

Issue == /\ issued' = issued + 1
         /\ UNCHANGED <<phase, outcome, base, got>>

Settle == /\ phase = "open" /\ phase' = "settled"
          /\ outcome' \in Outcomes
          /\ \/ got' = 0
             \/ outcome' = "ok" /\ got' \in (base + 1)..issued
          /\ UNCHANGED <<issued, base>>

Return == /\ phase = "settled" /\ phase' = "idle"
          /\ outcome' = "none" /\ got' = 0 /\ base' = 0
          /\ UNCHANGED issued

Next == Ask \/ Issue \/ Settle \/ Return

Spec == Init /\ [][Next]_evars /\ WF_evars(Settle)
==============================================================================
