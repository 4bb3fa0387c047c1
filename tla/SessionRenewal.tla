---------------------------- MODULE SessionRenewal ----------------------------
(***************************************************************************)
(* What KepcoOnAuth promises the callers of async_protected_request, with  *)
(* no lock, token, cookie or server in sight: the account has an epoch;    *)
(* a call asks under the epoch it saw; when that is refused the call       *)
(* either renews the epoch, which only a call that saw the present epoch   *)
(* may do, or joins a renewal made since; then it replays, once.           *)
(***************************************************************************)
EXTENDS Naturals

CONSTANT Requests

VARIABLES epoch, phase, seen

rvars == <<epoch, phase, seen>>

Move(r, from, to) == /\ phase[r] = from
                     /\ phase' = [phase EXCEPT ![r] = to]

Init == /\ epoch = 0
        /\ phase = [r \in Requests |-> "idle"]
        /\ seen = [r \in Requests |-> 0]

Ask(r) == /\ Move(r, "idle", "asked")
          /\ seen' = [seen EXCEPT ![r] = epoch]
          /\ UNCHANGED epoch

Renew(r) == /\ seen[r] = epoch
            /\ Move(r, "asked", "replayed")
            /\ epoch' = epoch + 1
            /\ UNCHANGED seen

Join(r) == /\ seen[r] < epoch
           /\ Move(r, "asked", "replayed")
           /\ UNCHANGED <<epoch, seen>>

Settle(r) == /\ Move(r, "asked", "settled") \/ Move(r, "replayed", "settled")
             /\ UNCHANGED <<epoch, seen>>

Return(r) == /\ Move(r, "settled", "idle")
             /\ seen' = [seen EXCEPT ![r] = 0]
             /\ UNCHANGED epoch

Next == \E r \in Requests : Ask(r) \/ Renew(r) \/ Join(r) \/ Settle(r) \/ Return(r)

Spec == Init /\ [][Next]_rvars

==============================================================================
