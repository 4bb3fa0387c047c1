-------------------------- MODULE SetupEntry_proofs --------------------------
(* Theorems about SetupEntry, with and without a password, whatever crash  *)
(* or late answer comes between, and for every bound.                      *)
EXTENDS SetupEntry, TLAPS

(* What a setup under way has and has not yet.                             *)
Control ==
  /\ pc \in Steps \union {"idle"}
  /\ outcome \in Outcomes
  /\ resume \in Asking
  /\ runtime \in BOOLEAN
  /\ issues \subseteq SetupIssues
  /\ pc # "idle" => ~Running /\ http = "open"
  /\ pc # "idle" /\ ~MayCancel => (runtime <=> pc = "forward")
  /\ rejected => pc = "idle"

(* How often a setup may have logged in by the time it is at a point.      *)
Budget ==
  IF pc \in {"handoff", "scrub", "restore", "validate"} THEN 0
  ELSE IF pc = "account" THEN 1
  ELSE IF pc = "accountReplay" THEN 2
  ELSE IF pc = "recheck" THEN 3
  ELSE IF pc # "login" THEN 4
  ELSE IF resume = "account" THEN 0
  ELSE IF resume = "accountReplay" THEN 1
  ELSE IF resume = "recheck" THEN 2
  ELSE 3

LoginsWithin ==
  /\ logins \in Nat
  /\ HasPassword => logins <= Budget
  /\ ~HasPassword => logins = 0 /\ pc # "login"
  /\ HasPassword => pc # "revalidate"

(* How many of them may have been refused by then: one, and only if it was *)
(* in the recovery of the first account request, unless the setup ends.    *)
RefusedWithin ==
  /\ refusals \in Nat /\ refusals <= 2
  /\ ~HasPassword => refusals = 0
  /\ pc # "idle" => refusals <= 1
  /\ pc \in {"handoff", "scrub", "restore", "validate", "account", "accountReplay"}
       => refusals = 0
  /\ pc = "login" /\ resume \in {"account", "accountReplay"} => refusals = 0

(* From the first request on, the session of the setup is the stored one,  *)
(* and one KEPCO ON opened.                                                *)
Real(x) == x.login > 0

InStep ==
  /\ pc \in Steps \ {"handoff", "scrub", "restore", "login"}
       => store = session /\ Real(session)
  /\ Running => store = session /\ Real(session)
  /\ store \in {None, Corrupt} \/ Real(store)
  /\ handoff \in {None, Malformed} \/ Real(handoff)
  /\ diskHandoff \in {None, Malformed} \/ Real(diskHandoff)
  /\ late = None

Inv == /\ Control /\ LoginsWithin /\ RefusedWithin /\ IssuesCleared
       /\ ~MayCancel => CleanedUp

(* What the constants are.                                                 *)
LEMMA SetupSets ==
  /\ HasPassword \in BOOLEAN /\ MayOutlive \in BOOLEAN /\ MayCancel \in BOOLEAN
  /\ MaxLogins \in Nat \ {0} /\ MaxRotations \in Nat
BY SetupAssumption

------------------------------------------------------------------------------
(* The types, but for the Booleans: Control has one and what follows the   *)
(* other.                                                                  *)
Types ==
  /\ pc \in Steps \union {"idle"} /\ outcome \in Outcomes /\ resume \in Asking
  /\ {handoff, diskHandoff} \subseteq Sessions \union {Malformed}
  /\ store \in Sessions \union {Corrupt}
  /\ session \in Sessions /\ late \in Sessions
  /\ http \in {"none", "open", "detached"}
  /\ issues \subseteq SetupIssues
  /\ kept \in 0..MaxLogins
  /\ logins \in Nat /\ refusals \in Nat /\ opened \in 1..MaxLogins

(* Sessions, new, rotated and without cookies, are sessions.               *)
LEMMA SessionTypes ==
  /\ None \in Sessions
  /\ \A l \in 0..MaxLogins, r \in 0..MaxRotations : Session(l, r) \in Sessions
  /\ \A s \in Sessions, r \in 0..MaxRotations : [s EXCEPT !.rot = r] \in Sessions
  /\ \A s \in Sessions : [s EXCEPT !.form = "legacy"] \in Sessions
BY SetupSets DEF None, Session, Sessions

(* A rotation keeps the login and goes on from the token there was.        *)
LEMMA RotationStep ==
  ASSUME Types, NEW r \in 0..MaxRotations, r >= session.rot,
         session' = [session EXCEPT !.rot = r]
  PROVE  /\ session' \in Sessions
         /\ session'.login = session.login /\ session'.rot >= session.rot
BY SessionTypes DEF Types, Sessions

(* A validation keeps the login and stores the session it goes on with.    *)
LEMMA ValidatedStep ==
  ASSUME Types, NEW next, Validated(next)
  PROVE  /\ session' \in Sessions /\ store' = session'
         /\ session'.login = session.login /\ session'.rot >= session.rot
<1>1. PICK r \in Rotations : session' = [session EXCEPT !.rot = r]
  BY DEF Validated
<1>2. r \in 0..MaxRotations /\ r >= session.rot
  BY SetupSets DEF Types, Sessions, Rotations
<1>3. QED
  BY <1>1, <1>2, RotationStep DEF Validated

(* A renewal without a password rotates the token.                         *)
LEMMA RenewedStep ==
  ASSUME Types, session.rot < MaxRotations, session' = [session EXCEPT !.rot = @ + 1]
  PROVE  /\ session' \in Sessions
         /\ session'.login = session.login /\ session'.rot >= session.rot
<1>1. /\ session.rot + 1 \in 0..MaxRotations /\ session.rot + 1 >= session.rot
      /\ session' = [session EXCEPT !.rot = session.rot + 1]
  BY SetupSets DEF Types, Sessions
<1>2. QED
  BY <1>1, RotationStep

(* An early exit and a step to a point say where the setup is next.        *)
LEMMA NextPoint ==
  /\ \A how, new : Fail(how, new) => pc' = "idle"
  /\ \A l : Goto(l) => pc' = l
  /\ \A l : CleanLogin(l) => pc' = "login" /\ resume' = l /\ store' = None /\ session' = None
BY DEF Fail, Goto, CleanLogin

(* The initial states are well typed.                                      *)
LEMMA InitTypes == Init => Types
<1>0. 1 \in 0..MaxLogins /\ 0 \in 0..MaxRotations
  BY SetupSets
<1>1. Session(1, 0) \in Sessions /\ None \in Sessions
  BY <1>0, SessionTypes
<1>2. [Session(1, 0) EXCEPT !.form = "legacy"] \in Sessions
  BY <1>1, SessionTypes
<1>3. QED
  BY <1>1, <1>2, SetupSets DEF Init, Types, Steps, Outcomes, Asking

(* Every step of a setup preserves the types.                              *)
LEMMA SetupTypes == Types /\ Setup /\ UNCHANGED late => Types'
<1> SUFFICES ASSUME Types, Setup, UNCHANGED late PROVE Types'
  OBVIOUS
<1> USE SetupSets, SessionTypes DEF Types, Steps, Outcomes, Asking, SetupIssues, Goto,
        Fail, EndSetup, auth, counts, data
<1>1. CASE NoHandoff
  BY <1>1 DEF NoHandoff
<1>2. CASE HandoffFails
  BY <1>2 DEF HandoffFails
<1>3. CASE SaveHandoff
  <2>1. handoff \in Sessions
    BY <1>3 DEF SaveHandoff, Handed
  <2>2. handoff.login \in 0..MaxLogins
    BY <2>1 DEF Sessions
  <2>3. kept' \in 0..MaxLogins
    BY <1>3, <2>2 DEF SaveHandoff, Newer
  <2>4. QED
    BY <1>3, <2>1, <2>3 DEF SaveHandoff
<1>4. CASE ScrubHandoff
  BY <1>4 DEF ScrubHandoff
<1>5. CASE RestoreValid
  BY <1>5 DEF RestoreValid, Restored
<1>6. CASE RestoreUnusable
  BY <1>6 DEF RestoreUnusable, Restored, CleanLogin
<1>7. CASE RestoreNothing
  BY <1>7 DEF RestoreNothing, LoginOrReauth
<1>8. CASE ValidateOk
  BY <1>8, ValidatedStep DEF ValidateOk, Validated
<1>9. CASE ValidateInvalid
  BY <1>9 DEF ValidateInvalid, LoginOrReauth
<1>10. CASE ValidateMalformed
  BY <1>10 DEF ValidateMalformed, CleanLogin
<1>11. CASE LoginOk
  BY <1>11 DEF LoginOk
<1>12. CASE LoginRejected
  BY <1>12 DEF LoginRejected
<1>13. CASE LoginRefused
  <2>1. CASE CleanLogin("recheck")
    BY <1>13, <2>1 DEF LoginRefused, CleanLogin
  <2>2. CASE \E how \in Outcomes : \E new \in SUBSET SetupIssues :
               Fail(how, new) /\ UNCHANGED <<store, session, resume>>
    BY <1>13, <2>2 DEF LoginRefused
  <2>3. QED
    <3>1. ASSUME Fail("error", {"login_schema_changed"}), UNCHANGED <<store, session, resume>>
          PROVE  Types'
      BY <1>13, <3>1, <2>2
    <3>2. ASSUME Fail("reauth", {}), UNCHANGED <<store, session, resume>>
          PROVE  Types'
      BY <1>13, <3>2, <2>2
    <3>3. QED
      BY <1>13, <2>1, <3>1, <3>2 DEF LoginRefused
<1>14. CASE LoginMalformed
  BY <1>14 DEF LoginMalformed
<1>15. CASE StoreRaises
  BY <1>15 DEF StoreRaises, Awaiting
<1>16. CASE Unreachable
  BY <1>16 DEF Unreachable, Awaiting
<1>17. CASE AccountSupported
  BY <1>17 DEF AccountSupported
<1>18. CASE AccountExpired
  BY <1>18 DEF AccountExpired, Replay
<1>19. CASE RevalidateOk
  BY <1>19, ValidatedStep DEF RevalidateOk, Validated
<1>20. CASE RevalidateFails
  BY <1>20 DEF RevalidateFails
<1>21. CASE AccountIncomplete
  BY <1>21 DEF AccountIncomplete, Incomplete, FirstRequest, CleanLogin
<1>22. CASE AccountFails
  BY <1>22 DEF AccountFails
<1>23. CASE SelectCustomers
  BY <1>23 DEF SelectCustomers
<1>24. CASE RefreshFails
  BY <1>24 DEF RefreshFails
<1>25. CASE RefreshOk
  BY <1>25 DEF RefreshOk
<1>26. CASE ForwardFails
  BY <1>26 DEF ForwardFails
<1>27. CASE ForwardOk
  BY <1>27 DEF ForwardOk
<1>28. QED
  BY <1>1, <1>2, <1>3, <1>4, <1>5, <1>6, <1>7, <1>8, <1>9, <1>10, <1>11, <1>12, <1>13,
     <1>14, <1>15, <1>16, <1>17, <1>18, <1>19, <1>20, <1>21, <1>22, <1>23, <1>24, <1>25, <1>26,
     <1>27
     DEF Setup

(* And so does every other step.                                           *)
LEMMA OtherTypes ==
  ASSUME Types,
         \/ /\ \/ StartSetup \/ Cancelled \/ RefreshRenews \/ RuntimeRenews
               \/ RuntimeLosesCookies \/ UnloadFails \/ AskReauth \/ ReauthFlow \/ Flush
            /\ UNCHANGED late
         \/ Unload \/ LateAnswer \/ Crash \/ UNCHANGED vars
  PROVE  Types'
<1> USE SetupSets, SessionTypes DEF Types, Steps, Outcomes, Asking, SetupIssues, Goto,
        EndSetup, auth, counts, data
<1>1. CASE StartSetup /\ UNCHANGED late
  BY <1>1 DEF StartSetup
<1>2. CASE RefreshRenews /\ UNCHANGED late
  BY <1>2, RenewedStep DEF RefreshRenews
<1>3. CASE RuntimeRenews /\ UNCHANGED late
  <2>1. CASE HasPassword
    BY <1>3, <2>1 DEF RuntimeRenews
  <2>2. CASE ~HasPassword
    <3>1. session' \in Sessions
      BY <1>3, <2>2, RenewedStep DEF RuntimeRenews
    <3>2. QED
      BY <1>3, <2>2, <3>1 DEF RuntimeRenews
  <2>3. QED
    BY <2>1, <2>2
<1>4. CASE RuntimeLosesCookies /\ UNCHANGED late
  BY <1>4 DEF RuntimeLosesCookies
<1>5. CASE ReauthFlow /\ UNCHANGED late
  BY <1>5 DEF ReauthFlow
<1>6. CASE Flush /\ UNCHANGED late
  BY <1>6 DEF Flush
<1>7. CASE Cancelled /\ UNCHANGED late
  BY <1>7 DEF Cancelled
<1>8. CASE (UnloadFails \/ AskReauth) /\ UNCHANGED late
  BY <1>8 DEF UnloadFails, AskReauth
<1>9. CASE Unload
  BY <1>9 DEF Unload
<1>10. CASE LateAnswer
  BY <1>10 DEF LateAnswer
<1>11. CASE Crash
  BY <1>11 DEF Crash
<1>12. CASE UNCHANGED vars
  BY <1>12 DEF vars
<1>13. QED
  BY <1>1, <1>2, <1>3, <1>4, <1>5, <1>6, <1>7, <1>8, <1>9, <1>10, <1>11, <1>12

------------------------------------------------------------------------------
(* The invariant holds before the first setup.                             *)
LEMMA InitInv == Init => Inv /\ InStep
<1> SUFFICES ASSUME Init PROVE Inv /\ InStep
  OBVIOUS
<1>1. ~runtime /\ runtime \in BOOLEAN /\ ~rejected
  BY Zenon DEF Init
<1>2. QED
  BY <1>1 DEF Init, Inv, Control, LoginsWithin, RefusedWithin, Budget,
         CleanedUp, IssuesCleared, Running, InStep,
         Steps, Outcomes, Asking, SetupIssues, Real, Session, None, Corrupt, Malformed

(* Every early exit of the setup keeps the invariant.                      *)
LEMMA FailInv ==
  ASSUME Inv, pc # "idle",
         NEW how \in Outcomes \ {"loaded", "stuck"}, NEW new \in SUBSET SetupIssues,
         Fail(how, new), resume' \in Asking, logins' \in Nat,
         HasPassword => logins' <= 4, ~HasPassword => logins' = 0,
         refusals' \in Nat, refusals' <= 2, ~HasPassword => refusals' = 0
  PROVE  Inv'
<1>1. runtime' \in BOOLEAN /\ (~MayCancel => ~runtime')
  <2>1. CASE pc = "forward"
    BY <2>1, Zenon DEF Fail, EndSetup
  <2>2. CASE pc # "forward"
    BY <2>2, Zenon DEF Fail, EndSetup, Inv, Control
  <2>3. QED
    BY <2>1, <2>2
<1>2. /\ pc' = "idle" /\ outcome' = how /\ http' = "detached"
      /\ issues' = issues \union new
  BY DEF Fail, EndSetup
<1>3. Control'
  BY <1>1, <1>2 DEF Inv, Control, Outcomes
<1>4. LoginsWithin' /\ RefusedWithin'
  BY <1>2 DEF LoginsWithin, RefusedWithin, Budget
<1>5. (~MayCancel => CleanedUp') /\ IssuesCleared'
  BY <1>1, <1>2, Zenon DEF CleanedUp, IssuesCleared, Running
<1>6. QED
  BY <1>3, <1>4, <1>5 DEF Inv

(* The budget never exceeds four logins.                                   *)
LEMMA FewLogins ==
  ASSUME Inv
  PROVE  /\ logins \in Nat /\ resume \in Asking /\ refusals \in Nat /\ refusals <= 2
         /\ HasPassword => logins <= 4
         /\ ~HasPassword => logins = 0 /\ refusals = 0
         /\ pc = "login" => HasPassword /\ logins + 1 <= 4 /\ refusals + 1 <= 2
BY SetupSets DEF Inv, Control, LoginsWithin, RefusedWithin, Budget, Asking

(* Each step of the setup, and of a loaded entry, keeps the invariant.     *)
LEMMA SetupInv == Inv /\ Setup => Inv'
<1> SUFFICES ASSUME Inv, Setup PROVE Inv'
  OBVIOUS
<1> USE SetupSets DEF Inv, Control, LoginsWithin, RefusedWithin, Budget, CleanedUp,
        IssuesCleared, Running, Steps,
        Outcomes, Asking, SetupIssues, Goto, auth, counts, data
<1>1. CASE NoHandoff
  BY <1>1 DEF NoHandoff
<1>2. CASE HandoffFails
  BY <1>2, FailInv, FewLogins DEF HandoffFails
<1>3. CASE SaveHandoff
  BY <1>3 DEF SaveHandoff, Newer, Handed
<1>4. CASE ScrubHandoff
  BY <1>4 DEF ScrubHandoff
<1>5. CASE RestoreValid
  BY <1>5 DEF RestoreValid, Restored
<1>6. CASE RestoreUnusable
  <2>1. CASE CleanLogin("account") /\ HasPassword
    BY <1>6, <2>1 DEF RestoreUnusable, CleanLogin
  <2>2. CASE ~HasPassword /\ Fail("reauth", {"session_restore_failed"})
    BY <1>6, <2>2, FailInv, FewLogins DEF RestoreUnusable
  <2>3. QED
    BY <1>6, <2>1, <2>2 DEF RestoreUnusable
<1>7. CASE RestoreNothing
  <2>1. CASE HasPassword /\ Goto("login") /\ resume' = "account"
    BY <1>7, <2>1 DEF RestoreNothing
  <2>2. CASE Fail("reauth", {}) /\ UNCHANGED resume
    BY <1>7, <2>2, FailInv, FewLogins DEF RestoreNothing
  <2>3. QED
    BY <1>7, <2>1, <2>2 DEF RestoreNothing, LoginOrReauth
<1>8. CASE ValidateOk
  BY <1>8 DEF ValidateOk, Validated
<1>9. CASE ValidateInvalid
  <2>1. CASE HasPassword /\ Goto("login") /\ resume' = "account"
    BY <1>9, <2>1 DEF ValidateInvalid
  <2>2. CASE Fail("reauth", {}) /\ UNCHANGED resume
    BY <1>9, <2>2, FailInv, FewLogins DEF ValidateInvalid
  <2>3. QED
    BY <1>9, <2>1, <2>2 DEF ValidateInvalid, LoginOrReauth
<1>10. CASE ValidateMalformed
  <2>1. CASE CleanLogin("account") /\ HasPassword
    BY <1>10, <2>1 DEF ValidateMalformed, CleanLogin
  <2>2. CASE ~HasPassword /\ Fail("reauth", {"session_restore_failed"})
    BY <1>10, <2>2, FailInv, FewLogins DEF ValidateMalformed
  <2>3. QED
    BY <1>10, <2>1, <2>2 DEF ValidateMalformed
<1>11. CASE LoginOk
  BY <1>11 DEF LoginOk
<1>12. CASE LoginRejected
  BY <1>12, FailInv, FewLogins DEF LoginRejected
<1>13. CASE LoginRefused
  <2>1. CASE resume = "accountReplay" /\ CleanLogin("recheck")
    BY <1>13, <2>1 DEF LoginRefused, CleanLogin
  <2>2. CASE Fail("error", {"login_schema_changed"}) /\ UNCHANGED <<store, session, resume>>
    BY <1>13, <2>2, FailInv, FewLogins DEF LoginRefused
  <2>3. CASE Fail("reauth", {}) /\ UNCHANGED <<store, session, resume>>
    BY <1>13, <2>3, FailInv, FewLogins DEF LoginRefused
  <2>4. QED
    BY <1>13, <2>1, <2>2, <2>3 DEF LoginRefused
<1>14. CASE LoginMalformed
  BY <1>14, FailInv, FewLogins DEF LoginMalformed
<1>15. CASE StoreRaises
  BY <1>15, FailInv, FewLogins DEF StoreRaises, Awaiting
<1>16. CASE Unreachable
  BY <1>16, FailInv, FewLogins DEF Unreachable, Awaiting
<1>17. CASE AccountSupported
  BY <1>17 DEF AccountSupported
<1>18. CASE AccountExpired
  BY <1>18 DEF AccountExpired, Replay
<1>19. CASE RevalidateOk
  BY <1>19 DEF RevalidateOk, Validated
<1>20. CASE RevalidateFails
  BY <1>20, FailInv, FewLogins DEF RevalidateFails
<1>21. CASE AccountIncomplete
  <2>1. CASE FirstRequest /\ HasPassword /\ CleanLogin("recheck")
    BY <1>21, <2>1 DEF AccountIncomplete, FirstRequest, CleanLogin
  <2>2. CASE Fail("reauth", {"session_restore_failed"}) /\ UNCHANGED <<store, session, resume>>
    BY <1>21, <2>2, FailInv, FewLogins DEF AccountIncomplete, Incomplete
  <2>3. CASE Fail("error", {"login_schema_changed"}) /\ UNCHANGED <<store, session, resume>>
    BY <1>21, <2>3, FailInv, FewLogins DEF AccountIncomplete, Incomplete
  <2>4. QED
    BY <1>21, <2>1, <2>2, <2>3 DEF AccountIncomplete
<1>22. CASE AccountFails
  BY <1>22, FailInv, FewLogins DEF AccountFails
<1>23. CASE SelectCustomers
  <2>1. CASE Goto("refresh")
    BY <1>23, <2>1 DEF SelectCustomers
  <2>2. CASE Fail("error", {})
    BY <1>23, <2>2, FailInv, FewLogins DEF SelectCustomers
  <2>3. QED
    BY <1>23, <2>1, <2>2 DEF SelectCustomers
<1>24. CASE RefreshFails
  BY <1>24, FailInv, FewLogins DEF RefreshFails
<1>25. CASE RefreshOk
  BY <1>25 DEF RefreshOk
<1>26. CASE ForwardFails
  BY <1>26, FailInv, FewLogins DEF ForwardFails
<1>27. CASE ForwardOk
  BY <1>27 DEF ForwardOk
<1>28. QED
  BY <1>1, <1>2, <1>3, <1>4, <1>5, <1>6, <1>7, <1>8, <1>9, <1>10, <1>11, <1>12, <1>13,
     <1>14, <1>15, <1>16, <1>17, <1>18, <1>19, <1>20, <1>21, <1>22, <1>23, <1>24, <1>25, <1>26,
     <1>27
     DEF Setup

(* A setup keeps the store in step with its session.                       *)
LEMMA SetupInStep ==
  ~MayOutlive /\ Types /\ Inv /\ InStep /\ Setup /\ UNCHANGED late => InStep'
<1> SUFFICES ASSUME ~MayOutlive, Types, Inv, InStep, Setup, UNCHANGED late PROVE InStep'
  OBVIOUS
<1> USE SetupSets DEF Types, Sessions, Inv, Control, InStep, Running, Real, Session, None, Corrupt,
        Steps, Outcomes, Asking, Goto, Fail, EndSetup, auth, counts, data
<1>1. CASE NoHandoff
  BY <1>1 DEF NoHandoff
<1>2. CASE HandoffFails
  BY <1>2 DEF HandoffFails
<1>3. CASE SaveHandoff
  BY <1>3 DEF SaveHandoff, Newer, Handed
<1>4. CASE ScrubHandoff
  BY <1>4 DEF ScrubHandoff
<1>5. CASE RestoreValid
  BY <1>5 DEF RestoreValid, Restored
<1>6. CASE RestoreUnusable
  BY <1>6 DEF RestoreUnusable, Restored, CleanLogin
<1>7. CASE RestoreNothing
  BY <1>7 DEF RestoreNothing, LoginOrReauth
<1>8. CASE ValidateOk
  BY <1>8, ValidatedStep DEF ValidateOk, Validated
<1>9. CASE ValidateInvalid
  BY <1>9 DEF ValidateInvalid, LoginOrReauth
<1>10. CASE ValidateMalformed
  BY <1>10 DEF ValidateMalformed, CleanLogin
<1>11. CASE LoginOk
  BY <1>11 DEF LoginOk
<1>12. CASE LoginRejected
  BY <1>12 DEF LoginRejected
<1>13. CASE LoginRefused
  <2>1. store' \in {store, None} /\ session' \in {session, None} /\ resume' \in Asking
    BY <1>13 DEF LoginRefused, CleanLogin
  <2>2. QED
    BY <1>13, <2>1 DEF LoginRefused, CleanLogin
<1>14. CASE LoginMalformed
  BY <1>14 DEF LoginMalformed
<1>15. CASE StoreRaises
  BY <1>15 DEF StoreRaises, Awaiting
<1>16. CASE Unreachable
  BY <1>16 DEF Unreachable, Awaiting
<1>17. CASE AccountSupported
  BY <1>17 DEF AccountSupported
<1>18. CASE AccountExpired
  BY <1>18 DEF AccountExpired, Replay
<1>19. CASE RevalidateOk
  BY <1>19, ValidatedStep DEF RevalidateOk, Validated
<1>20. CASE RevalidateFails
  BY <1>20 DEF RevalidateFails
<1>21. CASE AccountIncomplete
  BY <1>21 DEF AccountIncomplete, Incomplete, FirstRequest, CleanLogin
<1>22. CASE AccountFails
  BY <1>22 DEF AccountFails
<1>23. CASE SelectCustomers
  BY <1>23 DEF SelectCustomers
<1>24. CASE RefreshFails
  BY <1>24 DEF RefreshFails
<1>25. CASE RefreshOk
  BY <1>25 DEF RefreshOk
<1>26. CASE ForwardFails
  BY <1>26 DEF ForwardFails
<1>27. CASE ForwardOk
  BY <1>27 DEF ForwardOk
<1>28. QED
  BY <1>1, <1>2, <1>3, <1>4, <1>5, <1>6, <1>7, <1>8, <1>9, <1>10, <1>11, <1>12, <1>13,
     <1>14, <1>15, <1>16, <1>17, <1>18, <1>19, <1>20, <1>21, <1>22, <1>23, <1>24, <1>25, <1>26,
     <1>27
     DEF Setup

(* What is not the setup preserves the invariant.                          *)
LEMMA OtherInv ==
  ASSUME Inv,
         \/ StartSetup \/ Cancelled \/ RefreshRenews \/ RuntimeRenews \/ RuntimeLosesCookies
         \/ UnloadFails \/ AskReauth \/ ReauthFlow \/ Flush
         \/ Unload \/ LateAnswer \/ Crash \/ UNCHANGED vars
  PROVE  Inv'
<1> USE SetupSets DEF Inv, Control, LoginsWithin, RefusedWithin, Budget, CleanedUp,
        IssuesCleared, Running, Steps,
        Outcomes, Asking, SetupIssues, Goto, EndSetup, auth, counts, data
<1>1. CASE StartSetup
  BY <1>1 DEF StartSetup
<1>2. CASE RefreshRenews
  BY <1>2 DEF RefreshRenews
<1>3. CASE RuntimeRenews
  BY <1>3 DEF RuntimeRenews
<1>4. CASE RuntimeLosesCookies
  BY <1>4 DEF RuntimeLosesCookies
<1>5. CASE ReauthFlow
  BY <1>5 DEF ReauthFlow
<1>6. CASE Flush
  BY <1>6 DEF Flush
<1>7. CASE Cancelled
  BY <1>7 DEF Cancelled
<1>8. CASE UnloadFails \/ AskReauth
  BY <1>8 DEF UnloadFails, AskReauth
<1>9. CASE Unload
  <2>1. ~runtime' /\ runtime' \in BOOLEAN
    BY <1>9, Zenon DEF Unload, EndSetup
  <2>2. QED
    BY <1>9, <2>1 DEF Unload, EndSetup
<1>10. CASE LateAnswer
  BY <1>10 DEF LateAnswer
<1>11. CASE Crash
  <2>1. ~runtime' /\ runtime' \in BOOLEAN /\ ~rejected'
    BY <1>11, Zenon DEF Crash
  <2>2. QED
    BY <1>11, <2>1 DEF Crash
<1>12. CASE UNCHANGED vars
  BY <1>12 DEF vars
<1>13. QED
  BY <1>1, <1>2, <1>3, <1>4, <1>5, <1>6, <1>7, <1>8, <1>9, <1>10, <1>11, <1>12

(* And keeps the store in step, if no request outlives its entry.          *)
LEMMA OtherInStep ==
  ASSUME ~MayOutlive, Types, Inv, InStep,
         \/ /\ \/ StartSetup \/ Cancelled \/ RefreshRenews \/ RuntimeRenews
               \/ RuntimeLosesCookies \/ UnloadFails \/ AskReauth \/ ReauthFlow \/ Flush
            /\ UNCHANGED late
         \/ Unload \/ LateAnswer \/ Crash \/ UNCHANGED vars
  PROVE  InStep'
<1> USE SetupSets DEF Types, Sessions, Inv, Control, InStep, Running, Real, Session, None, Corrupt,
        Steps, Outcomes, Asking, Goto, EndSetup, auth, counts, data
<1>1. CASE StartSetup /\ UNCHANGED late
  BY <1>1 DEF StartSetup
<1>2. CASE RefreshRenews /\ UNCHANGED late
  BY <1>2 DEF RefreshRenews
<1>3. CASE RuntimeRenews /\ UNCHANGED late
  BY <1>3 DEF RuntimeRenews
<1>4. CASE RuntimeLosesCookies /\ UNCHANGED late
  BY <1>4 DEF RuntimeLosesCookies
<1>5. CASE ReauthFlow /\ UNCHANGED late
  BY <1>5 DEF ReauthFlow
<1>6. CASE Flush /\ UNCHANGED late
  BY <1>6 DEF Flush
<1>7. CASE Cancelled /\ UNCHANGED late
  BY <1>7 DEF Cancelled
<1>8. CASE (UnloadFails \/ AskReauth) /\ UNCHANGED late
  BY <1>8 DEF UnloadFails, AskReauth
<1>9. CASE Unload
  BY <1>9 DEF Unload
<1>10. CASE LateAnswer
  BY <1>10 DEF LateAnswer
<1>11. CASE Crash
  BY <1>11 DEF Crash
<1>12. CASE UNCHANGED vars
  BY <1>12 DEF vars
<1>13. QED
  BY <1>1, <1>2, <1>3, <1>4, <1>5, <1>6, <1>7, <1>8, <1>9, <1>10, <1>11, <1>12

(* rejected and asked are Booleans.                                        *)
LEMMA FlagsTyped ==
  rejected \in BOOLEAN /\ asked \in BOOLEAN /\ [Next]_vars
    => rejected' \in BOOLEAN /\ asked' \in BOOLEAN
<1> SUFFICES ASSUME rejected \in BOOLEAN, asked \in BOOLEAN, [Next]_vars
             PROVE  rejected' \in BOOLEAN /\ asked' \in BOOLEAN
  OBVIOUS
<1>1. rejected' = rejected \/ rejected' = TRUE \/ rejected' = FALSE
  BY Zenon DEF Next, Timely, Setup, vars, auth, counts, NoHandoff, HandoffFails,
     SaveHandoff, ScrubHandoff, RestoreValid, RestoreUnusable, RestoreNothing, ValidateOk,
     ValidateInvalid, ValidateMalformed, LoginOk, LoginRejected, LoginRefused,
     LoginMalformed, StoreRaises, Unreachable, Awaiting, AccountSupported, AccountExpired,
     RevalidateOk, RevalidateFails, AccountIncomplete, AccountFails, SelectCustomers,
     RefreshFails, RefreshOk, ForwardFails, ForwardOk, StartSetup, Cancelled, RefreshRenews,
     RuntimeRenews, RuntimeLosesCookies, UnloadFails, AskReauth, ReauthFlow, Flush, Unload,
     LateAnswer, Crash
<1>2. asked' = asked \/ asked' = TRUE \/ asked' = FALSE
  <2>1. \A how, new : Fail(how, new) => asked' = asked \/ asked' = TRUE
    BY Zenon DEF Fail
  <2>2. \A l : Goto(l) => asked' = asked
    BY DEF Goto
  <2>3. \A l : Validated(l) \/ CleanLogin(l) => asked' = asked
    BY <2>2 DEF Validated, CleanLogin
  <2>4. Setup => asked' = asked \/ asked' = TRUE
    BY <2>1, <2>2, <2>3, Zenon DEF Setup, NoHandoff, HandoffFails, SaveHandoff,
       ScrubHandoff, RestoreValid, RestoreUnusable, RestoreNothing, LoginOrReauth,
       ValidateOk, ValidateInvalid, ValidateMalformed, LoginOk, LoginRejected,
       LoginRefused, LoginMalformed, StoreRaises, Unreachable, AccountSupported,
       AccountExpired, RevalidateOk, RevalidateFails, AccountIncomplete, AccountFails,
       SelectCustomers, RefreshFails, RefreshOk, ForwardFails, ForwardOk
  <2>5. QED
    BY <2>2, <2>4, Zenon DEF Next, Timely, vars, StartSetup, Cancelled, RefreshRenews,
       RuntimeRenews, RuntimeLosesCookies, UnloadFails, AskReauth, ReauthFlow, Flush,
       Unload, LateAnswer, Crash
<1>3. QED
  BY <1>1, <1>2, Zenon

(* The invariant is preserved by every step.                               *)
LEMMA NextInv == Inv /\ [Next]_vars => Inv'
BY SetupInv, OtherInv DEF Next, Timely

(* The store stays in step with the session.                               *)
LEMMA NextInStep == ~MayOutlive /\ Types /\ Inv /\ InStep /\ [Next]_vars => InStep'
BY SetupInStep, OtherInStep DEF Next, Timely

(* The types are preserved by every step.                                  *)
LEMMA NextTypes == Types /\ [Next]_vars => Types'
BY SetupTypes, OtherTypes DEF Next, Timely

(* The inductive invariant holds throughout.                               *)
THEOREM InvariantHolds == Spec => []Inv
BY InitInv, NextInv, PTL DEF Spec

(* The variables have their types.                                         *)
THEOREM TypeCorrect == Spec => []TypeOK
<1> DEFINE Flags == rejected \in BOOLEAN /\ asked \in BOOLEAN
           Typed == Types /\ Inv /\ Flags
<1>1. Init => Typed
  <2>1. Init => Flags
    BY Zenon DEF Init
  <2>2. QED
    BY <2>1, InitTypes, InitInv
<1>2. Typed /\ [Next]_vars => Typed'
  BY NextTypes, NextInv, FlagsTyped
<1>3. Typed => TypeOK
  BY DEF Types, Inv, Control, TypeOK
<1> HIDE DEF Typed
<1>4. QED
  BY <1>1, <1>2, <1>3, PTL DEF Spec

(* However a setup that is not cancelled ends, an entry that is not loaded *)
(* has no open session and no runtime data, and a loaded one has both,     *)
(* also when its platforms could not be unloaded.                          *)
THEOREM AlwaysCleanedUp == ASSUME ~MayCancel PROVE Spec => []CleanedUp
<1>1. Inv => CleanedUp
  BY DEF Inv
<1>2. QED
  BY <1>1, InvariantHolds, PTL

(* No setup logs in more than four times before its first refresh, and     *)
(* none without a saved password.                                          *)
THEOREM FourLoginsAtMost == Spec => []LoginsBounded
<1>1. Inv => LoginsBounded
  BY SetupSets DEF Inv, LoginsWithin, LoginsBounded, Budget
<1>2. QED
  BY <1>1, InvariantHolds, PTL

(* A loaded entry has no repair issue of an earlier setup.                 *)
THEOREM LoadedHasNoIssue == Spec => []IssuesCleared
BY InvariantHolds, PTL DEF Inv

(* A rejected password ends the setup, and a second refusal does.          *)
LEMMA RejectionStep ==
  Inv /\ Inv' /\ [Next]_vars
    => [(rejected /\ rejected' => logins' = logins) /\ refusals' <= 2]_vars
<1> SUFFICES ASSUME Inv, Inv', Next, rejected, rejected' PROVE logins' = logins
  BY DEF vars, Inv, RefusedWithin
<1>1. pc = "idle"
  BY DEF Inv, Control
<1>2. ~Setup
  BY <1>1 DEF Setup, NoHandoff, HandoffFails, SaveHandoff, ScrubHandoff, RestoreValid,
     RestoreUnusable, RestoreNothing, ValidateOk, ValidateInvalid, ValidateMalformed,
     LoginOk, LoginRejected, LoginRefused, LoginMalformed, StoreRaises, Unreachable,
     Awaiting, AccountSupported, AccountExpired, RevalidateOk, RevalidateFails,
     AccountIncomplete, Incomplete, AccountFails, Asking, SelectCustomers, RefreshFails,
     RefreshOk, ForwardFails, ForwardOk
<1>3. QED
  BY <1>2 DEF Next, Timely, StartSetup, Cancelled, RefreshRenews, RuntimeRenews,
     RuntimeLosesCookies, UnloadFails, AskReauth, ReauthFlow, Flush, Unload, LateAnswer,
     Crash, auth, counts

(* A setup sends no login after one answered with "NO", and at most two of *)
(* its logins are refused in any way.                                      *)
THEOREM RejectedOnce == Spec => RejectionEndsSetup
BY RejectionStep, InvariantHolds, PTL DEF Spec, RejectionEndsSetup

(* While no request outlives its entry, a loaded entry's session is what   *)
(* its store would restore.                                                *)
THEOREM StoreRestoresSession ==
  ASSUME ~MayOutlive PROVE Spec => []StoreFollowsSession
<1>1. Init => Types /\ Inv /\ InStep
  BY InitTypes, InitInv
<1>2. Types /\ Inv /\ InStep /\ [Next]_vars => (Types /\ Inv /\ InStep)'
  BY NextTypes, NextInv, NextInStep
<1>3. InStep => StoreFollowsSession
  BY DEF InStep, StoreFollowsSession
<1>4. QED
  BY <1>1, <1>2, <1>3, PTL DEF Spec

(* What is handed over, written and received stay in order: a written      *)
(* handoff that differs from the one in memory was received or is older,   *)
(* and a handoff about to be scrubbed has been received.                   *)
InOrder ==
  /\ handoff.login <= opened /\ diskHandoff.login <= opened
  /\ Handed(diskHandoff) /\ handoff # diskHandoff =>
       diskHandoff.login <= kept \/ handoff.login > diskHandoff.login
  /\ pc = "scrub" => handoff.login <= kept

(* A step of a setup that neither saves nor scrubs leaves handoffs alone.  *)
LEMMA SetupLeaves ==
  ASSUME Types, Setup, ~SaveHandoff, ~ScrubHandoff
  PROVE  UNCHANGED data /\ opened' >= opened /\ pc' # "scrub"
<1>0. opened \in Nat
  BY SetupSets DEF Types
<1> USE <1>0, NextPoint DEF auth, LoginOrReauth
<1>1. CASE NoHandoff \/ HandoffFails \/ RestoreValid \/ RestoreUnusable \/ RestoreNothing
  BY <1>1 DEF NoHandoff, HandoffFails, RestoreValid, RestoreUnusable, RestoreNothing
<1>2. CASE ValidateOk \/ ValidateInvalid \/ ValidateMalformed
  BY <1>2 DEF ValidateOk, Validated, ValidateInvalid, ValidateMalformed
<1>3. CASE LoginOk
  BY <1>3 DEF LoginOk, Types, Asking
<1>4. CASE LoginRejected \/ LoginRefused \/ LoginMalformed \/ StoreRaises \/ Unreachable
  BY <1>4 DEF LoginRejected, LoginRefused, LoginMalformed, StoreRaises, Unreachable
<1>5. CASE AccountSupported \/ AccountExpired \/ AccountIncomplete \/ AccountFails
  BY <1>5 DEF AccountSupported, AccountExpired, AccountIncomplete, AccountFails
<1>6. CASE RevalidateOk \/ RevalidateFails
  BY <1>6 DEF RevalidateOk, Validated, RevalidateFails, Types, Asking
<1>7. CASE SelectCustomers \/ RefreshFails \/ RefreshOk \/ ForwardFails \/ ForwardOk
  BY <1>7 DEF SelectCustomers, RefreshFails, RefreshOk, ForwardFails, ForwardOk
<1>8. QED
  BY <1>1, <1>2, <1>3, <1>4, <1>5, <1>6, <1>7 DEF Setup

(* So does every other step but the flow's, the disk's and a crash.        *)
LEMMA OthersLeave ==
  ASSUME Types,
         \/ StartSetup \/ Cancelled \/ RefreshRenews \/ RuntimeRenews
         \/ RuntimeLosesCookies \/ UnloadFails \/ AskReauth \/ Unload \/ LateAnswer
         \/ UNCHANGED vars
  PROVE  UNCHANGED data /\ opened' >= opened /\ (pc' = "scrub" => pc = "scrub")
BY DEF Types, Goto, auth, vars, data, StartSetup, Cancelled, RefreshRenews, RuntimeRenews,
   RuntimeLosesCookies, UnloadFails, AskReauth, Unload, LateAnswer

(* What a step that is allowed to may do to a handed-over session.         *)
Lawful ==
  /\ Handed(diskHandoff) /\ diskHandoff' # diskHandoff
       => diskHandoff.login <= kept \/ diskHandoff'.login > diskHandoff.login
  /\ Handed(handoff) /\ handoff' # handoff
       => \/ handoff.login <= kept
          \/ handoff'.login > handoff.login
          \/ http' = "none" /\ handoff # diskHandoff

(* No flow ends while a handoff is being saved: every step keeps the order *)
(* and loses nothing.                                                      *)
LEMMA HandoffStep ==
  ASSUME ~MayOverlap, Types, Types', InOrder, [Next]_vars
  PROVE  InOrder' /\ Lawful
<1>0. /\ opened \in Nat /\ opened' \in Nat /\ kept \in Nat
      /\ handoff.login \in Nat /\ diskHandoff.login \in Nat
  BY SetupSets DEF Types, Sessions, Malformed
<1> USE <1>0 DEF InOrder, Lawful
<1>1. CASE SaveHandoff
  BY <1>1 DEF SaveHandoff, Newer, Goto
<1>2. CASE ScrubHandoff
  <2>1. /\ handoff' = None /\ pc = "scrub" /\ pc' = "restore"
        /\ UNCHANGED <<diskHandoff, kept, opened>>
    BY <1>2 DEF ScrubHandoff, auth, Goto
  <2>2. None.login = 0
    BY DEF None
  <2>3. QED
    BY <2>1, <2>2
<1>3. ASSUME UNCHANGED data, opened' >= opened, pc' = "scrub" => pc = "scrub"
      PROVE  InOrder' /\ Lawful
  <2>1. UNCHANGED <<handoff, diskHandoff, kept>>
    BY <1>3 DEF data
  <2>2. handoff.login <= opened' /\ diskHandoff.login <= opened'
    BY <1>3
  <2>3. QED
    BY <1>3, <2>1, <2>2 DEF Handed
<1>4. CASE ReauthFlow
  <2>1. /\ handoff' = Session(opened + 1, 0) /\ opened' = opened + 1 /\ pc # "scrub"
        /\ UNCHANGED <<pc, diskHandoff, kept>>
    BY <1>4 DEF ReauthFlow
  <2>2. handoff'.login = opened + 1
    BY <2>1 DEF Session
  <2>3. QED
    BY <2>1, <2>2 DEF Handed
<1>5. CASE Flush
  BY <1>5 DEF Flush, auth
<1>6. CASE Crash
  BY <1>6 DEF Crash
<1>7. CASE Setup /\ ~SaveHandoff /\ ~ScrubHandoff
  BY <1>3, <1>7, SetupLeaves
<1>8. CASE \/ StartSetup \/ Cancelled \/ RefreshRenews \/ RuntimeRenews
           \/ RuntimeLosesCookies \/ UnloadFails \/ AskReauth \/ Unload \/ LateAnswer
           \/ UNCHANGED vars
  BY <1>3, <1>8, OthersLeave
<1>9. QED
  BY <1>1, <1>2, <1>4, <1>5, <1>6, <1>7, <1>8 DEF Next, Timely

(* If no flow ends while a handoff is being saved, a handed-over session   *)
(* is lost only if Home Assistant stops before it wrote it: what is on     *)
(* disk stays there, and what is in memory stays in the entry, until the   *)
(* store has received it or a newer one came; with crashes, cancelled      *)
(* setups and late requests.                                               *)
THEOREM HandoffIsKept == ASSUME ~MayOverlap PROVE Spec => HandoffReachesStore
<1> DEFINE All == Types /\ InOrder
<1>1. Init => All
  <2>1. Init => InOrder
    BY DEF Init, InOrder, Session, None, Malformed
  <2>2. QED
    BY <2>1, InitTypes
<1>2. All /\ [Next]_vars => All' /\ Lawful
  BY NextTypes, HandoffStep
<1> HIDE DEF All
<1>3. All /\ [Next]_vars => [Lawful]_vars
  BY <1>2
<1>4. All /\ [Next]_vars => All'
  BY <1>2
<1>5. QED
  BY <1>1, <1>3, <1>4, PTL DEF Spec, HandoffReachesStore, Lawful

------------------------------------------------------------------------------
(* StoreNeverReverts.  A handed-over session is a login of its own: until  *)
(* it is saved the store holds no other token of it, and then it is        *)
(* scrubbed before anything else happens to it.                            *)
Apart ==
  /\ store.login <= opened /\ session.login <= opened /\ handoff.login <= opened
  /\ pc # "scrub" /\ Handed(handoff) =>
       handoff.login # store.login /\ handoff.login # session.login

(* What a step may do to the store, the session and the handoff.           *)
Nothing == /\ handoff' = handoff /\ opened' >= opened
           /\ store' \in {store, None} /\ session' \in {session, store, None}
           /\ pc' = "scrub" <=> pc = "scrub"
Opens == /\ handoff' = handoff /\ opened' = opened + 1
         /\ session' = Session(opened + 1, 0) /\ store' = session'
         /\ pc' # "scrub" /\ pc # "scrub"
Rotates == /\ handoff' = handoff /\ opened' = opened
           /\ store = session /\ Real(session) /\ store' = session'
           /\ session'.login = session.login /\ session'.rot >= session.rot
           /\ pc' # "scrub" /\ pc # "scrub"
Saves == /\ pc # "scrub" /\ pc' = "scrub"
         /\ Handed(handoff) /\ store' = handoff
         /\ UNCHANGED <<handoff, session, opened>>
Scrubs == handoff' = None /\ UNCHANGED <<store, session, opened>>
HandsOver == /\ handoff' = Session(opened + 1, 0) /\ opened' = opened + 1
             /\ UNCHANGED <<store, session>>

(* What a step of a setup may do to the store and the handoff.             *)
LEMMA SetupEffect ==
  ASSUME Types, InStep, Setup
  PROVE  Nothing \/ Opens \/ Rotates \/ Saves \/ Scrubs
<1>0. /\ opened \in Nat /\ store \in Sessions \union {Corrupt} /\ session \in Sessions
      /\ resume \in Asking
  BY SetupSets DEF Types
<1> USE <1>0, NextPoint DEF auth, data, Asking
<1>1. CASE NoHandoff \/ HandoffFails \/ RestoreValid \/ RestoreNothing
  BY <1>1 DEF NoHandoff, HandoffFails, RestoreValid, RestoreNothing, LoginOrReauth,
     Nothing
<1>2. CASE RestoreUnusable \/ ValidateInvalid \/ ValidateMalformed
  BY <1>2 DEF RestoreUnusable, ValidateInvalid, ValidateMalformed, LoginOrReauth,
     Nothing
<1>3. CASE SaveHandoff
  BY <1>3 DEF SaveHandoff, Saves
<1>4. CASE ValidateOk \/ RevalidateOk
  BY <1>4, ValidatedStep DEF ValidateOk, RevalidateOk, Validated, InStep, Steps, Rotates
<1>5. CASE LoginOk
  BY <1>5 DEF LoginOk, Opens
<1>6. CASE LoginRejected \/ LoginRefused \/ LoginMalformed \/ StoreRaises \/ Unreachable
  BY <1>6 DEF LoginRejected, LoginRefused, LoginMalformed, StoreRaises, Unreachable,
     Awaiting, Nothing
<1>7. CASE AccountSupported \/ AccountExpired \/ AccountFails \/ RevalidateFails
  BY <1>7 DEF AccountSupported, AccountExpired, AccountFails, RevalidateFails, Replay,
     Nothing
<1>8. CASE AccountIncomplete
  BY <1>8 DEF AccountIncomplete, Incomplete, Nothing
<1>9. CASE SelectCustomers \/ RefreshFails \/ RefreshOk \/ ForwardFails \/ ForwardOk
  BY <1>9 DEF SelectCustomers, RefreshFails, RefreshOk, ForwardFails, ForwardOk, Nothing
<1>10. CASE ScrubHandoff
  BY <1>10 DEF ScrubHandoff, Scrubs
<1>11. QED
  BY <1>1, <1>2, <1>3, <1>4, <1>5, <1>6, <1>7, <1>8, <1>9, <1>10 DEF Setup

(* What any step may do to them, without crashes and late requests.        *)
LEMMA Effect ==
  ASSUME ~MayCrash, ~MayOutlive, ~MayCancel, Types, Inv, InStep, [Next]_vars
  PROVE  Nothing \/ Opens \/ Rotates \/ Saves \/ Scrubs \/ HandsOver
<1> USE SetupSets DEF Types, Sessions, Goto, auth, counts, data, Inv, Control, Running
<1>1. CASE \/ StartSetup \/ Flush \/ Unload \/ UnloadFails \/ AskReauth
           \/ UNCHANGED vars
  BY <1>1 DEF StartSetup, Flush, Unload, UnloadFails, AskReauth, vars, Nothing
<1>2. CASE LateAnswer
  BY <1>2 DEF LateAnswer, InStep
<1>3. CASE RefreshRenews \/ RuntimeRenews
  <2>1. CASE HasPassword
    BY <1>3, <2>1 DEF RefreshRenews, RuntimeRenews, Opens
  <2>2. CASE ~HasPassword
    BY <1>3, <2>2, RenewedStep DEF RefreshRenews, RuntimeRenews, InStep, Steps, Rotates
  <2>3. QED
    BY <2>1, <2>2
<1>4. CASE RuntimeLosesCookies
  BY <1>4 DEF RuntimeLosesCookies, InStep, Rotates
<1>5. CASE ReauthFlow
  BY <1>5 DEF ReauthFlow, HandsOver
<1>6. CASE Setup
  BY <1>6, SetupEffect
<1>7. QED
  BY <1>1, <1>2, <1>3, <1>4, <1>5, <1>6 DEF Next, Timely, Cancelled, Crash

(* The logins in the store, in the handoff and to come stay in order.      *)
LEMMA ApartStep ==
  ASSUME ~MayCrash, ~MayOutlive, ~MayCancel, Types, Inv, InStep, Apart, [Next]_vars,
         Types'
  PROVE  Apart' /\ (store'.login = store.login => store'.rot >= store.rot)
<1> USE DEF Types, Sessions, Apart, Handed, InStep, Real, None, Malformed, Corrupt, Session
<1>1. CASE Nothing
  BY <1>1 DEF Nothing
<1>2. CASE Opens
  BY <1>2 DEF Opens
<1>3. CASE Rotates
  BY <1>3 DEF Rotates
<1>4. CASE Saves
  BY <1>4 DEF Saves
<1>5. CASE Scrubs
  BY <1>5 DEF Scrubs
<1>6. CASE HandsOver
  BY <1>6 DEF HandsOver
<1>7. QED
  BY <1>1, <1>2, <1>3, <1>4, <1>5, <1>6, Effect

(* Without a crash, a cancelled setup or a request that outlives its       *)
(* entry, the store never goes back to an earlier refresh token of the     *)
(* same login, also if a flow ends while a handoff is being saved.         *)
THEOREM TokensGoOn ==
  ASSUME ~MayCrash, ~MayOutlive, ~MayCancel PROVE Spec => StoreNeverReverts
<1> DEFINE All == Types /\ Inv /\ InStep /\ Apart
<1>1. Init => All
  <2>1. Init => Apart
    BY SetupSets DEF Init, Apart, Handed, None, Malformed, Corrupt, Session
  <2>2. QED
    BY <2>1, InitTypes, InitInv
<1>2. All /\ [Next]_vars => All' /\ (store'.login = store.login => store'.rot >= store.rot)
  BY NextTypes, NextInv, NextInStep, ApartStep
<1> HIDE DEF All
<1>3. All /\ [Next]_vars => [store'.login = store.login => store'.rot >= store.rot]_vars
  BY <1>2
<1>4. All /\ [Next]_vars => All'
  BY <1>2
<1>5. QED
  BY <1>1, <1>3, <1>4, PTL DEF Spec, StoreNeverReverts
------------------------------------------------------------------------------
(* Termination.  What is left of a setup at a point: the checks before the *)
(* account is asked for, the two requests each with its replay, and what   *)
(* comes after; a login or a revalidation comes just before the point it   *)
(* is for.                                                                 *)
Point(l) == IF l = "handoff" THEN 17 ELSE IF l = "scrub" THEN 16
            ELSE IF l = "restore" THEN 15 ELSE IF l = "validate" THEN 14
            ELSE IF l = "account" THEN 12 ELSE IF l = "accountReplay" THEN 10
            ELSE IF l = "recheck" THEN 8 ELSE IF l = "recheckReplay" THEN 6
            ELSE IF l = "customers" THEN 4 ELSE IF l = "refresh" THEN 3
            ELSE IF l = "forward" THEN 2 ELSE 0

Left(l, next) == IF l \in {"login", "revalidate"} THEN Point(next) + 1 ELSE Point(l)

(* A setup never comes back to where it was: a step leaves it in its place *)
(* or brings it strictly closer to its end.                                *)
NeverBack ==
  [][pc # "idle" => \/ pc' = pc /\ resume' = resume
                    \/ Left(pc', resume') < Left(pc, resume)]_vars

(* What is left is a natural number of bounded size.                       *)
LEMMA LeftBounded == ASSUME NEW l, NEW next PROVE Left(l, next) \in 0..18
BY DEF Left, Point

(* Every step of a setup brings it closer to its end.                      *)
LEMMA GoesOn ==
  ASSUME Control, Setup
  PROVE  Left(pc', resume') < Left(pc, resume)
<1> USE NextPoint DEF Left, Point, auth, Control, Asking
<1>1. CASE NoHandoff \/ HandoffFails \/ SaveHandoff \/ ScrubHandoff
  BY <1>1 DEF NoHandoff, HandoffFails, SaveHandoff, ScrubHandoff
<1>2. CASE RestoreValid \/ RestoreUnusable \/ RestoreNothing
  BY <1>2 DEF RestoreValid, RestoreUnusable, RestoreNothing, LoginOrReauth
<1>3. CASE ValidateOk \/ ValidateInvalid \/ ValidateMalformed
  BY <1>3 DEF ValidateOk, Validated, ValidateInvalid, ValidateMalformed, LoginOrReauth
<1>4. CASE LoginOk
  BY <1>4 DEF LoginOk
<1>5. CASE LoginRejected \/ LoginRefused \/ LoginMalformed
  BY <1>5 DEF LoginRejected, LoginRefused, LoginMalformed
<1>6. CASE StoreRaises
  BY <1>6 DEF StoreRaises, Awaiting
<1>7. CASE Unreachable
  BY <1>7 DEF Unreachable, Awaiting
<1>8. CASE AccountSupported \/ AccountFails
  BY <1>8 DEF AccountSupported, AccountFails
<1>9. CASE AccountExpired
  BY <1>9 DEF AccountExpired, Replay
<1>10. CASE RevalidateOk \/ RevalidateFails
  BY <1>10 DEF RevalidateOk, Validated, RevalidateFails
<1>11. CASE AccountIncomplete
  BY <1>11 DEF AccountIncomplete, Incomplete, FirstRequest
<1>12. CASE SelectCustomers \/ RefreshFails \/ RefreshOk \/ ForwardFails \/ ForwardOk
  BY <1>12 DEF SelectCustomers, RefreshFails, RefreshOk, ForwardFails, ForwardOk
<1>13. QED
  BY <1>1, <1>2, <1>3, <1>4, <1>5, <1>6, <1>7, <1>8, <1>9, <1>10, <1>11, <1>12 DEF Setup

(* A setup comes to its end in at most 17 steps beside the renewals of its *)
(* first refresh, whatever KEPCO ON answers: it asks for the account at    *)
(* most twice, replays each request once and logs in between.  This is the *)
(* argument behind SetupEnds: every await ends, and no loop is left.       *)
THEOREM SetupRunsOut == Spec => NeverBack
<1>1. ASSUME Inv, [Next]_vars, pc # "idle"
      PROVE  \/ pc' = pc /\ resume' = resume
             \/ Left(pc', resume') < Left(pc, resume)
  <2>1. CASE Setup
    BY <1>1, <2>1, GoesOn DEF Inv
  <2>2. CASE Unload \/ LateAnswer \/ UNCHANGED vars
    BY <2>2 DEF Unload, LateAnswer, auth, vars
  <2>3. CASE Crash
    BY <1>1, <2>3 DEF Crash, Left, Point, Inv, Control, Steps, Asking
  <2>4. CASE RefreshRenews \/ RuntimeRenews \/ RuntimeLosesCookies
    BY <2>4 DEF RefreshRenews, RuntimeRenews, RuntimeLosesCookies, Goto
  <2>5. CASE StartSetup \/ UnloadFails \/ AskReauth \/ ReauthFlow \/ Flush
    BY <1>1, <2>5 DEF StartSetup, UnloadFails, AskReauth, ReauthFlow, Flush, auth
  <2>6. CASE Cancelled
    BY <1>1, <2>6 DEF Cancelled, Left, Point, Inv, Control, Steps, Asking
  <2>7. QED
    BY <1>1, <2>1, <2>2, <2>3, <2>4, <2>5, <2>6 DEF Next, Timely
<1>2. QED
  BY <1>1, InvariantHolds, PTL DEF Spec, NeverBack

===============================================================================
