-------------------------- MODULE AuthSession_proofs --------------------------
(***************************************************************************)
(* Proofs about AuthSession, for every set of calls and every bound.       *)
(***************************************************************************)
EXTENDS AuthSession, TLAPS

(* The initial states satisfy the inductive invariant.                     *)
LEMMA InitInv == Init => IInv
<1> SUFFICES ASSUME Init PROVE IInv
  OBVIOUS
<1>1. TypeOK
  <2>1. /\ EmptyJar \in Cookies
        /\ [tok |-> 1, rot |-> 0] \in Cookies
        /\ 0 \in Tokens /\ 1 \in Tokens
    BY BoundsAssumption DEF EmptyJar, Cookies, Tokens
  <2>2. current \in Sessions
    BY <2>1 DEF Init, Sessions
  <2>3. jar \in Cookies
    BY <2>2 DEF Init, Sessions
  <2>4. NoAnswer \in Answers /\ NoSession \in Sessions
    BY <2>1 DEF NoAnswer, Reply, Answers, Kinds, NoSession, Sessions
  <2>5. QED
    BY <2>1, <2>2, <2>3, <2>4 DEF Init, TypeOK, Locations
<1>2. LockDiscipline
  BY FreeAssumption DEF Init, LockDiscipline, HoldsLock, Recovering, Persisting
<1>3. GenerationKnown /\ RecoveryIsCurrent /\ StoreWritten
  BY DEF Init, GenerationKnown, RecoveryIsCurrent, StoreWritten, Recovering
<1>4. NewSessions
  BY DEF Init, NewSessions, Persisting
<1>5. StoreMatchesCurrent
  BY DEF Init, StoreMatchesCurrent
<1>6. QED
  BY <1>1, <1>2, <1>3, <1>4, <1>5 DEF IInv

(* What moving a call does to the types: it may go to any location.        *)
LEMMA MoveType ==
  ASSUME TypeOK, NEW r \in Requests, NEW l \in Locations,
         StepTo(r, l) \/ SendAt(r, l)
  PROVE  /\ pc' \in [Requests -> Locations]
         /\ net' \in [Requests -> {"quiet", "sent", "answered", "arrived"}]
         /\ answer' \in [Requests -> Answers]
<1>1. NoAnswer \in Answers
  BY BoundsAssumption DEF NoAnswer, Reply, Answers, Kinds, Tokens, Cookies, EmptyJar
<1>2. QED
  BY <1>1 DEF TypeOK, StepTo, SendAt, Move

(* What an answer does to the types.                                       *)
LEMMA SaysType ==
  ASSUME TypeOK, NEW r \in Requests, NEW kind \in Kinds, NEW t \in Tokens,
         NEW c \in Cookies, Says(r, kind, t, c), issued' \in Tokens
  PROVE  TypeOK'
<1>1. Reply(kind, t, c) \in Answers
  BY DEF Reply, Answers
<1>2. QED
  BY <1>1 DEF TypeOK, Says, clientVars, callVars

(* The cookies a session's answers may set are cookies.                    *)
LEMMA CookiesOfType == ASSUME NEW t \in Tokens PROVE CookiesOf(t) \subseteq Cookies
BY BoundsAssumption DEF CookiesOf, Cookies, EmptyJar, Tokens

(* Every step preserves the types.                                         *)
LEMMA TypeStep == TypeOK /\ [Next]_vars => TypeOK'
<1> SUFFICES ASSUME TypeOK, [Next]_vars PROVE TypeOK'
  OBVIOUS
<1>1. EmptyJar \in Cookies /\ NoSession \in Sessions /\ 0 \in Tokens
  BY BoundsAssumption DEF EmptyJar, NoSession, Sessions, Cookies, Tokens
<1>2. ASSUME NEW r \in Requests, Network(r) PROVE TypeOK'
  <2>1. CASE AnswerProtected(r)
    <3>1. \E kind \in Kinds, c \in Cookies : Says(r, kind, 0, c)
      BY <2>1, <1>1, CookiesOfType DEF AnswerProtected, Kinds, TypeOK
    <3>2. issued' \in Tokens
      BY <2>1 DEF AnswerProtected, TypeOK
    <3>3. QED
      BY <3>1, <3>2, <1>1, SaysType
  <2>2. CASE AnswerBootstrap(r)
    <3>1. \E kind \in Kinds, c \in Cookies : Says(r, kind, 0, c)
      BY <2>2, <1>1, CookiesOfType DEF AnswerBootstrap, Kinds
    <3>2. issued' \in Tokens
      BY <2>2 DEF AnswerBootstrap, TypeOK
    <3>3. QED
      BY <3>1, <3>2, <1>1, SaysType
  <2>3. CASE AnswerLogin(r)
    <3>1. issued + 1 \in Tokens /\ issued' \in Tokens
      BY <2>3, BoundsAssumption DEF AnswerLogin, Issues, TypeOK, Tokens
    <3>2. [tok |-> issued + 1, rot |-> 0] \in Cookies
      BY <3>1, BoundsAssumption DEF Cookies
    <3>3. QED
      BY <2>3, <3>1, <3>2, SaysType DEF AnswerLogin, Kinds
  <2>4. CASE AnswerValidate(r)
    <3>1. CASE /\ Issues(issued + 1)
               /\ \E c \in CookiesOf(issued + 1) : Says(r, "ok", issued + 1, c)
      <4>1. issued + 1 \in Tokens /\ issued' \in Tokens
        BY <3>1, BoundsAssumption DEF Issues, TypeOK, Tokens
      <4>2. QED
        BY <3>1, <4>1, CookiesOfType, SaysType DEF Kinds
    <3>2. CASE Says(r, "ok", current.tok, EmptyJar) /\ UNCHANGED issued
      <4>1. current.tok \in Tokens
        BY DEF TypeOK, Sessions
      <4>2. QED
        BY <3>2, <4>1, <1>1, SaysType DEF Kinds, TypeOK
    <3>3. QED
      BY <2>4, <3>1, <3>2 DEF AnswerValidate
  <2>5. CASE AnswerUnusable(r)
    <3>1. PICK t \in {0, issued + 1} :
            /\ Issues(t)
            /\ \E kind \in {"no", "empty", "failed"}, c \in CookiesOf(t) :
                 Says(r, kind, 0, c)
      BY <2>5 DEF AnswerUnusable
    <3>2. t \in Tokens /\ issued' \in Tokens
      BY <3>1, BoundsAssumption DEF Issues, TypeOK, Tokens
    <3>3. QED
      BY <3>1, <3>2, <1>1, CookiesOfType, SaysType DEF Kinds
  <2>6. CASE Deliver(r)
    BY <2>6 DEF Deliver, TypeOK, Answers, clientVars, callVars
  <2>7. QED
    BY <1>2, <2>1, <2>2, <2>3, <2>4, <2>5, <2>6 DEF Network
<1>7. ASSUME NEW r \in Requests, Retry(r) PROVE TypeOK'
  <2>1. PICK t \in {0, issued + 1} :
          /\ Issues(t)
          /\ \E c \in CookiesOf(t) \union CookiesOf(tok[r]) :
               jar' = IF c = EmptyJar THEN jar ELSE c
    BY <1>7 DEF Retry
  <2>2. t \in Tokens /\ issued' \in Tokens /\ tok[r] \in Tokens
    BY <2>1, BoundsAssumption DEF Issues, TypeOK, Tokens
  <2>3. jar' \in Cookies
    BY <2>1, <2>2, CookiesOfType DEF TypeOK
  <2>4. QED
    BY <1>7, <2>2, <2>3 DEF Retry, TypeOK, clientVars, callVars
<1>3. ASSUME NEW r \in Requests,
             Begin(r) \/ TakeLock(r) \/ Return(r) \/ Resume(r)
      PROVE  \E l \in Locations : StepTo(r, l) \/ SendAt(r, l)
  BY <1>3, ZenonT(30) DEF Begin, TakeLock, StartRecovery, JoinRecovery, PersistNothing,
         StartPersist, Return, Resume, ResumeRequest, ResumeReplay,
         ResumeBootstrap, ResendLogin, ResumeRecovered, RecoveryFails,
         SaveRecovered, AssignRecovered, SavePersist, AssignPersist, SaveFails,
         Locations, Recovering, Persisting, Returned
<1>4. ASSUME NEW r \in Requests,
             Begin(r) \/ TakeLock(r) \/ Return(r) \/ Resume(r)
      PROVE  TypeOK'
  <2>1. /\ pc' \in [Requests -> Locations]
        /\ net' \in [Requests -> {"quiet", "sent", "answered", "arrived"}]
        /\ answer' \in [Requests -> Answers]
    BY <1>3, <1>4, MoveType
  <2> USE <2>1, <1>1 DEF TypeOK, clientVars, callVars
  <2>2. CASE Begin(r)
    BY <2>2 DEF Begin, Sessions
  <2>3. CASE TakeLock(r)
    <3>1. CASE StartRecovery(r)
      BY <3>1 DEF StartRecovery
    <3>2. CASE JoinRecovery(r)
      BY <3>2 DEF JoinRecovery, Sessions
    <3>3. CASE PersistNothing(r)
      BY <3>3 DEF PersistNothing
    <3>4. CASE StartPersist(r)
      BY <3>4 DEF StartPersist, SnapshotSession, Sessions
    <3>5. QED
      BY <2>3, <3>1, <3>2, <3>3, <3>4 DEF TakeLock
  <2>4. CASE Return(r)
    BY <2>4 DEF Return
  <2>5. CASE Resume(r)
    <3>1. CASE ResumeRequest(r) \/ ResumeReplay(r) \/ ResumeBootstrap(r)
               \/ ResendLogin(r)
      BY <3>1 DEF ResumeRequest, ResumeReplay, ResumeBootstrap, ResendLogin
    <3>2. CASE ResumeRecovered(r)
      BY <3>2 DEF ResumeRecovered, RecoveredSession, Sessions, Answers
    <3>3. CASE RecoveryFails(r)
      BY <3>3 DEF RecoveryFails
    <3>4. CASE SaveRecovered(r) \/ SavePersist(r)
      BY <3>4 DEF SaveRecovered, SavePersist
    <3>5. CASE AssignRecovered(r) \/ AssignPersist(r)
      <4>1. pending[r] \in Sessions /\ pending[r].tok \in Tokens
        BY DEF Sessions
      <4>2. NoSession \in Sessions
        BY BoundsAssumption DEF NoSession, EmptyJar, Sessions, Tokens, Cookies
      <4>3. pending' \in [Requests -> Sessions]
        BY <3>5, <4>2 DEF AssignRecovered, AssignPersist, Discard
      <4>4. CASE AssignRecovered(r)
        BY <4>1, <4>3, <4>4 DEF AssignRecovered
      <4>5. CASE AssignPersist(r)
        BY <4>1, <4>3, <4>5 DEF AssignPersist
      <4>6. QED
        BY <3>5, <4>4, <4>5
    <3>6. CASE SaveFails(r)
      BY <3>6 DEF SaveFails, Discard
    <3>7. QED
      BY <2>5, <3>1, <3>2, <3>3, <3>4, <3>5, <3>6 DEF Resume
  <2>6. QED
    BY <1>4, <2>2, <2>3, <2>4, <2>5
<1>5. CASE UNCHANGED vars
  BY <1>5 DEF TypeOK, vars
<1>6. QED
  BY <1>2, <1>4, <1>5, <1>7 DEF Next

(* Type correctness: what each variable may hold, in every behaviour of    *)
(* auth.py under every interleaving of its calls.                          *)
THEOREM TypeCorrect == Spec => []TypeOK
<1>1. Init => TypeOK
  BY InitInv DEF IInv
<1>2. QED
  BY <1>1, TypeStep, PTL DEF Spec

(* An exchange with KEPCO ON changes nothing of the client's own state: a  *)
(* new answer is no older than the session in use.                         *)
LEMMA NetworkStep ==
  ASSUME IInv, NEW r \in Requests, Network(r) \/ Retry(r)
  PROVE  /\ LockDiscipline' /\ GenerationKnown' /\ RecoveryIsCurrent'
         /\ NewSessions' /\ StoreWritten' /\ StoreMatchesCurrent'
<1>1. UNCHANGED <<current, store, generation, lock, pc, tok, gen, pending>>
  BY DEF Network, AnswerProtected, AnswerBootstrap, AnswerLogin, AnswerValidate,
         AnswerUnusable, Retry, Deliver, Says, clientVars, callVars
<1>2. /\ LockDiscipline' /\ GenerationKnown' /\ RecoveryIsCurrent'
      /\ StoreWritten' /\ StoreMatchesCurrent'
  BY <1>1 DEF IInv, LockDiscipline, HoldsLock, GenerationKnown, RecoveryIsCurrent,
              StoreWritten, StoreMatchesCurrent
<1>3. issued' >= issued /\ issued \in Nat /\ issued' \in Nat /\ current.tok \in Nat
  BY BoundsAssumption DEF Network, AnswerProtected, AnswerBootstrap, AnswerLogin,
     AnswerValidate, AnswerUnusable, Retry, Issues, Deliver, IInv, TypeOK, Sessions, Tokens
<1>4. ASSUME NEW q \in Requests, pc[q] \in {"login", "relogin", "validate"},
             answer'[q].kind = "ok"
      PROVE  answer'[q].tok >= current.tok /\ answer'[q].tok <= issued'
  <2>1. CASE q # r \/ Deliver(r) \/ Retry(r)
    <3>1. answer'[q] = answer[q]
      BY <2>1 DEF Network, AnswerProtected, AnswerBootstrap, AnswerLogin,
         AnswerValidate, AnswerUnusable, Retry, Issues, Deliver, Says, IInv, TypeOK
    <3>2. answer[q].tok \in Nat
      BY DEF IInv, TypeOK, Answers, Tokens
    <3>3. QED
      BY <1>3, <1>4, <3>1, <3>2 DEF IInv, NewSessions
  <2>2. CASE q = r /\ ~Deliver(r) /\ ~Retry(r)
    <3>1. answer'[r].tok \in {current.tok, issued + 1} /\ answer'[r].tok <= issued'
      BY <1>3, <1>4, <2>2 DEF Network, AnswerProtected, AnswerBootstrap, AnswerLogin,
         AnswerValidate, AnswerUnusable, Issues, Says, Reply, IInv, TypeOK, NewSessions
    <3>2. QED
      BY <1>3, <2>2, <3>1 DEF IInv, NewSessions
  <2>3. QED
    BY <2>1, <2>2
<1>5. NewSessions'
  <2>1. ASSUME NEW q \in Requests PROVE pending[q].tok \in Nat
    BY DEF IInv, TypeOK, Sessions, Tokens
  <2>2. QED
    BY <1>1, <1>3, <1>4, <2>1 DEF IInv, NewSessions
<1>6. QED
  BY <1>2, <1>5

(* The safety half of the inductive invariant, for the client's own steps: *)
(* only the holder of the lock changes the session, the store or the       *)
(* generation, and what it saves is no older than what it replaces.        *)
LEMMA ClientStep ==
  ASSUME IInv, NEW r \in Requests,
         Begin(r) \/ TakeLock(r) \/ Resume(r) \/ Return(r)
  PROVE  /\ LockDiscipline' /\ GenerationKnown' /\ RecoveryIsCurrent'
         /\ NewSessions' /\ StoreWritten' /\ StoreMatchesCurrent'
<1> USE FreeAssumption
    DEF LockDiscipline, HoldsLock, GenerationKnown, RecoveryIsCurrent, NewSessions,
        StoreWritten, StoreMatchesCurrent, Recovering, Persisting, TypeOK,
        Sessions, Tokens, Answers, Move, SendAt, StepTo, Answered,
        clientVars, callVars
<1>1. CASE Begin(r)
  BY <1>1, SMTT(30) DEF IInv, Begin
<1>2. CASE StartRecovery(r)
  BY <1>2, SMTT(30) DEF IInv, StartRecovery, SameGeneration, NoAnswer, Reply
<1>3. CASE JoinRecovery(r)
  BY <1>3, SMTT(30) DEF IInv, JoinRecovery, SameGeneration
<1>4. CASE StartPersist(r)
  BY <1>4, SMTT(30) DEF IInv, StartPersist, SnapshotSession
<1>5. CASE PersistNothing(r)
  BY <1>5, SMTT(30) DEF IInv, PersistNothing
<1>6. CASE Return(r)
  BY <1>6, SMTT(30) DEF IInv, Return, Returned
<1>7. CASE ResumeRequest(r) \/ ResumeReplay(r)
  BY <1>7, SMTT(30) DEF IInv, ResumeRequest, ResumeReplay
<1>8. CASE ResumeBootstrap(r) \/ ResendLogin(r)
  BY <1>8, SMTT(30) DEF IInv, ResumeBootstrap, ResendLogin, NoAnswer, Reply
<1>9. CASE ResumeRecovered(r)
  BY <1>9, SMTT(30) DEF IInv, ResumeRecovered, RecoveredSession
<1>10. CASE RecoveryFails(r)
  BY <1>10, SMTT(30) DEF IInv, RecoveryFails
<1>11. CASE SaveRecovered(r) \/ SavePersist(r)
  BY <1>11, SMTT(30) DEF IInv, SaveRecovered, SavePersist
<1>12. CASE AssignRecovered(r)
  BY <1>12, SMTT(30) DEF IInv, AssignRecovered, Discard
<1>13. CASE AssignPersist(r)
  BY <1>13, SMTT(30) DEF IInv, AssignPersist, Discard
<1>14. CASE SaveFails(r)
  BY <1>14, SMTT(30) DEF IInv, SaveFails, Discard
<1>15. QED
  BY <1>1, <1>2, <1>3, <1>4, <1>5, <1>6, <1>7, <1>8, <1>9, <1>10, <1>11, <1>12, <1>13, <1>14 DEF TakeLock, Resume

(* IInv is inductive.                                                      *)
LEMMA StepInv == IInv /\ [Next]_vars => IInv'
<1> SUFFICES ASSUME IInv, [Next]_vars PROVE IInv'
  OBVIOUS
<1>1. TypeOK'
  BY TypeStep DEF IInv
<1>2. CASE Next
  BY <1>1, <1>2, NetworkStep, ClientStep DEF Next, IInv
<1>3. CASE UNCHANGED vars
  BY <1>1, <1>3 DEF vars, IInv, LockDiscipline, HoldsLock, GenerationKnown,
                    RecoveryIsCurrent, NewSessions, StoreWritten, StoreMatchesCurrent
<1>4. QED
  BY <1>2, <1>3

(* The inductive invariant holds throughout, for any number of calls,      *)
(* tokens and generations.                                                 *)
THEOREM Inductive == Spec => []IInv
BY InitInv, StepInv, PTL DEF Spec

(* Recovery throws away exactly the session KEPCO ON refused, whatever the *)
(* number of concurrent calls: the reason one expiry never costs a second  *)
(* login that discards the first one's session.                            *)
THEOREM RecoveryTargetsRefused == Spec => []RecoveryTargetsRefusedSession
<1>1. IInv => RecoveryTargetsRefusedSession
  BY DEF IInv, GenerationKnown, RecoveryIsCurrent, RecoveryTargetsRefusedSession
<1>2. QED
  BY <1>1, Inductive, PTL

(* The persisted session is the one in use except inside a save.           *)
THEOREM StoreFollowsCurrent == Spec => []StoreMatchesCurrent
<1>1. IInv => StoreMatchesCurrent
  BY DEF IInv
<1>2. QED
  BY <1>1, Inductive, PTL

(* The current and the persisted refresh token never go back to an older   *)
(* one.                                                                    *)
THEOREM NeverReverts == Spec => SessionNeverReverts
<1>1. ASSUME IInv, [Next]_vars
      PROVE  current'.tok >= current.tok /\ store'.tok >= store.tok
  <2>1. /\ current.tok \in Nat /\ store.tok \in Nat
        /\ \A r \in Requests : pending[r].tok \in Nat
    BY <1>1 DEF IInv, TypeOK, Sessions, Tokens
  <2>2. CASE UNCHANGED <<current, store>>
    BY <2>1, <2>2
  <2>3. ASSUME NEW r \in Requests, SaveRecovered(r) \/ SavePersist(r)
        PROVE  current' = current /\ store' = pending[r] /\ store = current
    <3>1. lock = r /\ pc[r] \in {"saveLogin", "savePersist"}
      BY <1>1, <2>3 DEF SaveRecovered, SavePersist, IInv, LockDiscipline, HoldsLock,
                        Recovering, Persisting
    <3>2. QED
      BY <1>1, <2>3, <3>1 DEF SaveRecovered, SavePersist, IInv, StoreMatchesCurrent
  <2>4. ASSUME NEW r \in Requests, AssignRecovered(r) \/ AssignPersist(r)
        PROVE  current' = pending[r] /\ store' = store
    BY <2>4 DEF AssignRecovered, AssignPersist
  <2>5. ASSUME NEW r \in Requests,
               pc[r] \in {"saveLogin", "assignLogin", "savePersist", "assignPersist"}
        PROVE  pending[r].tok >= current.tok
    BY <1>1, <2>1, <2>5 DEF IInv, NewSessions, Persisting
  <2>6. CASE \E r \in Requests : SaveRecovered(r) \/ SavePersist(r)
                                \/ AssignRecovered(r) \/ AssignPersist(r)
    BY <2>1, <2>3, <2>4, <2>5, <2>6
       DEF SaveRecovered, SavePersist, AssignRecovered, AssignPersist
  <2>7. CASE ~\E r \in Requests : SaveRecovered(r) \/ SavePersist(r)
                                 \/ AssignRecovered(r) \/ AssignPersist(r)
    <3>1. ASSUME NEW r \in Requests, Network(r) \/ Retry(r) PROVE UNCHANGED <<current, store>>
      BY <3>1 DEF Network, AnswerProtected, AnswerBootstrap, AnswerLogin,
         AnswerValidate, AnswerUnusable, Retry, Issues, Deliver, Says, clientVars
    <3>2. ASSUME NEW r \in Requests, Begin(r) \/ TakeLock(r) \/ Return(r)
          PROVE  UNCHANGED <<current, store>>
      BY <3>2 DEF Begin, TakeLock, StartRecovery, JoinRecovery, PersistNothing,
         StartPersist, Return, clientVars
    <3>3. ASSUME NEW r \in Requests, Resume(r) PROVE UNCHANGED <<current, store>>
      BY <2>7, <3>3 DEF Resume, ResumeRequest, ResumeReplay, ResumeBootstrap,
         ResendLogin, ResumeRecovered, RecoveryFails, SaveFails, clientVars
    <3>4. QED
      BY <1>1, <2>2, <3>1, <3>2, <3>3 DEF Next, vars
  <2>8. QED
    BY <2>6, <2>7
<1>2. QED
  BY <1>1, Inductive, PTL DEF Spec, SessionNeverReverts

------------------------------------------------------------------------------
(* Cookies.  Fits: cookies c may be stored with the refresh token t, being *)
(* nobody's or those of a session no older than it.                        *)
Fits(c, t) == c.tok = 0 \/ c.tok >= t

SessionsFit == /\ Fits(store.ck, store.tok)
               /\ Fits(current.ck, current.tok)
               /\ Fits(jar, current.tok)

(* Where a call that overlaps no other stands: nobody else changed the     *)
(* session under it, the answer to a login sets the cookies of the token   *)
(* it carries, and they are in the jar when the coroutine resumes.         *)
CallAlone(r) ==
  /\ pc[r] # "validate"
  /\ pc[r] \notin {"request", "replay", "bootstrap", "login", "relogin"}
       => net[r] = "quiet"
  /\ pc[r] # "idle" => tok[r] = current.tok
  /\ pc[r] \in {"request", "waitRecover"} \union Recovering => gen[r] = generation
  /\ net[r] = "answered" => Fits(answer[r].cookie, current.tok)
  /\ pc[r] \in {"login", "relogin"} /\ answer[r].kind = "ok"
       => /\ answer[r].cookie.tok = answer[r].tok /\ answer[r].tok > 0
          /\ net[r] = "arrived" => jar.tok = answer[r].tok
  /\ pc[r] \in {"saveLogin", "assignLogin"}
       => pending[r].ck = jar /\ jar.tok = pending[r].tok
  /\ pc[r] \in Persisting => Fits(pending[r].ck, pending[r].tok)

CInv == SessionsFit /\ \A r \in Requests : CallAlone(r)

(* It holds of the session the store loads, whose cookies are its own.      *)
LEMMA InitFits == Init => CInv
BY DEF Init, CInv, SessionsFit, CallAlone, Fits, EmptyJar, Recovering, Persisting,
       NoAnswer, Reply

(* The numbers Fits compares.                                              *)
LEMMA TokenNumbers ==
  ASSUME TypeOK
  PROVE  /\ issued \in Nat /\ generation \in Nat
         /\ jar.tok \in Nat /\ current.tok \in Nat /\ current.ck.tok \in Nat
         /\ store.tok \in Nat /\ store.ck.tok \in Nat
         /\ \A r \in Requests :
              /\ tok[r] \in Nat /\ answer[r].tok \in Nat /\ answer[r].cookie.tok \in Nat
              /\ pending[r].tok \in Nat /\ pending[r].ck.tok \in Nat
BY DEF TypeOK, Sessions, Cookies, Tokens, Answers

(* The cookies an answer for token t may set are nobody's or that token's. *)
LEMMA CookiesOfOwn == ASSUME NEW t, NEW c \in CookiesOf(t) PROVE c.tok = 0 \/ c.tok = t
BY DEF CookiesOf, EmptyJar

(* The calls beside one that takes a step are idle before and after it.    *)
LEMMA OthersIdle ==
  ASSUME IInv, CInv, OneCallAtATime, OneCallAtATime', NEW r \in Requests,
         Begin(r) \/ Network(r) \/ Retry(r) \/ Resume(r) \/ TakeLock(r) \/ Return(r)
  PROVE  \A s \in Requests \ {r} :
           /\ pc[s] = "idle" /\ pc'[s] = "idle"
           /\ net[s] = "quiet" /\ net'[s] = "quiet"
           /\ CallAlone(s)'
<1> SUFFICES ASSUME NEW s \in Requests, s # r
             PROVE  /\ pc[s] = "idle" /\ pc'[s] = "idle"
                    /\ net[s] = "quiet" /\ net'[s] = "quiet"
                    /\ CallAlone(s)'
  OBVIOUS
<1>1. pc'[s] = pc[s] /\ (s # r => net'[s] = net[s])
  BY DEF IInv, TypeOK, Begin, TakeLock, StartRecovery, JoinRecovery, PersistNothing,
     StartPersist, Return, Resume, ResumeRequest, ResumeReplay, ResumeBootstrap,
     ResendLogin, ResumeRecovered, RecoveryFails, SaveRecovered, AssignRecovered,
     SavePersist, AssignPersist, SaveFails, Network, AnswerProtected, AnswerBootstrap,
     AnswerLogin, AnswerValidate, AnswerUnusable, Retry, Deliver, Says, Move, SendAt, StepTo
<1>2. pc[r] # "idle" \/ pc'[r] # "idle"
  BY DEF IInv, TypeOK, Begin, TakeLock, StartRecovery, JoinRecovery, PersistNothing,
     StartPersist, Return, Resume, ResumeRequest, ResumeReplay, ResumeBootstrap,
     ResendLogin, ResumeRecovered, RecoveryFails, SaveRecovered, AssignRecovered,
     SavePersist, AssignPersist, SaveFails, Network, AnswerProtected, AnswerBootstrap,
     AnswerLogin, AnswerValidate, AnswerUnusable, Retry, Deliver, Says, Move, SendAt, StepTo,
     Answered, CInv, CallAlone, Returned
<1>3. pc[s] = "idle" /\ pc'[s] = "idle"
  BY <1>1, <1>2 DEF OneCallAtATime
<1>4. net[s] = "quiet" /\ net'[s] = "quiet"
  BY <1>1, <1>3 DEF CInv, CallAlone
<1>5. CallAlone(s)'
  BY <1>3, <1>4 DEF CallAlone, Recovering, Persisting
<1>6. QED
  BY <1>3, <1>4, <1>5

(* A step of a call that overlaps no other keeps cookies and tokens apart  *)
(* from those they do not belong to.                                       *)
LEMMA NetworkFits ==
  ASSUME HasPassword, IInv, CInv, OneCallAtATime, OneCallAtATime', NEW r \in Requests,
         Network(r) \/ Retry(r)
  PROVE  CInv'
<1>1. UNCHANGED <<current, store, generation, lock, pc, tok, gen, pending>>
  BY DEF Network, AnswerProtected, AnswerBootstrap, AnswerLogin, AnswerValidate,
         AnswerUnusable, Retry, Deliver, Says, clientVars, callVars
<1>2. \A s \in Requests \ {r} : CallAlone(s)'
  BY OthersIdle
<1>3. CallAlone(r) /\ SessionsFit /\ TypeOK /\ NewSessions
  BY DEF CInv, IInv
<1>4. SUFFICES Fits(jar', current.tok) /\ CallAlone(r)'
  BY <1>1, <1>2, <1>3 DEF CInv, SessionsFit, Fits
<1>5. tok[r] = current.tok /\ current.tok <= issued
  BY <1>3 DEF CallAlone, NewSessions, Network, AnswerProtected, AnswerBootstrap, AnswerLogin,
     AnswerValidate, AnswerUnusable, Retry, Deliver, Says
<1> USE TokenNumbers
<1>6. ASSUME NEW kind, NEW t, NEW c, Says(r, kind, t, c), Fits(c, current.tok),
             pc[r] \in {"request", "replay", "bootstrap", "login", "relogin"},
             pc[r] \in {"login", "relogin"} /\ kind = "ok" => c.tok = t /\ t > 0
      PROVE  Fits(jar', current.tok) /\ CallAlone(r)'
  <2>1. jar' = jar /\ net'[r] = "answered" /\ answer'[r] = Reply(kind, t, c)
    BY <1>3, <1>6 DEF Says, TypeOK
  <2>2. QED
    BY <1>1, <1>3, <1>6, <2>1 DEF SessionsFit, CallAlone, Reply, Recovering, Persisting
<1>7. CASE AnswerProtected(r)
  <2>1. \E kind, c : Says(r, kind, 0, c) /\ (c.tok = 0 \/ c.tok = tok[r])
    BY <1>7, CookiesOfOwn DEF AnswerProtected
  <2>2. QED
    BY <1>5, <1>6, <1>7, <1>3, <2>1 DEF Fits, AnswerProtected
<1>8. CASE AnswerBootstrap(r)
  <2>1. \E kind, c : Says(r, kind, 0, c) /\ c.tok = 0
    BY <1>8, CookiesOfOwn DEF AnswerBootstrap
  <2>2. QED
    BY <1>6, <1>8, <2>1 DEF Fits, AnswerBootstrap
<1>9. CASE AnswerLogin(r)
  BY <1>3, <1>5, <1>6, <1>9 DEF AnswerLogin, Fits
<1>10. CASE AnswerValidate(r)
  BY <1>3, <1>10 DEF AnswerValidate, CallAlone
<1>11. CASE AnswerUnusable(r)
  <2>1. PICK t \in {0, issued + 1} :
          \E kind \in {"no", "empty", "failed"}, c \in CookiesOf(t) : Says(r, kind, 0, c)
    BY <1>11 DEF AnswerUnusable
  <2>2. PICK kind \in {"no", "empty", "failed"}, c \in CookiesOf(t) : Says(r, kind, 0, c)
    BY <2>1
  <2>3. Fits(c, current.tok)
    <3>1. c.tok = 0 \/ c.tok = t
      BY <2>2, CookiesOfOwn
    <3>2. QED
      BY <1>3, <1>5, <3>1 DEF Fits
  <2>4. pc[r] \in {"login", "relogin"}
    BY <1>3, <1>11 DEF AnswerUnusable, CallAlone
  <2>5. QED
    BY <1>6, <2>2, <2>3, <2>4
<1>12. CASE Deliver(r)
  <2>1. /\ net[r] = "answered" /\ net'[r] = "arrived" /\ answer' = answer
        /\ jar' = IF answer[r].cookie = EmptyJar THEN jar ELSE answer[r].cookie
    BY <1>3, <1>12 DEF Deliver, TypeOK
  <2>2. Fits(jar', current.tok)
    BY <1>3, <2>1 DEF SessionsFit, CallAlone
  <2>3. pc[r] \in {"login", "relogin"} /\ answer[r].kind = "ok" => jar'.tok = answer[r].tok
    BY <1>3, <2>1 DEF CallAlone, EmptyJar
  <2>4. QED
    BY <1>1, <1>3, <2>1, <2>2, <2>3 DEF CallAlone, Fits, Recovering, Persisting
<1>13. CASE Retry(r)
  <2>1. PICK t \in {0, issued + 1} : \E c \in CookiesOf(t) \union CookiesOf(tok[r]) :
          jar' = IF c = EmptyJar THEN jar ELSE c
    BY <1>13 DEF Retry
  <2> PICK c \in CookiesOf(t) \union CookiesOf(tok[r]) :
         jar' = IF c = EmptyJar THEN jar ELSE c
    BY <2>1
  <2>2. c.tok = 0 \/ c.tok = t \/ c.tok = tok[r]
    BY <2>1, CookiesOfOwn
  <2>3. Fits(jar', current.tok)
    BY <1>3, <1>5, <2>1, <2>2 DEF Fits, SessionsFit
  <2>4. net[r] = "sent" /\ net' = net /\ answer' = answer
    BY <1>13 DEF Retry
  <2>5. QED
    BY <1>1, <1>3, <2>3, <2>4 DEF CallAlone, Fits, Recovering, Persisting
<1>14. QED
  BY <1>7, <1>8, <1>9, <1>10, <1>11, <1>12, <1>13 DEF Network

(* The same for the steps of the client.                                   *)
LEMMA ClientFits ==
  ASSUME HasPassword, IInv, CInv, OneCallAtATime, OneCallAtATime', NEW r \in Requests,
         Begin(r) \/ TakeLock(r) \/ Resume(r) \/ Return(r)
  PROVE  CInv'
<1>1. \A s \in Requests \ {r} : CallAlone(s)'
  BY OthersIdle
<1>2. CallAlone(r) /\ SessionsFit
  BY DEF CInv
<1>3. SUFFICES SessionsFit' /\ CallAlone(r)'
  BY <1>1 DEF CInv
<1> USE <1>2, TokenNumbers
    DEF CallAlone, SessionsFit, Fits, Recovering, Persisting, TypeOK,
        Move, SendAt, StepTo, Answered, clientVars, callVars, NoAnswer, Reply
<1>4. CASE Begin(r)
  BY <1>4, SMTT(30) DEF IInv, Begin
<1>5. CASE StartRecovery(r)
  BY <1>5, SMTT(30) DEF IInv, StartRecovery, SameGeneration, EmptyJar
<1>6. CASE JoinRecovery(r)
  BY <1>6, SMTT(30) DEF IInv, JoinRecovery, SameGeneration
<1>7. CASE StartPersist(r)
  BY <1>7, SMTT(30) DEF IInv, StartPersist, SnapshotSession, Sessions
<1>8. CASE PersistNothing(r)
  BY <1>8, SMTT(30) DEF IInv, PersistNothing
<1>9. CASE Return(r)
  BY <1>9, SMTT(30) DEF IInv, Return, Returned
<1>10. CASE ResumeRequest(r) \/ ResumeReplay(r)
  BY <1>10, SMTT(30) DEF IInv, ResumeRequest, ResumeReplay
<1>11. CASE ResumeBootstrap(r) \/ ResendLogin(r)
  BY <1>11, SMTT(30) DEF IInv, ResumeBootstrap, ResendLogin
<1>12. CASE ResumeRecovered(r)
  BY <1>12, SMTT(30) DEF IInv, ResumeRecovered, RecoveredSession
<1>13. CASE RecoveryFails(r)
  BY <1>13, SMTT(30) DEF IInv, RecoveryFails
<1>14. CASE SaveRecovered(r) \/ SavePersist(r)
  BY <1>14, SMTT(30) DEF IInv, SaveRecovered, SavePersist, NewSessions
<1>15. CASE AssignRecovered(r)
  BY <1>15, SMTT(30) DEF IInv, AssignRecovered, Discard, StoreWritten
<1>16. CASE AssignPersist(r)
  BY <1>16, SMTT(30) DEF IInv, AssignPersist, Discard, StoreWritten, NewSessions
<1>17. CASE SaveFails(r)
  BY <1>17, SMTT(30) DEF IInv, SaveFails, Discard
<1>18. QED
  BY <1>4, <1>5, <1>6, <1>7, <1>8, <1>9, <1>10, <1>11, <1>12, <1>13, <1>14, <1>15, <1>16, <1>17
     DEF TakeLock, Resume

(* CInv is preserved while calls do not overlap.                           *)
LEMMA StepFits ==
  HasPassword /\ IInv /\ OneCallAtATime /\ OneCallAtATime' /\ CInv /\ [Next]_vars => CInv'
<1> SUFFICES ASSUME HasPassword, IInv, OneCallAtATime, OneCallAtATime', CInv, [Next]_vars
             PROVE  CInv'
  OBVIOUS
<1>1. CASE Next
  BY <1>1, NetworkFits, ClientFits DEF Next
<1>2. CASE UNCHANGED vars
  BY <1>2 DEF vars, CInv, SessionsFit, CallAlone, Fits
<1>3. QED
  BY <1>1, <1>2

(* For an entry with a password, as long as calls do not overlap, no       *)
(* refresh token is persisted with the cookies of a session it replaced.   *)
THEOREM CookiesKeepUp == ASSUME HasPassword PROVE Spec => CookiesNotOlder
<1>1. CInv => (store.ck.tok = 0 \/ store.ck.tok >= store.tok)
  BY DEF CInv, SessionsFit, Fits
<1>2. IInv /\ OneCallAtATime /\ OneCallAtATime' /\ CInv /\ [Next]_vars => CInv'
  BY StepFits
<1>3. QED
  BY <1>1, <1>2, InitFits, Inductive, PTL DEF Spec, CookiesNotOlder

------------------------------------------------------------------------------
(* Termination.  The stage of a call counts down along the code: request,  *)
(* recovery (bootstrap, login, its one resend, or /sessionCheck; save and  *)
(* assignment), replay, cookie snapshot, result.  Work adds how far the    *)
(* network exchange of the present stage has come.                         *)
Stage(l) == IF l = "request" THEN 11 ELSE IF l = "waitRecover" THEN 10
            ELSE IF l = "bootstrap" THEN 9 ELSE IF l = "login" THEN 8
            ELSE IF l \in {"relogin", "validate"} THEN 7
            ELSE IF l = "saveLogin" THEN 6 ELSE IF l = "assignLogin" THEN 5
            ELSE IF l = "replay" THEN 4 ELSE IF l = "waitPersist" THEN 3
            ELSE IF l = "savePersist" THEN 2 ELSE IF l = "assignPersist" THEN 1
            ELSE 0

Work(l, n) == 4 * Stage(l) + (IF n = "sent" THEN 3 ELSE IF n = "answered" THEN 2
                              ELSE IF n = "arrived" THEN 1 ELSE 0)

OnItsWay(r) == pc[r] \notin {"idle"} \union Returned

(* A call never comes back to where it was: until it returns, a step       *)
(* leaves it in its place or brings it strictly closer to its result.      *)
NeverBack ==
  [][\A r \in Requests : OnItsWay(r) =>
       \/ pc'[r] = pc[r] /\ net'[r] = net[r]
       \/ Work(pc'[r], net'[r]) < Work(pc[r], net[r])]_vars

(* What is left of a call is at most the 47 units it began with.           *)
LEMMA WorkBounded == ASSUME NEW l, NEW n PROVE Work(l, n) \in 0..47
BY DEF Work, Stage

(* A later stage is less work, however far the exchange it starts.         *)
LEMMA LaterStage ==
  ASSUME NEW l, NEW k, NEW m, NEW n, Stage(l) < Stage(k)
  PROVE  Work(l, m) < Work(k, n)
BY DEF Work, Stage

(* One step, seen from a call on its way: Network brings its exchange on,  *)
(* Resume and TakeLock bring it to a later stage, the steps of other calls *)
(* leave it.                                                               *)
LEMMA StepIsForward ==
  ASSUME TypeOK, [Next]_vars, NEW r \in Requests, OnItsWay(r)
  PROVE  \/ pc'[r] = pc[r] /\ net'[r] = net[r]
         \/ Work(pc'[r], net'[r]) < Work(pc[r], net[r])
<1>1. CASE UNCHANGED vars
  BY <1>1 DEF vars
<1>2. ASSUME NEW s \in Requests, Network(s)
      PROVE  /\ pc' = pc
             /\ \/ net[s] = "sent" /\ net' = [net EXCEPT ![s] = "answered"]
                \/ net[s] = "answered" /\ net' = [net EXCEPT ![s] = "arrived"]
  BY <1>2 DEF Network, AnswerProtected, AnswerBootstrap, AnswerLogin, AnswerValidate,
     AnswerUnusable, Deliver, Says
<1>3. ASSUME NEW s \in Requests, Network(s)
      PROVE  \/ pc'[r] = pc[r] /\ net'[r] = net[r]
             \/ Work(pc'[r], net'[r]) < Work(pc[r], net[r])
  <2>1. CASE s = r
    <3>1. /\ pc'[r] = pc[r] /\ Stage(pc[r]) \in 0..11
          /\ \/ net[r] = "sent" /\ net'[r] = "answered"
             \/ net[r] = "answered" /\ net'[r] = "arrived"
      BY <1>2, <1>3, <2>1 DEF TypeOK, Stage
    <3>2. QED
      BY <3>1 DEF Work
  <2>2. CASE s # r
    BY <1>2, <1>3, <2>2 DEF TypeOK
  <2>3. QED
    BY <2>1, <2>2
<1>4. ASSUME NEW s \in Requests, Retry(s) PROVE pc' = pc /\ net' = net
  BY <1>4 DEF Retry
<1>5. ASSUME NEW s \in Requests, Begin(s) \/ Return(s) PROVE s # r
  BY <1>5 DEF Begin, Return, OnItsWay, Returned
<1>6. ASSUME NEW s \in Requests, NEW l \in Locations, StepTo(s, l) \/ SendAt(s, l),
             s # r \/ Stage(l) < Stage(pc[r])
      PROVE  \/ pc'[r] = pc[r] /\ net'[r] = net[r]
             \/ Work(pc'[r], net'[r]) < Work(pc[r], net[r])
  <2>1. CASE s # r
    BY <1>6, <2>1 DEF StepTo, SendAt, Move, TypeOK
  <2>2. CASE s = r /\ Stage(l) < Stage(pc[r])
    <3>1. pc'[r] = l
      BY <1>6, <2>2 DEF StepTo, SendAt, Move, TypeOK
    <3>2. QED
      BY <2>2, <3>1, LaterStage
  <2>3. QED
    BY <1>6, <2>1, <2>2
<1>7. ASSUME NEW s \in Requests, Resume(s) \/ TakeLock(s)
      PROVE  \E l \in Locations : /\ StepTo(s, l) \/ SendAt(s, l)
                                  /\ Stage(l) < Stage(pc[s])
  <2> USE DEF Stage, Locations, Recovering, Persisting, Returned, Answered
  <2>1. CASE TakeLock(s)
    BY <2>1 DEF TakeLock, StartRecovery, JoinRecovery, PersistNothing, StartPersist
  <2>2. CASE ResumeRequest(s)
    BY <2>2 DEF ResumeRequest
  <2>3. CASE ResumeReplay(s)
    BY <2>3 DEF ResumeReplay
  <2>4. CASE ResumeBootstrap(s) \/ ResendLogin(s)
    BY <2>4 DEF ResumeBootstrap, ResendLogin
  <2>5. CASE ResumeRecovered(s)
    BY <2>5 DEF ResumeRecovered
  <2>6. CASE RecoveryFails(s)
    BY <2>6 DEF RecoveryFails
  <2>7. CASE SaveRecovered(s) \/ AssignRecovered(s)
    BY <2>7 DEF SaveRecovered, AssignRecovered
  <2>8. CASE SavePersist(s) \/ AssignPersist(s) \/ SaveFails(s)
    BY <2>8 DEF SavePersist, AssignPersist, SaveFails
  <2>9. QED
    BY <1>7, <2>1, <2>2, <2>3, <2>4, <2>5, <2>6, <2>7, <2>8 DEF Resume
<1>8. ASSUME NEW s \in Requests, Begin(s) \/ Return(s)
      PROVE  \E l \in Locations : StepTo(s, l) \/ SendAt(s, l)
  BY <1>8 DEF Begin, Return, Locations
<1>9. QED
  BY <1>1, <1>3, <1>4, <1>5, <1>6, <1>7, <1>8 DEF Next

(* A protected request comes to its result in a bounded number of steps of *)
(* its own: it recovers at most once, resends the login at most once and   *)
(* replays at most once, whatever KEPCO ON answers and however many calls  *)
(* there are.  With the fairness of the event loop this is why it returns. *)
THEOREM CallsRunOut == Spec => NeverBack
<1>1. TypeOK /\ [Next]_vars =>
        \A r \in Requests : OnItsWay(r) =>
          \/ pc'[r] = pc[r] /\ net'[r] = net[r]
          \/ Work(pc'[r], net'[r]) < Work(pc[r], net[r])
  BY StepIsForward
<1>2. QED
  BY <1>1, TypeCorrect, PTL DEF Spec, NeverBack

(* Nobody waits for a call that waits: who holds the lock is recovering    *)
(* the session or saving it, so the calls at the lock are not deadlocked.  *)
THEOREM HolderIsBusy ==
  Spec => [](lock # Free => /\ lock \in Requests
                            /\ pc[lock] \in Recovering \union Persisting)
<1>1. IInv => (lock # Free => /\ lock \in Requests
                             /\ pc[lock] \in Recovering \union Persisting)
  BY DEF IInv, TypeOK, LockDiscipline, HoldsLock
<1>2. QED
  BY <1>1, Inductive, PTL

(* A call that moves to location l changes its phase to that of l.         *)
LEMMA PhaseStep ==
  ASSUME TypeOK, NEW r \in Requests, NEW l \in Locations,
         StepTo(r, l) \/ SendAt(r, l)
  PROVE  phase' = [phase EXCEPT ![r] = PhaseOf(l)]
BY DEF TypeOK, StepTo, SendAt, Move, phase

(* auth.py implements SessionRenewal: a save of a recovered session is its *)
(* Renew, a replay without one its Join, every way to the result or to the *)
(* cookie snapshot its Settle, and all the rest stutters.                  *)
THEOREM Refinement == Spec => ImplementsRenewal
<1>1. Init => Renewal!Init
  BY DEF Init, Renewal!Init, phase, PhaseOf
<1>2. IInv /\ [Next]_vars => [Renewal!Next]_(Renewal!rvars)
  <2> SUFFICES ASSUME IInv, [Next]_vars
               PROVE  Renewal!Next \/ UNCHANGED <<generation, phase, gen>>
    BY DEF Renewal!rvars
  <2> DEFINE Stutter == UNCHANGED <<generation, phase, gen>>
  <2>1. ASSUME NEW r \in Requests, Network(r) \/ Retry(r) PROVE Stutter
    BY <2>1 DEF Network, AnswerProtected, AnswerBootstrap, AnswerLogin,
       AnswerValidate, AnswerUnusable, Retry, Issues, Deliver, Says, clientVars, callVars, phase
  <2>2. ASSUME NEW r \in Requests, Begin(r) PROVE Renewal!Ask(r)
    <3>1. phase' = [phase EXCEPT ![r] = "asked"]
      BY <2>2, PhaseStep DEF Begin, IInv, Locations, PhaseOf, Persisting, Returned
    <3>2. phase[r] = "idle"
      BY <2>2 DEF Begin, phase, PhaseOf
    <3>3. QED
      BY <2>2, <3>1, <3>2 DEF Begin, Renewal!Ask, Renewal!Move, clientVars
  <2>3. ASSUME NEW r \in Requests, Return(r) PROVE Renewal!Return(r)
    <3>1. phase' = [phase EXCEPT ![r] = "idle"]
      BY <2>3, PhaseStep DEF Return, IInv, Locations, PhaseOf
    <3>2. phase[r] = "settled"
      BY <2>3 DEF Return, phase, PhaseOf, Returned
    <3>3. QED
      BY <2>3, <3>1, <3>2 DEF Return, Renewal!Return, Renewal!Move, clientVars
  <2>4. ASSUME NEW r \in Requests, AssignRecovered(r) PROVE Renewal!Renew(r)
    <3>1. phase' = [phase EXCEPT ![r] = "replayed"]
      BY <2>4, PhaseStep DEF AssignRecovered, IInv, Locations, PhaseOf
    <3>2. phase[r] = "asked" /\ gen[r] = generation
      BY <2>4 DEF AssignRecovered, phase, PhaseOf, IInv, RecoveryIsCurrent,
                  Recovering, Persisting, Returned
    <3>3. QED
      BY <2>4, <3>1, <3>2 DEF AssignRecovered, Renewal!Renew, Renewal!Move
  <2>5. ASSUME NEW r \in Requests, JoinRecovery(r) PROVE Renewal!Join(r)
    <3>1. phase' = [phase EXCEPT ![r] = "replayed"]
      BY <2>5, PhaseStep DEF JoinRecovery, IInv, Locations, PhaseOf
    <3>2. phase[r] = "asked"
      BY <2>5 DEF JoinRecovery, phase, PhaseOf, Persisting, Returned
    <3>3. gen[r] < generation
      BY <2>5 DEF JoinRecovery, SameGeneration, IInv, TypeOK, GenerationKnown
    <3>4. QED
      BY <2>5, <3>1, <3>2, <3>3 DEF JoinRecovery, Renewal!Join, Renewal!Move, clientVars
  <2>6. ASSUME NEW r \in Requests, NEW l \in Locations, StepTo(r, l) \/ SendAt(r, l),
               UNCHANGED <<generation, gen>>,
               \/ PhaseOf(l) = PhaseOf(pc[r])
               \/ PhaseOf(pc[r]) \in {"asked", "replayed"} /\ PhaseOf(l) = "settled"
        PROVE  Renewal!Settle(r) \/ Stutter
    <3>1. phase' = [phase EXCEPT ![r] = PhaseOf(l)] /\ phase[r] = PhaseOf(pc[r])
      BY <2>6, PhaseStep DEF IInv, phase
    <3>2. CASE PhaseOf(l) = PhaseOf(pc[r])
      BY <2>6, <3>1, <3>2 DEF phase
    <3>3. CASE PhaseOf(pc[r]) \in {"asked", "replayed"} /\ PhaseOf(l) = "settled"
      BY <2>6, <3>1, <3>3 DEF Renewal!Settle, Renewal!Move
    <3>4. QED
      BY <2>6, <3>2, <3>3
  <2>7. ASSUME NEW r \in Requests,
               \/ StartRecovery(r) \/ PersistNothing(r) \/ StartPersist(r)
               \/ Resume(r) /\ ~AssignRecovered(r)
        PROVE  Renewal!Settle(r) \/ Stutter
    <3>1. UNCHANGED <<generation, gen>>
      BY <2>7 DEF StartRecovery, PersistNothing, StartPersist, Resume, ResumeRequest,
         ResumeReplay, ResumeBootstrap, ResendLogin, ResumeRecovered, RecoveryFails,
         SaveRecovered, SavePersist, AssignPersist, SaveFails, clientVars, callVars
    <3>2. \E l \in Locations :
            /\ StepTo(r, l) \/ SendAt(r, l)
            /\ \/ PhaseOf(l) = PhaseOf(pc[r])
               \/ PhaseOf(pc[r]) \in {"asked", "replayed"} /\ PhaseOf(l) = "settled"
      BY <2>7, SMTT(60) DEF StartRecovery, PersistNothing, StartPersist, Resume,
         ResumeRequest, ResumeReplay, ResumeBootstrap, ResendLogin, ResumeRecovered,
         RecoveryFails, SaveRecovered, SavePersist, AssignPersist, SaveFails, Answered,
         PhaseOf, Locations, Recovering, Persisting, Returned
    <3>3. QED
      BY <2>6, <3>1, <3>2
  <2>8. QED
    BY <2>1, <2>2, <2>3, <2>4, <2>5, <2>7
       DEF Next, vars, TakeLock, phase, Renewal!Next
<1>3. QED
  BY <1>1, <1>2, Inductive, PTL DEF Spec, ImplementsRenewal, Renewal!Spec

(* What SessionRenewal gives its users, whoever implements it: a call that *)
(* replays has seen an epoch that is over.                                 *)
EpochsSeen == /\ generation \in Nat /\ gen \in [Requests -> Nat]
              /\ phase \in [Requests -> {"idle", "asked", "replayed", "settled"}]
              /\ \A r \in Requests :
                   /\ phase[r] = "asked" => gen[r] <= generation
                   /\ phase[r] = "replayed" => gen[r] < generation

(* From the abstract specification alone.                                  *)
LEMMA RenewalPromise == Renewal!Spec => []EpochsSeen
<1>1. Renewal!Init => EpochsSeen
  BY DEF Renewal!Init, EpochsSeen
<1>2. EpochsSeen /\ [Renewal!Next]_(Renewal!rvars) => EpochsSeen'
  <2> SUFFICES ASSUME EpochsSeen, [Renewal!Next]_(Renewal!rvars) PROVE EpochsSeen'
    OBVIOUS
  <2> HIDE DEF phase
  <2>1. ASSUME NEW r \in Requests,
               \/ Renewal!Ask(r) \/ Renewal!Renew(r) \/ Renewal!Join(r)
               \/ Renewal!Settle(r) \/ Renewal!Return(r)
        PROVE  EpochsSeen'
    BY <2>1 DEF EpochsSeen, Renewal!Ask, Renewal!Renew, Renewal!Join, Renewal!Settle,
                Renewal!Return, Renewal!Move
  <2>2. CASE UNCHANGED Renewal!rvars
    BY <2>2 DEF EpochsSeen, Renewal!rvars
  <2>3. QED
    BY <2>1, <2>2 DEF Renewal!Next
<1>3. QED
  BY <1>1, <1>2, PTL DEF Renewal!Spec

(* A request is replayed only under a generation later than the one it     *)
(* first used: never with the session KEPCO ON has just refused it for.    *)
THEOREM ReplaysAreLater ==
  Spec => [](\A r \in Requests : pc[r] = "replay" => gen[r] < generation)
<1>1. EpochsSeen => \A r \in Requests : pc[r] = "replay" => gen[r] < generation
  BY DEF EpochsSeen, phase, PhaseOf
<1>2. QED
  BY <1>1, Refinement, RenewalPromise, PTL DEF ImplementsRenewal

===============================================================================
