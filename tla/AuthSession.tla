----------------------------- MODULE AuthSession -----------------------------
(***************************************************************************)
(* KepcoOnAuth (auth.py): one refresh token, one cookie jar and one        *)
(* persisted session shared by every concurrent protected request of a     *)
(* config entry (the coordinator's poll, service calls, the reconfigure    *)
(* flow).                                                                  *)
(*                                                                         *)
(* A step is what one coroutine does between two awaits.  A network        *)
(* exchange is four of them: the request is sent, KEPCO ON answers, the    *)
(* answer's Set-Cookie reaches the shared jar, and the coroutine that      *)
(* waits for the body resumes; other coroutines run in between.            *)
(***************************************************************************)
EXTENDS Naturals

CONSTANTS
  Requests,       \* concurrent async_protected_request calls
  Free,           \* the value of the lock nobody holds
  HasPassword,    \* whether the entry keeps a password for reauthentication
  StoreMayFail,   \* whether SessionStore.async_save may raise
  MaxTokens,      \* bound: refresh tokens KEPCO ON issues
  MaxRotation,    \* bound: distinct cookie values per refresh token
  MaxGeneration   \* bound: generations a passwordless entry goes through

ASSUME FreeAssumption == Free \notin Requests
ASSUME ModeAssumption == /\ HasPassword \in BOOLEAN
                         /\ StoreMayFail \in BOOLEAN
ASSUME BoundsAssumption == /\ MaxTokens \in Nat \ {0}
                           /\ MaxRotation \in Nat
                           /\ MaxGeneration \in Nat

VARIABLES
  current,     \* _current_session: its refresh token and cookie snapshot
  store,       \* the session SessionStore holds
  generation,  \* _generation
  jar,         \* the cookies of the aiohttp CookieJar
  lock,        \* _auth_lock: the call that holds it, or Free
  pc,          \* where each call is
  net,         \* the state of each call's network exchange
  tok,         \* the refresh token each call read before its first await
  gen,         \* the generation each call read before its first await
  answer,      \* KEPCO ON's last answer to each call
  pending,     \* the session each call is about to save
  issued       \* number of refresh tokens KEPCO ON has issued

clientVars == <<current, store, generation, lock>>
callVars   == <<tok, gen, pending>>
vars == <<current, store, generation, jar, lock, pc, net, tok, gen, answer,
          pending, issued>>

------------------------------------------------------------------------------
(* Data.  Token n is the n-th one issued; a cookie value belongs to the    *)
(* token of the session it was set for, token 0 being the anonymous        *)
(* visitor's.  EmptyJar doubles as "the answer sets no cookie".            *)

Tokens   == 0..MaxTokens
Cookies  == [tok : Tokens, rot : 0..MaxRotation]
Sessions == [tok : Tokens, ck : Cookies]

EmptyJar      == [tok |-> 0, rot |-> 0]
NoSession     == [tok |-> 0, ck |-> EmptyJar]
CookiesOf(t)  == {EmptyJar} \union [tok : {t}, rot : 0..MaxRotation]

Kinds   == {"none", "ok", "expired", "no", "empty", "failed"}
Answers == [kind : Kinds, tok : Tokens, cookie : Cookies]
Reply(kind, t, c) == [kind |-> kind, tok |-> t, cookie |-> c]
NoAnswer == Reply("none", 0, EmptyJar)

(* The calls that hold _auth_lock, and those recovering the session.       *)
Recovering == {"bootstrap", "login", "relogin", "validate", "saveLogin",
               "assignLogin"}
Persisting == {"savePersist", "assignPersist"}
Returned   == {"ok", "authFailed", "failed"}
Locations  == Recovering \union Persisting \union Returned \union
              {"idle", "request", "waitRecover", "replay", "waitPersist"}

Init ==
  /\ current \in [tok : {1}, ck : {EmptyJar, [tok |-> 1, rot |-> 0]}]
  /\ store = current
  /\ generation = 0
  /\ jar = current.ck
  /\ lock = Free
  /\ pc = [r \in Requests |-> "idle"]
  /\ net = [r \in Requests |-> "quiet"]
  /\ tok = [r \in Requests |-> 0]
  /\ gen = [r \in Requests |-> 0]
  /\ answer = [r \in Requests |-> NoAnswer]
  /\ pending = [r \in Requests |-> NoSession]
  /\ issued = 1

------------------------------------------------------------------------------
(* Moving a call: to a point where it sends a request, or elsewhere.       *)

Move(r, l, n) == /\ pc' = [pc EXCEPT ![r] = l]
                 /\ net' = [net EXCEPT ![r] = n]
                 /\ answer' = [answer EXCEPT ![r] = NoAnswer]

SendAt(r, l) == Move(r, l, "sent")
StepTo(r, l) == Move(r, l, "quiet")

Answered(r, l, kind) == /\ pc[r] = l
                        /\ net[r] = "arrived"
                        /\ answer[r].kind = kind

(* KEPCO ON and the transport, seen from auth.py.  "failed" is every       *)
(* connection, rate limit or protocol error.  Nothing is assumed about     *)
(* when the server accepts a token.  An answer of any kind may set cookies *)
(* and one that cannot be used may have issued a token all the same.       *)

Says(r, kind, t, c) ==
  /\ net[r] = "sent"
  /\ answer' = [answer EXCEPT ![r] = Reply(kind, t, c)]
  /\ net' = [net EXCEPT ![r] = "answered"]
  /\ UNCHANGED <<clientVars, callVars, jar, pc>>

AnswerProtected(r) ==
  /\ pc[r] \in {"request", "replay"}
  /\ \/ \E kind \in {"ok", "failed"}, c \in CookiesOf(tok[r]) : Says(r, kind, 0, c)
     \/ \E c \in CookiesOf(0) : Says(r, "expired", 0, c)
  /\ UNCHANGED issued

AnswerBootstrap(r) ==
  /\ pc[r] = "bootstrap"
  /\ \E kind \in {"ok", "failed"}, c \in CookiesOf(0) : Says(r, kind, 0, c)
  /\ UNCHANGED issued

(* KEPCO ON issues the next token, or none: t is that token or 0.          *)
Issues(t) == \/ t = 0 /\ UNCHANGED issued
             \/ t = issued + 1 /\ t <= MaxTokens /\ issued' = t

AnswerLogin(r) ==
  /\ pc[r] \in {"login", "relogin"}
  /\ Issues(issued + 1)
  /\ Says(r, "ok", issued + 1, [tok |-> issued + 1, rot |-> 0])

(* /sessionCheck rotates the refresh token or confirms it as it is.        *)
AnswerValidate(r) ==
  /\ pc[r] = "validate"
  /\ generation < MaxGeneration
  /\ \/ /\ Issues(issued + 1)
        /\ \E c \in CookiesOf(issued + 1) : Says(r, "ok", issued + 1, c)
     \/ /\ Says(r, "ok", current.tok, EmptyJar)
        /\ UNCHANGED issued

(* A refusal (NO, a 401, a 403 or a login page), an empty body, or an       *)
(* answer that was lost or unreadable.                                     *)
AnswerUnusable(r) ==
  /\ pc[r] \in {"login", "relogin", "validate"}
  /\ \E t \in {0, issued + 1} :
       /\ Issues(t)
       /\ \E kind \in {"no", "empty", "failed"}, c \in CookiesOf(t) :
            Says(r, kind, 0, c)

(* The transport tries again after a time-out or a temporary status: what  *)
(* the attempt did at KEPCO ON, and its cookies if the headers came, stay. *)
Retry(r) ==
  /\ net[r] = "sent"
  /\ pc[r] # "bootstrap"
  /\ \E t \in {0, issued + 1} :
       /\ Issues(t)
       /\ t # 0 => pc[r] \in {"login", "relogin", "validate"}
       /\ \E c \in CookiesOf(t) \union CookiesOf(tok[r]) :
            jar' = IF c = EmptyJar THEN jar ELSE c
  /\ UNCHANGED <<clientVars, callVars, pc, net, answer>>

(* aiohttp applies Set-Cookie before the body is read.                     *)
Deliver(r) ==
  /\ net[r] = "answered"
  /\ net' = [net EXCEPT ![r] = "arrived"]
  /\ jar' = IF answer[r].cookie = EmptyJar THEN jar ELSE answer[r].cookie
  /\ UNCHANGED <<clientVars, callVars, pc, answer, issued>>

------------------------------------------------------------------------------
(* async_protected_request                                                 *)

Begin(r) ==
  /\ pc[r] = "idle"
  /\ tok' = [tok EXCEPT ![r] = current.tok]
  /\ gen' = [gen EXCEPT ![r] = generation]
  /\ SendAt(r, "request")
  /\ UNCHANGED <<clientVars, jar, pending, issued>>

ResumeRequest(r) ==
  /\ \/ Answered(r, "request", "ok")      /\ StepTo(r, "waitPersist")
     \/ Answered(r, "request", "expired") /\ StepTo(r, "waitRecover")
     \/ Answered(r, "request", "failed")  /\ StepTo(r, "failed")
  /\ UNCHANGED <<clientVars, callVars, jar, issued>>

(* The generation is the one the call saw: it takes the lock and recovers, *)
(* by a login that first empties the jar, or by /sessionCheck.             *)
\* Mutant: the generation check after the lock is forgotten.
BugAnyGeneration(r) == TRUE

SameGeneration(r) == generation = gen[r]

StartRecovery(r) ==
  /\ pc[r] = "waitRecover"
  /\ lock = Free
  /\ SameGeneration(r)
  /\ lock' = r
  /\ \/ HasPassword  /\ jar' = EmptyJar /\ SendAt(r, "bootstrap")
     \/ ~HasPassword /\ UNCHANGED jar   /\ SendAt(r, "validate")
  /\ UNCHANGED <<current, store, generation, callVars, issued>>

(* Somebody else recovered the session meanwhile: the lock is taken and    *)
(* given back without a suspension and the request is replayed.            *)
JoinRecovery(r) ==
  /\ pc[r] = "waitRecover"
  /\ lock = Free
  /\ ~SameGeneration(r)
  /\ tok' = [tok EXCEPT ![r] = current.tok]
  /\ SendAt(r, "replay")
  /\ UNCHANGED <<clientVars, jar, gen, pending, issued>>

\* Mutant: a replay that is refused recovers once more.
BugRecoverAgain(r) ==
  /\ \/ Answered(r, "replay", "ok")      /\ StepTo(r, "waitPersist")
     \/ Answered(r, "replay", "expired") /\ StepTo(r, "waitRecover")
     \/ Answered(r, "replay", "failed")  /\ StepTo(r, "failed")
  /\ UNCHANGED <<clientVars, callVars, jar, issued>>

ResumeReplay(r) ==
  /\ \/ Answered(r, "replay", "ok")      /\ StepTo(r, "waitPersist")
     \/ Answered(r, "replay", "expired") /\ StepTo(r, "authFailed")
     \/ Answered(r, "replay", "failed")  /\ StepTo(r, "failed")
  /\ UNCHANGED <<clientVars, callVars, jar, issued>>

Return(r) ==
  /\ pc[r] \in Returned
  /\ StepTo(r, "idle")
  /\ tok' = [tok EXCEPT ![r] = 0]
  /\ gen' = [gen EXCEPT ![r] = 0]
  /\ UNCHANGED <<clientVars, jar, pending, issued>>

------------------------------------------------------------------------------
(* _async_login_unlocked and async_validate_session, under the lock        *)

ResumeBootstrap(r) ==
  /\ Answered(r, "bootstrap", "ok")
  /\ SendAt(r, "login")
  /\ UNCHANGED <<clientVars, callVars, jar, issued>>

(* An empty answer is asked for once more, and only once.                  *)
\* Mutant: it is asked for again and again.
BugResendForever(r) ==
  /\ Answered(r, "login", "empty")
  /\ SendAt(r, "login")
  /\ UNCHANGED <<clientVars, callVars, jar, issued>>

ResendLogin(r) ==
  /\ Answered(r, "login", "empty")
  /\ SendAt(r, "relogin")
  /\ UNCHANGED <<clientVars, callVars, jar, issued>>

(* The recovered session pairs the token of the answer with the cookies    *)
(* the jar holds when the coroutine resumes.                               *)
\* Mutant: the new token keeps the cookies of the session it replaces.
BugKeepCookies(r) == [tok |-> answer[r].tok, ck |-> current.ck]

RecoveredSession(r) == [tok |-> answer[r].tok, ck |-> jar]

ResumeRecovered(r) ==
  /\ \E l \in {"login", "relogin", "validate"} : Answered(r, l, "ok")
  /\ pending' = [pending EXCEPT ![r] = RecoveredSession(r)]
  /\ StepTo(r, "saveLogin")
  /\ UNCHANGED <<clientVars, jar, tok, gen, issued>>

\* Mutant: a rejected /sessionCheck is not an error but tried again.
BugRetryRejected(r) ==
  /\ \E kind \in {"no", "empty", "failed"} : Answered(r, "validate", kind)
  /\ SendAt(r, "validate")
  /\ UNCHANGED <<clientVars, callVars, jar, issued>>

RecoveryFails(r) ==
  /\ \/ /\ \/ Answered(r, "bootstrap", "failed")
           \/ Answered(r, "login", "failed")
           \/ Answered(r, "relogin", "failed")
           \/ Answered(r, "relogin", "empty")
           \/ Answered(r, "validate", "failed")
        /\ StepTo(r, "failed")
     \/ /\ \/ \E l \in {"login", "relogin", "validate"} : Answered(r, l, "no")
           \/ Answered(r, "validate", "empty")
        /\ StepTo(r, "authFailed")
  /\ lock' = Free
  /\ UNCHANGED <<current, store, generation, callVars, jar, issued>>

(* _save_current_session of a recovery: the store is written first; then   *)
(* the session and the generation change, the lock is released and the     *)
(* request is replayed, all without a suspension.                          *)
Discard(r) == pending' = [pending EXCEPT ![r] = NoSession]

SaveRecovered(r) ==
  /\ pc[r] = "saveLogin"
  /\ store' = pending[r]
  /\ StepTo(r, "assignLogin")
  /\ UNCHANGED <<current, generation, lock, callVars, jar, issued>>

AssignRecovered(r) ==
  /\ pc[r] = "assignLogin"
  /\ current' = pending[r]
  /\ generation' = generation + 1
  /\ lock' = Free
  /\ tok' = [tok EXCEPT ![r] = pending[r].tok]
  /\ SendAt(r, "replay")
  /\ Discard(r)
  /\ UNCHANGED <<store, gen, jar, issued>>

------------------------------------------------------------------------------
(* _async_persist_cookie_snapshot                                          *)

PersistNothing(r) ==
  /\ pc[r] = "waitPersist"
  /\ lock = Free
  /\ jar = current.ck
  /\ StepTo(r, "ok")
  /\ UNCHANGED <<clientVars, callVars, jar, issued>>

(* The session whose cookies are replaced is re-read under the lock.       *)
\* Mutant: the cookies are put on the session the call started with.
BugOldSession(r) == [tok |-> tok[r], ck |-> jar]

SnapshotSession(r) == [current EXCEPT !.ck = jar]

\* Mutant: the cookie snapshot is saved without taking the lock.
BugPersistUnlocked(r) ==
  /\ pc[r] = "waitPersist"
  /\ jar # current.ck
  /\ pending' = [pending EXCEPT ![r] = SnapshotSession(r)]
  /\ StepTo(r, "savePersist")
  /\ UNCHANGED <<current, store, generation, lock, jar, tok, gen, issued>>

StartPersist(r) ==
  /\ pc[r] = "waitPersist"
  /\ lock = Free
  /\ jar # current.ck
  /\ lock' = r
  /\ pending' = [pending EXCEPT ![r] = SnapshotSession(r)]
  /\ StepTo(r, "savePersist")
  /\ UNCHANGED <<current, store, generation, jar, tok, gen, issued>>

SavePersist(r) ==
  /\ pc[r] = "savePersist"
  /\ store' = pending[r]
  /\ StepTo(r, "assignPersist")
  /\ UNCHANGED <<current, generation, lock, callVars, jar, issued>>

AssignPersist(r) ==
  /\ pc[r] = "assignPersist"
  /\ current' = pending[r]
  /\ lock' = Free
  /\ StepTo(r, "ok")
  /\ Discard(r)
  /\ UNCHANGED <<store, generation, tok, gen, jar, issued>>

(* The store raises: nothing is assigned and the error leaves the request. *)
SaveFails(r) ==
  /\ StoreMayFail
  /\ pc[r] \in {"saveLogin", "savePersist"}
  /\ lock' = Free
  /\ StepTo(r, "failed")
  /\ Discard(r)
  /\ UNCHANGED <<current, store, generation, tok, gen, jar, issued>>

------------------------------------------------------------------------------
TakeLock(r) == StartRecovery(r) \/ JoinRecovery(r) \/ PersistNothing(r)
               \/ StartPersist(r)

Network(r) == AnswerProtected(r) \/ AnswerBootstrap(r) \/ AnswerLogin(r)
              \/ AnswerValidate(r) \/ AnswerUnusable(r) \/ Deliver(r)

Resume(r) == ResumeRequest(r) \/ ResumeReplay(r) \/ ResumeBootstrap(r)
             \/ ResendLogin(r) \/ ResumeRecovered(r) \/ RecoveryFails(r)
             \/ SaveRecovered(r) \/ AssignRecovered(r) \/ SavePersist(r)
             \/ AssignPersist(r) \/ SaveFails(r)

Next == \E r \in Requests :
          \/ Begin(r) \/ Network(r) \/ Retry(r) \/ Resume(r) \/ TakeLock(r)
          \/ Return(r)

Spec == Init /\ [][Next]_vars

(* Every exchange ends (each attempt has a total timeout and there are at  *)
(* most three, see Transport), so Retry is not for ever; a coroutine whose *)
(* await completed is resumed by the event loop; asyncio.Lock wakes its    *)
(* waiters first in, first out, so no waiter is overtaken for ever.  No    *)
(* fairness on Begin, nor on Return, which is the caller's.                *)
Fairness == \A r \in Requests : /\ WF_vars(Network(r))
                                /\ WF_vars(Resume(r))
                                /\ SF_vars(TakeLock(r))

FairSpec == Spec /\ Fairness

------------------------------------------------------------------------------
(* Properties                                                              *)

TypeOK ==
  /\ current \in Sessions
  /\ store \in Sessions
  /\ generation \in Nat
  /\ jar \in Cookies
  /\ lock \in Requests \union {Free}
  /\ pc \in [Requests -> Locations]
  /\ net \in [Requests -> {"quiet", "sent", "answered", "arrived"}]
  /\ tok \in [Requests -> Tokens]
  /\ gen \in [Requests -> Nat]
  /\ answer \in [Requests -> Answers]
  /\ pending \in [Requests -> Sessions]
  /\ issued \in Tokens

(* A recovery throws away exactly the session KEPCO ON refused: an expiry  *)
(* verdict that arrives after somebody else logged in again never costs    *)
(* the new session (the generation check of async_protected_request).      *)
RecoveryTargetsRefusedSession ==
  \A r \in Requests : pc[r] \in Recovering => tok[r] = current.tok

(* The persisted session is the one in use, except while the call that     *)
(* holds the lock has written the store and not yet assigned it.           *)
StoreMatchesCurrent ==
  \/ store = current
  \/ /\ lock # Free
     /\ pc[lock] \in {"assignLogin", "assignPersist"}
     /\ store = pending[lock]

OneCallAtATime ==
  \A r, s \in Requests : pc[r] # "idle" /\ pc[s] # "idle" => r = s

(* As long as calls of an entry with a password do not overlap, a refresh  *)
(* token is never persisted with the cookies of a session it replaced (a   *)
(* /sessionCheck may rotate the token of one without a password and set no *)
(* cookie, so that it keeps its old ones).  They belong to the token's     *)
(* own session, to nobody (a login that failed had emptied the jar), or to *)
(* a later one, whose token was lost with the login's answer while its     *)
(* cookies had arrived: the next recovery replaces both.                   *)
CookiesNotOlder ==
  []OneCallAtATime => [](store.ck.tok = 0 \/ store.ck.tok >= store.tok)

(* No step brings an older refresh token back, in memory or in the store:  *)
(* a cookie snapshot saved by a slow request does not undo a recovery.     *)
SessionNeverReverts == [][ /\ current'.tok >= current.tok
                           /\ store'.tok >= store.tok ]_vars

(* Every protected request returns, whoever holds the lock and whatever    *)
(* KEPCO ON answers.                                                       *)
EveryCallReturns ==
  \A r \in Requests : pc[r] # "idle" ~> pc[r] \in Returned

------------------------------------------------------------------------------
(* The inductive invariant behind the safety properties.                   *)

HoldsLock(r) == pc[r] \in Recovering \union Persisting

(* The calls inside the two `async with self._auth_lock` blocks hold it.   *)
LockDiscipline == \A r \in Requests : HoldsLock(r) <=> lock = r

(* A call whose first request was refused either saw the present           *)
(* generation, whose token is the present one, or an earlier generation.   *)
GenerationKnown ==
  \A r \in Requests :
    pc[r] \in {"request", "waitRecover"} \union Recovering =>
      /\ gen[r] <= generation
      /\ gen[r] = generation => tok[r] = current.tok

(* Nobody changes the generation under a call that recovers.               *)
RecoveryIsCurrent ==
  \A r \in Requests : pc[r] \in Recovering => gen[r] = generation

(* Replacement sessions are no older than the one they replace.            *)
NewSessions ==
  /\ current.tok <= issued
  /\ \A r \in Requests :
       /\ pc[r] \in {"login", "relogin", "validate"} /\ answer[r].kind = "ok"
            => answer[r].tok >= current.tok /\ answer[r].tok <= issued
       /\ pc[r] \in {"saveLogin", "assignLogin"}
            => pending[r].tok >= current.tok /\ pending[r].tok <= issued
       /\ pc[r] \in Persisting => pending[r].tok = current.tok

StoreWritten == \A r \in Requests :
                  pc[r] \in {"assignLogin", "assignPersist"} => store = pending[r]

(* The strengthening that a step preserves: every part is needed by the    *)
(* preservation of another.                                                *)
IInv == /\ TypeOK
        /\ LockDiscipline
        /\ GenerationKnown
        /\ RecoveryIsCurrent
        /\ NewSessions
        /\ StoreWritten
        /\ StoreMatchesCurrent

------------------------------------------------------------------------------
(* What a caller may rely on: one renewal per generation, shared by all.   *)

PhaseOf(l) == IF l = "idle" THEN "idle"
              ELSE IF l = "replay" THEN "replayed"
              ELSE IF l \in {"waitPersist"} \union Persisting \union Returned
                   THEN "settled" ELSE "asked"

phase == [r \in Requests |-> PhaseOf(pc[r])]

Renewal == INSTANCE SessionRenewal
             WITH epoch <- generation, phase <- phase, seen <- gen

(* auth.py implements SessionRenewal: concurrent expiries of one session   *)
(* cost one successful recovery, and every call replays at most once,      *)
(* under a generation later than the one it first used.                    *)
ImplementsRenewal == Renewal!Spec

=============================================================================
