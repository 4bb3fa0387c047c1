------------------------------ MODULE SetupEntry ------------------------------
(***************************************************************************)
(* async_setup_entry and async_unload_entry (__init__.py): the life of one *)
(* config entry, from the session a flow handed over through restoring,    *)
(* validating and renewing it, checking the account and the first refresh  *)
(* to a loaded entry, with every early exit, the repair issues, and        *)
(* crashes of Home Assistant in between.                                   *)
(*                                                                         *)
(* A session is a login and the number of times its refresh token was      *)
(* rotated since.  The entry's data reaches the disk some time after it    *)
(* changed (Home Assistant delays that write); the session store writes    *)
(* before async_save returns.                                              *)
(***************************************************************************)
EXTENDS Naturals

CONSTANTS
  HasPassword,   \* whether the entry's data holds a password
  MayCrash,      \* whether Home Assistant may stop without unloading
  MayOutlive,    \* whether a request may outlive the unload of its entry
  MayOverlap,    \* whether a flow may end while a handoff is being saved
  MayCancel,     \* whether Home Assistant may cancel a setup
  MaxLogins,     \* bound: sessions KEPCO ON opens
  MaxRotations   \* bound: rotations of one session's refresh token

ASSUME SetupAssumption == /\ HasPassword \in BOOLEAN
                          /\ {MayCrash, MayOutlive, MayOverlap, MayCancel} \subseteq BOOLEAN
                          /\ MaxLogins \in Nat \ {0}
                          /\ MaxRotations \in Nat

VARIABLES
  pc,          \* the point of the setup, or "idle"
  outcome,     \* how the last setup ended
  handoff,     \* CONF_SESSION_HANDOFF in the entry's data
  diskHandoff, \* the same, as last written to disk
  kept,        \* history: the newest handed-over login the store received
  asked,       \* whether a reauthentication flow is open
  store,       \* what the session store holds
  session,     \* KepcoOnAuth._current_session
  http,        \* the entry's ClientSession
  runtime,     \* whether entry.runtime_data is set
  issues,      \* the repair issues of the entry
  logins,      \* logins attempted by this setup before its first refresh
  rejected,    \* whether KEPCO ON answered one of them with "NO"
  refusals,    \* how many of them it answered with "NO", 401, 403 or a login page
  resume,      \* where the setup goes on after a login
  opened,      \* number of sessions KEPCO ON has opened
  late         \* the session of a request that outlived its entry

vars == <<pc, outcome, handoff, diskHandoff, kept, asked, store, session, http,
          runtime, issues, logins, rejected, refusals, resume, opened, late>>
data == <<handoff, diskHandoff, kept>>
counts == <<logins, rejected, refusals>>
auth == <<store, session, counts, resume, opened>>

Sessions  == [login : 0..MaxLogins, rot : 0..MaxRotations, form : {"good", "legacy"}]
Session(l, r) == [login |-> l, rot |-> r, form |-> "good"]
None      == [login |-> 0, rot |-> 0, form |-> "good"]
Corrupt   == [login |-> 0, rot |-> 0, form |-> "corrupt"]
Malformed == [login |-> 0, rot |-> 0, form |-> "malformed"]

SetupIssues == {"login_schema_changed", "customer_schema_changed",
                "unsupported_account", "session_restore_failed"}
Outcomes == {"none", "loaded", "retry", "reauth", "error", "unloaded", "cancelled",
             "stuck"}
Running == outcome \in {"loaded", "stuck"}
Steps == {"handoff", "scrub", "restore", "validate", "login", "account", "accountReplay",
          "recheck", "recheckReplay", "revalidate", "customers", "refresh",
          "forward"}

(* A new entry carries the session of the flow that created it; an old one *)
(* has whatever an earlier release left in the store.                      *)
Init ==
  /\ pc = "idle"
  /\ outcome = "none"
  /\ \/ /\ handoff \in {Session(1, 0), Malformed}
        /\ store = None
     \/ /\ handoff = None
        /\ store \in {None, Corrupt, Session(1, 0),
                      [Session(1, 0) EXCEPT !.form = "legacy"]}
  /\ diskHandoff = handoff
  /\ kept = 0
  /\ asked = FALSE
  /\ session = None
  /\ http = "none"
  /\ runtime = FALSE
  /\ issues = {}
  /\ logins = 0
  /\ rejected = FALSE
  /\ refusals = 0
  /\ resume = "account"
  /\ opened = 1
  /\ late = None

------------------------------------------------------------------------------
Goto(l) == /\ pc' = l
           /\ UNCHANGED <<outcome, asked, http, runtime, issues>>

\* Mutant: the error path keeps the client session attached.
BugKeepSession == /\ http' = http
                  /\ runtime' = IF pc = "forward" THEN FALSE ELSE runtime

(* The error path of async_setup_entry: issue, runtime (if this setup      *)
(* assigned it), session, mapping; ConfigEntryAuthFailed opens a flow.     *)
EndSetup == /\ http' = "detached"
            /\ runtime' = IF pc = "forward" THEN FALSE ELSE runtime

Fail(how, new) ==
  /\ pc' = "idle"
  /\ outcome' = how
  /\ issues' = issues \union new
  /\ asked' = IF how = "reauth" THEN TRUE ELSE asked
  /\ EndSetup

(* A CancelledError is no Exception: it leaves the setup as it stands.     *)
Cancelled ==
  /\ MayCancel
  /\ pc # "idle"
  /\ pc' = "idle"
  /\ outcome' = "cancelled"
  /\ UNCHANGED <<data, auth, asked, http, runtime, issues>>

StartSetup ==
  /\ pc = "idle"
  /\ ~Running
  /\ pc' = "handoff"
  /\ outcome' = "none"
  /\ http' = "open"
  /\ session' = None
  /\ logins' = 0
  /\ rejected' = FALSE
  /\ refusals' = 0
  /\ resume' = "account"
  /\ UNCHANGED <<data, asked, store, runtime, issues, opened>>

(* _consume_session_handoff                                                *)
NoHandoff == /\ pc = "handoff"
             /\ handoff = None
             /\ Goto("restore")
             /\ UNCHANGED <<data, auth>>

HandoffFails ==
  /\ pc = "handoff"
  /\ handoff # None      \* malformed, or the store raises
  /\ Fail("error", {"session_restore_failed"})
  /\ UNCHANGED <<data, auth>>

Handed(h) == h \notin {None, Malformed}
Newer(n)  == IF n > kept THEN n ELSE kept

\* Mutant: the handoff is scrubbed before it is saved.
BugScrubFirst ==
  /\ pc = "handoff"
  /\ Handed(handoff)
  /\ handoff' = None
  /\ \/ store' = handoff /\ kept' = Newer(handoff.login) /\ Goto("scrub")
     \/ UNCHANGED <<store, kept>> /\ Fail("error", {"session_restore_failed"})
  /\ UNCHANGED <<diskHandoff, session, counts, resume, opened>>

(* async_save returns once the session is on disk.                         *)
SaveHandoff ==
  /\ pc = "handoff"
  /\ Handed(handoff)
  /\ store' = handoff
  /\ kept' = Newer(handoff.login)
  /\ Goto("scrub")
  /\ UNCHANGED <<handoff, diskHandoff, session, counts, resume, opened>>

\* Mutant: the handoff stays in the entry's data.
BugKeepHandoff ==
  /\ pc = "scrub"
  /\ Goto("restore")
  /\ UNCHANGED <<data, auth>>

(* Whatever handoff the entry's data holds by now is taken out of it.      *)
ScrubHandoff ==
  /\ pc = "scrub"
  /\ handoff' = None
  /\ Goto("restore")
  /\ UNCHANGED <<diskHandoff, kept, auth>>

------------------------------------------------------------------------------
(* _ensure_authenticated                                                   *)

(* async_reset_session, then async_reauthenticate: the store is cleared    *)
(* before the login.                                                       *)
CleanLogin(next) ==
  /\ store' = None
  /\ session' = None
  /\ resume' = next
  /\ Goto("login")

Restored == store \notin {None, Corrupt}

RestoreValid ==
  /\ pc = "restore"
  /\ Restored /\ store.form = "good"
  /\ session' = store
  /\ Goto("validate")
  /\ UNCHANGED <<data, store, counts, resume, opened>>

(* A payload that cannot be read, or a session without cookies.            *)
RestoreUnusable ==
  /\ pc = "restore"
  /\ store = Corrupt \/ (Restored /\ store.form = "legacy")
  /\ \/ HasPassword /\ CleanLogin("account")
     \/ /\ ~HasPassword
        /\ Fail("reauth", {"session_restore_failed"})
        /\ session' = IF Restored THEN store ELSE session
        /\ UNCHANGED <<store, resume>>
  /\ UNCHANGED <<data, counts, opened>>

LoginOrReauth ==
  \/ HasPassword  /\ Goto("login") /\ resume' = "account"
  \/ ~HasPassword /\ Fail("reauth", {}) /\ UNCHANGED resume

RestoreNothing ==
  /\ pc = "restore"
  /\ store = None
  /\ LoginOrReauth
  /\ UNCHANGED <<data, store, session, counts, opened>>

Rotations == {session.rot} \union {r \in 0..MaxRotations : r = session.rot + 1}

(* /sessionCheck confirms or rotates the token, and the result is saved.   *)
\* Mutant: the rotated session is not saved.
BugDropRotated(next) ==
  /\ \E r \in Rotations : session' = [session EXCEPT !.rot = r]
  /\ store' = store
  /\ Goto(next)

Validated(next) ==
  /\ \E r \in Rotations : session' = [session EXCEPT !.rot = r]
  /\ store' = session'
  /\ Goto(next)

ValidateOk ==
  /\ pc = "validate"
  /\ Validated("account")
  /\ UNCHANGED <<data, counts, resume, opened>>

ValidateInvalid ==
  /\ pc = "validate"
  /\ LoginOrReauth
  /\ UNCHANGED <<data, store, session, counts, opened>>

ValidateMalformed ==
  /\ pc = "validate"
  /\ \/ HasPassword /\ CleanLogin("account")
     \/ /\ ~HasPassword
        /\ Fail("reauth", {"session_restore_failed"})
        /\ UNCHANGED <<store, session, resume>>
  /\ UNCHANGED <<data, counts, opened>>

(* The login itself, whoever asked for it.                                 *)
LoginOk ==
  /\ pc = "login"
  /\ opened < MaxLogins
  /\ opened' = opened + 1
  /\ session' = Session(opened + 1, 0)
  /\ store' = session'
  /\ logins' = logins + 1
  /\ Goto(resume)
  /\ UNCHANGED <<data, rejected, refusals, resume>>

\* Mutant: a rejected recovery of the first request is taken for expiry.
BugRecoverRejection ==
  /\ pc = "login"
  /\ logins' = logins + 1
  /\ rejected' = TRUE
  /\ refusals' = refusals + 1
  /\ \/ resume = "accountReplay" /\ CleanLogin("recheck")
     \/ resume # "accountReplay" /\ Fail("reauth", {}) /\ UNCHANGED <<store, session, resume>>
  /\ UNCHANGED <<data, opened>>

(* The answer is "NO": KepcoOnAuthError.                                   *)
LoginRejected ==
  /\ pc = "login"
  /\ logins' = logins + 1
  /\ rejected' = TRUE
  /\ refusals' = refusals + 1
  /\ Fail("reauth", {})
  /\ UNCHANGED <<data, store, session, resume, opened>>

(* The answer is 401, 403 or a login page: KepcoOnSessionExpired, as if a  *)
(* session had expired.  In the recovery of an account request that is     *)
(* what _ensure_supported_account waits for, of the first one to log in    *)
(* once more.                                                              *)
LoginRefused ==
  /\ pc = "login"
  /\ logins' = logins + 1
  /\ refusals' = refusals + 1
  /\ \/ resume = "accountReplay" /\ CleanLogin("recheck")
     \/ /\ resume = "recheckReplay"
        /\ Fail("error", {"login_schema_changed"})
        /\ UNCHANGED <<store, session, resume>>
     \/ /\ resume \in {"account", "recheck"}
        /\ Fail("reauth", {})
        /\ UNCHANGED <<store, session, resume>>
  /\ UNCHANGED <<data, rejected, opened>>

LoginMalformed ==
  /\ pc = "login"
  /\ logins' = logins + 1
  /\ Fail("error", {"login_schema_changed"})
  /\ UNCHANGED <<data, store, session, rejected, refusals, resume, opened>>

(* What a setup awaits of KEPCO ON before its first refresh.                *)
Awaiting == {"validate", "login", "account", "accountReplay", "recheck",
             "recheckReplay", "revalidate"}

(* The store raises: when it is read, when it is cleared before a clean    *)
(* login, or when a session or a snapshot of its cookies is saved.         *)
StoreRaises ==
  /\ pc \in Awaiting \union {"restore"}
  /\ logins' = IF pc = "login" THEN logins + 1 ELSE logins
  /\ opened' \in {opened} \union {n \in 1..MaxLogins : pc = "login" /\ n = opened + 1}
  /\ Fail("error", {})
  /\ UNCHANGED <<data, store, session, rejected, refusals, resume>>

(* A connection or rate limit error: ConfigEntryNotReady, and Home         *)
(* Assistant tries again.                                                  *)
Unreachable ==
  /\ pc \in Awaiting
  /\ logins' = IF pc = "login" THEN logins + 1 ELSE logins
  /\ Fail("retry", {})
  /\ UNCHANGED <<data, store, session, rejected, refusals, resume, opened>>

------------------------------------------------------------------------------
(* _ensure_supported_account: two /isCorp requests, each recovering once   *)
(* and replayed once by async_protected_request.                           *)

Asking == {"account", "accountReplay", "recheck", "recheckReplay"}
Replay(l) == IF l = "account" THEN "accountReplay" ELSE "recheckReplay"

AccountSupported ==
  /\ pc \in Asking
  /\ Goto("customers")
  /\ UNCHANGED <<data, auth>>

(* Refused for the first time: recovery, then the replay.                  *)
AccountExpired ==
  /\ pc \in {"account", "recheck"}
  /\ resume' = Replay(pc)
  /\ Goto(IF HasPassword THEN "login" ELSE "revalidate")
  /\ UNCHANGED <<data, store, session, counts, opened>>

\* Mutant: the request is made anew, not replayed, after revalidation.
BugNeverReplay ==
  /\ pc = "revalidate"
  /\ Validated(IF resume = "accountReplay" THEN "account" ELSE "recheck")
  /\ UNCHANGED <<data, counts, resume, opened>>

RevalidateOk ==
  /\ pc = "revalidate"
  /\ Validated(resume)
  /\ UNCHANGED <<data, counts, resume, opened>>

RevalidateFails ==
  /\ pc = "revalidate"
  /\ Fail("reauth", {})
  /\ UNCHANGED <<data, auth>>

(* No account type in the answer, or the replay refused: the first request *)
(* is retried after one clean login, the second is a protocol error.       *)
Incomplete == pc \in Asking

FirstRequest == pc \in {"account", "accountReplay"}

\* Mutant: the account is asked for again until the answer is complete.
BugRecheckForever ==
  /\ Incomplete
  /\ \/ HasPassword /\ CleanLogin("account")
     \/ /\ ~HasPassword
        /\ Fail("reauth", {"session_restore_failed"})
        /\ UNCHANGED <<store, session, resume>>
  /\ UNCHANGED <<data, counts, opened>>

AccountIncomplete ==
  /\ Incomplete
  /\ \/ FirstRequest  /\ HasPassword /\ CleanLogin("recheck")
     \/ /\ FirstRequest /\ ~HasPassword
        /\ Fail("reauth", {"session_restore_failed"})
        /\ UNCHANGED <<store, session, resume>>
     \/ /\ ~FirstRequest
        /\ Fail("error", {"login_schema_changed"})
        /\ UNCHANGED <<store, session, resume>>
  /\ UNCHANGED <<data, counts, opened>>

AccountFails ==
  /\ pc \in Asking
  /\ \/ Fail("error", {"unsupported_account"})
     \/ Fail("error", {"login_schema_changed"})
  /\ UNCHANGED <<data, auth>>

------------------------------------------------------------------------------
(* The stored customers are usable or strict_selected_stored_customers     *)
(* raises a ValueError, which creates no issue.                            *)
SelectCustomers ==
  /\ pc = "customers"
  /\ Goto("refresh") \/ Fail("error", {})
  /\ UNCHANGED <<data, auth>>

(* The first refresh; its requests may renew the session (AuthSession).    *)
RefreshRenews ==
  /\ pc = "refresh"
  /\ \/ /\ HasPassword
        /\ opened < MaxLogins
        /\ opened' = opened + 1
        /\ session' = Session(opened + 1, 0)
     \/ /\ ~HasPassword
        /\ session.rot < MaxRotations
        /\ session' = [session EXCEPT !.rot = @ + 1]
        /\ UNCHANGED opened
  /\ store' = session'
  /\ Goto("refresh")
  /\ UNCHANGED <<data, counts, resume>>

(* UpdateFailed, ConfigEntryAuthFailed, or an unexpected exception.        *)
RefreshFails ==
  /\ pc = "refresh"
  /\ \E how \in {"retry", "reauth", "error"} : Fail(how, {})
  /\ UNCHANGED <<data, auth>>

RefreshOk ==
  /\ pc = "refresh"
  /\ pc' = "forward"
  /\ runtime' = TRUE
  /\ UNCHANGED <<data, auth, asked, outcome, http, issues>>

ForwardFails ==
  /\ pc = "forward"
  /\ Fail("error", {})
  /\ UNCHANGED <<data, auth>>

\* Mutant: a successful setup forgets one of the issues.
BugKeepIssue ==
  /\ pc = "forward"
  /\ pc' = "idle"
  /\ outcome' = "loaded"
  /\ issues' = issues \ (SetupIssues \ {"session_restore_failed"})
  /\ UNCHANGED <<data, auth, asked, http, runtime>>

ForwardOk ==
  /\ pc = "forward"
  /\ pc' = "idle"
  /\ outcome' = "loaded"
  /\ issues' = issues \ SetupIssues
  /\ UNCHANGED <<data, auth, asked, http, runtime>>

------------------------------------------------------------------------------
(* A loaded entry                                                          *)

(* async_unload_platforms succeeds; a request of a service call or of the  *)
(* user's refresh is not cancelled.                                        *)
Unload ==
  /\ outcome = "loaded"
  /\ outcome' = "unloaded"
  /\ http' = "detached"
  /\ runtime' = FALSE
  /\ late' \in {None} \union {s \in {session} : MayOutlive}
  /\ UNCHANGED <<pc, data, auth, asked, issues>>

(* It fails: Home Assistant leaves the entry as it is until it restarts.   *)
UnloadFails ==
  /\ outcome = "loaded"
  /\ outcome' = "stuck"
  /\ UNCHANGED <<pc, data, auth, asked, http, runtime, issues>>

(* It is answered on the connection it has, and if a cookie changed its    *)
(* session is saved with it (_async_persist_cookie_snapshot).              *)
LateAnswer ==
  /\ late # None
  /\ store' \in {store, late}
  /\ late' = None
  /\ UNCHANGED <<pc, outcome, data, asked, session, http, runtime, issues, counts,
                 resume, opened>>

(* A protected request renews the session (AuthSession).                   *)
RuntimeRenews ==
  /\ Running
  /\ \/ /\ HasPassword
        /\ opened < MaxLogins
        /\ opened' = opened + 1
        /\ session' = Session(opened + 1, 0)
     \/ /\ ~HasPassword
        /\ session.rot < MaxRotations
        /\ session' = [session EXCEPT !.rot = @ + 1]
        /\ UNCHANGED opened
  /\ store' = session'
  /\ UNCHANGED <<pc, outcome, data, asked, http, runtime, issues, counts, resume>>

(* A request that succeeds after a failed login has emptied the jar saves  *)
(* the session without cookies (_async_persist_cookie_snapshot).           *)
RuntimeLosesCookies ==
  /\ Running
  /\ HasPassword
  /\ session' = [session EXCEPT !.form = "legacy"]
  /\ store' = session'
  /\ UNCHANGED <<pc, outcome, data, asked, http, runtime, issues, counts, resume, opened>>

(* Home Assistant and the reauthentication flow                            *)

(* A request of a loaded entry finds that the user has to log in.          *)
AskReauth ==
  /\ Running
  /\ ~asked
  /\ asked' = TRUE
  /\ UNCHANGED <<pc, outcome, data, auth, http, runtime, issues>>

(* The flow a setup or a request opened ends, at any point of a setup that *)
(* meanwhile began: the entry's data holds the session of its login.       *)
ReauthFlow ==
  /\ asked
  /\ pc = "scrub" => MayOverlap
  /\ asked' = FALSE
  /\ opened < MaxLogins
  /\ opened' = opened + 1
  /\ handoff' = Session(opened + 1, 0)
  /\ UNCHANGED <<pc, outcome, diskHandoff, kept, store, session, http, runtime,
                 issues, counts, resume>>

Flush ==
  /\ diskHandoff # handoff
  /\ diskHandoff' = handoff
  /\ UNCHANGED <<pc, outcome, handoff, kept, asked, auth, http, runtime, issues>>

Crash ==
  /\ MayCrash
  /\ pc' = "idle"
  /\ outcome' = "none"
  /\ handoff' = diskHandoff
  /\ asked' = FALSE
  /\ session' = None
  /\ http' = "none"
  /\ runtime' = FALSE
  /\ logins' = 0
  /\ rejected' = FALSE
  /\ refusals' = 0
  /\ resume' = "account"
  /\ late' = None
  /\ UNCHANGED <<diskHandoff, kept, store, issues, opened>>

Setup ==
  \/ NoHandoff \/ HandoffFails \/ SaveHandoff \/ ScrubHandoff
  \/ RestoreValid \/ RestoreUnusable \/ RestoreNothing
  \/ ValidateOk \/ ValidateInvalid \/ ValidateMalformed
  \/ LoginOk \/ LoginRejected \/ LoginRefused \/ LoginMalformed
  \/ StoreRaises \/ Unreachable
  \/ AccountSupported \/ AccountExpired \/ RevalidateOk \/ RevalidateFails
  \/ AccountIncomplete \/ AccountFails
  \/ SelectCustomers \/ RefreshFails \/ RefreshOk
  \/ ForwardFails \/ ForwardOk

Timely == \/ Setup \/ Cancelled \/ StartSetup \/ RefreshRenews \/ RuntimeRenews
          \/ RuntimeLosesCookies \/ UnloadFails \/ AskReauth \/ ReauthFlow \/ Flush

Next == \/ Timely /\ UNCHANGED late
        \/ Unload \/ LateAnswer \/ Crash

Spec == Init /\ [][Next]_vars

(* Every await of the setup ends: requests have a total timeout and the    *)
(* coroutine is scheduled again.  Nothing is assumed of the user, of when  *)
(* Home Assistant retries, or of crashes.                                  *)
FairSpec == Spec /\ WF_vars(Setup /\ UNCHANGED late)

------------------------------------------------------------------------------
TypeOK ==
  /\ pc \in Steps \union {"idle"}
  /\ outcome \in Outcomes
  /\ {handoff, diskHandoff} \subseteq Sessions \union {Malformed}
  /\ kept \in 0..MaxLogins
  /\ asked \in BOOLEAN
  /\ store \in Sessions \union {Corrupt}
  /\ session \in Sessions
  /\ http \in {"none", "open", "detached"}
  /\ runtime \in BOOLEAN
  /\ issues \subseteq SetupIssues
  /\ logins \in Nat
  /\ rejected \in BOOLEAN
  /\ refusals \in Nat
  /\ resume \in Asking
  /\ opened \in 1..MaxLogins
  /\ late \in Sessions

(* Whatever way a setup ends that is not cancelled, an entry that is not   *)
(* loaded keeps neither an open client session nor runtime data; a loaded  *)
(* one has both, and keeps both when its platforms cannot be unloaded.     *)
CleanedUp ==
  pc = "idle" =>
    /\ Running => http = "open" /\ runtime
    /\ ~Running => http # "open" /\ ~runtime

(* The requests of a setup before its first refresh log in at most four    *)
(* times, and never without a saved password.                              *)
LoginsBounded == logins <= IF HasPassword THEN 4 ELSE 0

(* A setup sends no login after one that KEPCO ON answered with "NO", and  *)
(* at most two of its logins are refused in any way: an account is not     *)
(* locked by repeating its password.  The second one is sent after a 401,  *)
(* a 403 or a login page in the recovery of the first account request.     *)
RejectionEndsSetup ==
  [][/\ rejected /\ rejected' => logins' = logins
     /\ refusals' <= 2]_vars

(* A session handed over by a flow is not lost before the store has        *)
(* received it or a newer one took its place.  Once written to disk,       *)
(* nothing removes it from there earlier, crashes included; and the entry  *)
(* forgets it earlier only when Home Assistant stops before it wrote it.   *)
HandoffReachesStore ==
  [][/\ Handed(diskHandoff) /\ diskHandoff' # diskHandoff
          => diskHandoff.login <= kept \/ diskHandoff'.login > diskHandoff.login
     /\ Handed(handoff) /\ handoff' # handoff
          => \/ handoff.login <= kept
             \/ handoff'.login > handoff.login
             \/ http' = "none" /\ handoff # diskHandoff]_vars

(* Without a crash or a late answer, the store never goes back to an       *)
(* earlier refresh token of the same login.                                *)
StoreNeverReverts ==
  [][store'.login = store.login => store'.rot >= store.rot]_vars

(* A loaded entry has no repair issue of an earlier failed setup.          *)
IssuesCleared == outcome = "loaded" => issues = {}

(* The session of a loaded entry is the one its store would restore, if no *)
(* request outlives an entry: a restart of Home Assistant goes on with it. *)
StoreFollowsSession == Running => store = session

(* Every setup comes to an end.                                            *)
SetupEnds == pc # "idle" ~> pc = "idle"
===============================================================================
