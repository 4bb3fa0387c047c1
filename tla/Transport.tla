------------------------------- MODULE Transport -------------------------------
(***************************************************************************)
(* KepcoOnTransport (api.py) under one caller of auth.py: the attempts of  *)
(* request_json, what KEPCO ON does with each, and what the caller is told *)
(* in the end.  The caller logs in (bootstrap page, login, the login once  *)
(* more when the answer is empty), checks its session, or makes a          *)
(* protected request.                                                      *)
(*                                                                         *)
(* KEPCO ON accepts the last refresh token it issued until it ends the     *)
(* session.  A login issues one, a /sessionCheck may.  An attempt that     *)
(* timed out may reach KEPCO ON all the same, at any later time.           *)
(***************************************************************************)
EXTENDS Naturals, FiniteSets

CONSTANTS
  MaxIssued,  \* bound: refresh tokens KEPCO ON issues
  MaxStrays   \* bound: given-up attempts under way at a time

ASSUME BoundsAssumption == MaxIssued \in Nat \ {0} /\ MaxStrays \in Nat

VARIABLES
  op,       \* what the caller does
  stage,    \* where it is
  attempt,  \* the loop variable of request_json
  wire,     \* the present attempt
  reply,    \* its answer, and the token KEPCO ON issued to it
  verdict,  \* what the caller was told
  got,      \* the token the verdict came with
  held,     \* the refresh token of the caller's session
  jar,      \* the token whose session set the cookies of the jar, 0 for none
  valid,    \* KEPCO ON: the token it accepts, 0 for none
  issued,   \* KEPCO ON: the last token issued
  strays,   \* attempts the caller gave up and KEPCO ON may still receive
  base,     \* history: issued when the operation began
  cause     \* history: why KEPCO ON may not accept the caller's token

callVars  == <<op, stage, attempt, wire, reply, verdict, got, held>>
kepcoVars == <<valid, issued>>
vars == <<callVars, jar, kepcoVars, strays, base, cause>>

Ops      == {"login", "check", "request"}
(* What comes back: what was asked for, nothing, "NO" or false, a 401 or   *)
(* 403, a login page, a 500, 502 or 503, a 429, or another status, host or *)
(* body that is of no use.                                                 *)
Kinds    == {"ok", "empty", "no", "denied", "page", "temporary", "limited", "garbled"}
Verdicts == {"ok", "empty", "no", "expired", "error", "connection"}
Tokens   == 0..MaxIssued
Replies  == [kind : Kinds, tok : Tokens]
NoReply  == [kind |-> "empty", tok |-> 0]
Attempts == [op : Ops, tok : Tokens]
(* The session was stale already, KEPCO ON ended it, or it issued a newer  *)
(* token to an attempt whose answer the caller never had; or it refused a  *)
(* token that it accepts.                                                  *)
Causes   == {"none", "stale", "ended", "lost", "denied"}

Refused  == {"no", "expired"}
Refusing == {"no", "denied", "page"}

Init ==
  /\ op = "none" /\ stage = "idle" /\ wire = "quiet"
  /\ attempt = 0
  /\ reply = NoReply /\ verdict = "none" /\ got = 0
  /\ held = 1 /\ jar = 1 /\ valid = 1 /\ issued = 1
  /\ strays = {} /\ base = 0 /\ cause = "none"

------------------------------------------------------------------------------
(* KEPCO ON                                                                *)

(* It handles an attempt of operation o with token t and answers r, where  *)
(* r.tok is the token it issued, whether or not the answer says so.        *)
(* It may give any answer at any time, but never succeeds without cause.   *)
Serve(o, t, r) ==
  /\ o = "request" => r.kind # "no"
  /\ \/ /\ o = "login" \/ (o = "check" /\ t = valid)
        /\ r.tok = issued + 1 /\ r.tok <= MaxIssued
        /\ issued' = r.tok /\ valid' = r.tok
     \/ /\ r.kind = "ok" => o # "login" /\ t = valid
        /\ r.tok = 0
        /\ UNCHANGED kepcoVars

(* The headers of the answer arrive, and with them its cookies.  A login   *)
(* that succeeds sets them; nothing else need.                             *)
Answer ==
  /\ wire = "sent" /\ stage # "bootstrap"
  /\ \E r \in Replies :
       /\ Serve(op, held, r)
       /\ reply' = r
       /\ jar' \in {jar, IF r.tok = 0 THEN jar ELSE r.tok}
       /\ (op = "login" /\ r.kind = "ok") => jar' = r.tok
       /\ cause' = IF r.tok = 0 THEN cause ELSE "none"
  /\ wire' = "headers"
  /\ UNCHANGED <<op, stage, attempt, verdict, got, held, strays, base>>

(* Between two operations nothing is open: Begin finds out what is stale.  *)
Lost == IF stage = "idle" THEN "none" ELSE "lost"

(* KEPCO ON handles an attempt its caller gave up: the answer is lost.     *)
ServeStray ==
  /\ \E s \in strays, r \in Replies :
       /\ Serve(s.op, s.tok, r)
       /\ strays' = strays \ {s}
       /\ cause' = IF r.tok = 0 THEN cause ELSE Lost
  /\ UNCHANGED <<callVars, jar, base>>

EndSession ==
  /\ valid # 0
  /\ valid' = 0
  /\ cause' = IF stage = "idle" THEN "none" ELSE "ended"
  /\ UNCHANGED <<callVars, jar, issued, strays, base>>

------------------------------------------------------------------------------
(* The caller                                                              *)

Send(n) == /\ wire' = "sent"
           /\ attempt' = n
           /\ reply' = NoReply

(* A login first empties the jar and loads the bootstrap page.             *)
Begin(o) ==
  /\ stage = "idle"
  /\ op' = o
  /\ \/ /\ o = "login"
        /\ stage' = "bootstrap" /\ wire' = "sent" /\ jar' = 0
        /\ UNCHANGED <<attempt, reply>>
     \/ /\ o # "login"
        /\ stage' = "post" /\ Send(0)
        /\ UNCHANGED jar
  /\ base' = issued
  /\ cause' = IF held = valid THEN "none" ELSE "stale"
  /\ UNCHANGED <<verdict, got, held, kepcoVars, strays>>

Finish(v, t) ==
  /\ stage' = "done" /\ wire' = "quiet"
  /\ verdict' = v
  /\ got' = t
  /\ attempt' = 0 /\ reply' = NoReply
  /\ UNCHANGED <<op, held>>

(* async_prepare_login_session: one attempt.                               *)
Bootstrap ==
  /\ stage = "bootstrap"
  /\ \/ stage' = "post" /\ Send(0) /\ UNCHANGED <<op, verdict, got, held>>
     \/ \E v \in {"connection", "error"} : Finish(v, 0)
  /\ UNCHANGED <<jar, kepcoVars, strays, base, cause>>

(* A time-out, a connection error or a temporary status: the next attempt  *)
(* after a pause, or after the third one the end.                          *)
\* Mutant: one attempt more.
BugFourAttempts ==
  \/ /\ attempt < 3
     /\ wire' = "pause"
     /\ reply' = NoReply
     /\ UNCHANGED <<op, stage, attempt, verdict, got, held>>
  \/ /\ attempt = 3
     /\ Finish("connection", 0)

\* Mutant: after the third attempt the loop begins again.
BugNoLastAttempt == /\ wire' = "pause"
                    /\ attempt' = (attempt + 1) % 3
                    /\ reply' = NoReply
                    /\ UNCHANGED <<op, stage, verdict, got, held>>

AttemptFails ==
  \/ /\ attempt < 2
     /\ wire' = "pause"
     /\ reply' = NoReply
     /\ UNCHANGED <<op, stage, attempt, verdict, got, held>>
  \/ /\ attempt = 2
     /\ Finish("connection", 0)

(* No headers in time.  The attempt may be lost or still reach KEPCO ON.   *)
TimeOut ==
  /\ wire = "sent" /\ stage # "bootstrap"
  /\ AttemptFails
  /\ \/ UNCHANGED strays
     \/ /\ Cardinality(strays) < MaxStrays
        /\ strays' = strays \union {[op |-> op, tok |-> held]}
  /\ UNCHANGED <<jar, kepcoVars, base, cause>>

(* The answer is not used, and a token it brought is lost with it.         *)
Drop == cause' = IF reply.tok = 0 THEN cause ELSE "lost"

(* The status is temporary, or the body that has to be read does not come. *)
LoseBody ==
  /\ wire = "headers" /\ reply.kind \notin {"denied", "limited"}
  /\ AttemptFails
  /\ Drop
  /\ UNCHANGED <<jar, kepcoVars, strays, base>>

WakeUp ==
  /\ wire = "pause"
  /\ Send(attempt + 1)
  /\ UNCHANGED <<op, stage, verdict, got, held, jar, kepcoVars, strays, base,
                 cause>>

(* What _handle_response makes of an answer.                               *)
\* Mutant: a temporary status means that the session has expired.
BugTemporaryExpires(k) == IF k \in {"denied", "page", "temporary"} THEN "expired"
                          ELSE IF k \in {"limited", "garbled"} THEN "error" ELSE k

Classify(k) == IF k \in {"denied", "page"} THEN "expired"
               ELSE IF k \in {"limited", "garbled"} THEN "error" ELSE k

(* An empty answer to a login is asked for once more, by a request_json    *)
(* with three attempts of its own.                                         *)
ResendLogin ==
  /\ wire = "headers" /\ Classify(reply.kind) = "empty"
  /\ op = "login" /\ stage = "post"
  /\ stage' = "repost"
  /\ Send(0)
  /\ Drop
  /\ UNCHANGED <<op, verdict, got, held, jar, kepcoVars, strays, base>>

Blame == IF reply.tok # 0 THEN "lost"
         ELSE IF reply.kind \in Refusing /\ cause = "none" THEN "denied" ELSE cause

Accept ==
  /\ wire = "headers"
  /\ LET k == Classify(reply.kind) IN
       /\ k # "temporary"
       /\ ~(k = "empty" /\ op = "login" /\ stage = "post")
       /\ Finish(k, IF k = "ok" THEN reply.tok ELSE 0)
       /\ cause' = IF k = "ok" THEN cause ELSE Blame
  /\ UNCHANGED <<jar, kepcoVars, strays, base>>

(* The session keeps its token when the answer brings no other.            *)
\* Mutant: a rotated token is not taken over.
BugKeepToken == held

TokenAfter == IF got # 0 THEN got ELSE held

Return ==
  /\ stage = "done"
  /\ held' = TokenAfter
  /\ stage' = "idle" /\ op' = "none" /\ verdict' = "none" /\ got' = 0
  /\ base' = 0 /\ cause' = "none"
  /\ UNCHANGED <<attempt, wire, reply, jar, kepcoVars, strays>>

------------------------------------------------------------------------------
Proceed == Bootstrap \/ TimeOut \/ LoseBody \/ WakeUp \/ ResendLogin \/ Accept

Kepco == Answer \/ ServeStray \/ EndSession

Next == \/ \E o \in Ops : Begin(o)
        \/ Proceed \/ Kepco \/ Return

Spec == Init /\ [][Next]_vars

(* Each attempt has a total time-out, each pause an end, and the event     *)
(* loop resumes the coroutine.  No fairness on KEPCO ON.                   *)
FairSpec == Spec /\ WF_vars(Proceed)

------------------------------------------------------------------------------
(* Properties                                                              *)

TypeOK ==
  /\ op \in Ops \union {"none"}
  /\ stage \in {"idle", "bootstrap", "post", "repost", "done"}
  /\ attempt \in 0..2
  /\ wire \in {"quiet", "sent", "headers", "pause"}
  /\ reply \in Replies
  /\ verdict \in Verdicts \union {"none"}
  /\ {got, held, jar, valid, issued, base} \subseteq Tokens
  /\ strays \subseteq Attempts
  /\ cause \in Causes

(* The caller is told that its session is not accepted only for a reason:  *)
(* it was stale before, KEPCO ON ended it, an earlier attempt used the     *)
(* token up and its answer never came, or KEPCO ON refused the very token  *)
(* it accepts (a 401, a 403 or a login page, which the code cannot tell    *)
(* from the end of the session).  A time-out, a temporary status, a rate   *)
(* limit or a body of no use never makes request_json say so.              *)
RefusalExplained ==
  stage = "done" /\ op # "login" /\ verdict \in Refused =>
    /\ cause # "none"
    /\ cause = "denied" => held = valid

(* After a success the caller goes on with the token KEPCO ON accepts,     *)
(* and after a login with that session's cookies, whatever happened to the *)
(* attempts before; unless KEPCO ON ended the session or received a        *)
(* given-up attempt afterwards.                                            *)
SuccessInStep ==
  stage = "done" /\ verdict = "ok" =>
    /\ cause = "none" => TokenAfter = valid
    /\ op = "login" => jar = TokenAfter

------------------------------------------------------------------------------
(* The exchange the caller sees.                                           *)

Phase   == IF stage = "idle" THEN "idle" ELSE IF stage = "done" THEN "settled" ELSE "open"
Outcome == IF verdict = "none" THEN "none"
           ELSE IF verdict \in {"ok", "empty"} THEN "ok"
           ELSE IF verdict \in Refused THEN "refused" ELSE "failed"

Promise == INSTANCE Exchange WITH phase <- Phase, outcome <- Outcome

(* The retry loop implements one exchange: it ends, with one outcome, and  *)
(* a token it hands over was issued since the exchange began: never one of *)
(* an earlier session.                                                     *)
ImplementsExchange == Promise!Spec
===============================================================================
