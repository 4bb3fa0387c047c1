--------------------------- MODULE Transport_proofs ---------------------------
(* Theorems about Transport, for every number of tokens KEPCO ON issues    *)
(* and of given-up attempts under way: what a verdict means, and that the  *)
(* retry loop is one exchange.                                             *)
EXTENDS Transport, TLAPS

(* Where the caller is fixes what is under way.                            *)
Control ==
  /\ stage = "idle" <=> op = "none"
  /\ stage \in {"idle", "done"} <=> wire = "quiet"
  /\ stage = "bootstrap" => wire = "sent"
  /\ stage = "done" <=> verdict # "none"
  /\ stage # "done" => got = 0
  /\ stage = "idle" => cause = "none" /\ base = 0
  /\ wire = "pause" => attempt < 2
  /\ cause = "denied" => stage = "done"

InOrder == base <= issued

(* What is known of an answer whose headers have arrived.                  *)
Answered ==
  wire = "headers" =>
    /\ reply.tok # 0 => base < reply.tok /\ reply.tok <= issued
    /\ op = "login" /\ reply.kind = "ok" => reply.tok # 0 /\ jar = reply.tok

(* The token KEPCO ON accepts is the one in the answer, or the one the     *)
(* caller will go on with, until something happened that cause names.      *)
InStep ==
  stage # "idle" /\ cause = "none" =>
    valid = IF wire = "headers" /\ reply.tok # 0 THEN reply.tok ELSE TokenAfter

Settled ==
  stage = "done" =>
    /\ verdict \in Refused => cause # "none"
    /\ cause = "denied" => held = valid
    /\ op = "login" /\ verdict = "ok" => got # 0 /\ jar = got

Inv == TypeOK /\ Control /\ InOrder /\ Answered /\ InStep /\ Settled

------------------------------------------------------------------------------
(* The invariant holds before the first operation.                         *)
LEMMA InitInv == Init => Inv
BY BoundsAssumption DEF Init, Inv, TypeOK, Control, InOrder, Answered, InStep, Settled,
   Ops, Kinds, Verdicts, Tokens, Replies, NoReply, Attempts, Causes, TokenAfter

(* KEPCO ON issues the next token, or changes nothing.                     *)
LEMMA ServeStep ==
  ASSUME TypeOK, NEW o \in Ops, NEW t \in Tokens, NEW r \in Replies, Serve(o, t, r)
  PROVE  /\ {valid', issued'} \subseteq Tokens
         /\ \/ r.tok = 0 /\ valid' = valid /\ issued' = issued
            \/ r.tok # 0 /\ r.tok = issued + 1 /\ issued' = r.tok /\ valid' = r.tok
BY BoundsAssumption DEF Serve, TypeOK, Replies, Tokens, kepcoVars

(* KEPCO ON answers the present attempt.                                   *)
LEMMA AnswerInv == ASSUME Inv, Answer PROVE Inv'
<1>1. PICK r \in Replies :
        /\ Serve(op, held, r)
        /\ reply' = r
        /\ jar' \in {jar, IF r.tok = 0 THEN jar ELSE r.tok}
        /\ (op = "login" /\ r.kind = "ok") => jar' = r.tok
        /\ cause' = IF r.tok = 0 THEN cause ELSE "none"
  BY DEF Answer
<1>2. op \in Ops /\ held \in Tokens
  BY DEF Inv, TypeOK, Control, Answer
<1>3. /\ {valid', issued'} \subseteq Tokens
      /\ \/ r.tok = 0 /\ valid' = valid /\ issued' = issued
         \/ r.tok # 0 /\ r.tok = issued + 1 /\ issued' = r.tok /\ valid' = r.tok
  BY <1>1, <1>2, ServeStep DEF Inv
<1>4. /\ wire = "sent" /\ wire' = "headers" /\ stage \notin {"idle", "bootstrap", "done"}
      /\ UNCHANGED <<op, stage, attempt, verdict, got, held, strays, base>>
  BY DEF Answer, Inv, Control
<1>5. r.tok \in Tokens /\ r.kind \in Kinds /\ issued \in Nat /\ base \in Nat
  BY DEF Replies, Inv, TypeOK, Tokens
<1>6. TypeOK'
  BY <1>1, <1>3, <1>4, <1>5 DEF Inv, TypeOK, Causes
<1>7. Control'
  BY <1>4 DEF Inv, Control, Answer
<1>8. InOrder'
  BY <1>3, <1>4, <1>5 DEF Inv, InOrder
<1>9. Answered'
  <2>1. r.tok # 0 => base < r.tok /\ r.tok <= issued'
    BY <1>3, <1>5 DEF Inv, InOrder
  <2>2. op = "login" /\ r.kind = "ok" => r.tok # 0 /\ jar' = r.tok
    BY <1>1, <1>5 DEF Serve, Tokens
  <2>3. QED
    BY <1>1, <1>4, <2>1, <2>2 DEF Answered
<1>10. InStep'
  BY <1>1, <1>3, <1>4 DEF Inv, InStep, TokenAfter, Control
<1>11. Settled'
  BY <1>4 DEF Settled
<1>12. QED
  BY <1>6, <1>7, <1>9, <1>10, <1>11, <1>8 DEF Inv

(* KEPCO ON handles an attempt its caller gave up.                         *)
LEMMA ServeStrayInv == ASSUME Inv, ServeStray PROVE Inv'
<1>1. PICK s \in strays, r \in Replies :
        /\ Serve(s.op, s.tok, r)
        /\ strays' = strays \ {s}
        /\ cause' = IF r.tok = 0 THEN cause ELSE Lost
  BY DEF ServeStray
<1>2. s.op \in Ops /\ s.tok \in Tokens
  BY DEF Inv, TypeOK, Attempts
<1>3. /\ {valid', issued'} \subseteq Tokens
      /\ \/ r.tok = 0 /\ valid' = valid /\ issued' = issued
         \/ r.tok # 0 /\ r.tok = issued + 1 /\ issued' = r.tok /\ valid' = r.tok
  BY <1>1, <1>2, ServeStep DEF Inv
<1>4. UNCHANGED <<op, stage, attempt, wire, reply, verdict, got, held, jar, base>>
  BY DEF ServeStray, callVars
<1>5. issued \in Nat /\ base \in Nat /\ reply.tok \in Nat /\ issued' \in Nat /\ issued <= issued'
  BY <1>3 DEF Replies, Inv, TypeOK, Tokens
<1>6. TypeOK'
  BY <1>1, <1>3, <1>4 DEF Inv, TypeOK, Causes, Lost
<1>7. Control' /\ InOrder'
  BY <1>1, <1>3, <1>4, <1>5 DEF Inv, Control, InOrder, Lost
<1>8. Answered'
  BY <1>1, <1>3, <1>4, <1>5 DEF Inv, Control, Answered, Lost
<1>9. InStep' /\ Settled'
  BY <1>1, <1>3, <1>4 DEF Inv, InStep, Settled, TokenAfter, Lost
<1>10. QED
  BY <1>6, <1>7, <1>8, <1>9 DEF Inv

(* KEPCO ON ends the session.                                              *)
LEMMA EndSessionInv == ASSUME Inv, EndSession PROVE Inv'
BY BoundsAssumption DEF Inv, EndSession, TypeOK, Control, InOrder, Answered, InStep,
   Settled, callVars, Tokens, Causes, TokenAfter

------------------------------------------------------------------------------
(* An operation begins.                                                    *)
LEMMA BeginInv == ASSUME Inv, NEW o \in Ops, Begin(o) PROVE Inv'
<1>1. TypeOK'
  BY BoundsAssumption DEF Inv, Begin, Send, TypeOK, kepcoVars, Causes, Replies, NoReply,
     Kinds, Tokens
<1>2. Control'
  BY DEF Inv, Begin, Send, TypeOK, Control, kepcoVars, Ops, Tokens
<1>3. InOrder'
  BY DEF Inv, Begin, TypeOK, InOrder, kepcoVars, Tokens
<1>4. Answered' /\ InStep' /\ Settled'
  BY DEF Inv, Begin, Send, Control, Answered, InStep, Settled, kepcoVars, TokenAfter
<1>5. QED
  BY <1>1, <1>2, <1>4, <1>3 DEF Inv

(* An attempt fails: it is tried again, or the exchange is over.           *)
LEMMA AttemptFailsStep ==
  ASSUME Inv, AttemptFails, UNCHANGED <<jar, kepcoVars, base>>,
         wire # "quiet", stage # "bootstrap", strays' \subseteq Attempts,
         cause' \in Causes \ {"denied"},
         cause' = "none" => cause = "none" /\ (wire = "headers" => reply.tok = 0)
  PROVE  Inv'
<1>1. TypeOK'
  BY BoundsAssumption DEF Inv, AttemptFails, Finish, TypeOK, kepcoVars, Replies,
     NoReply, Kinds, Verdicts, Tokens
<1>2. Control'
  <2>1. CASE attempt < 2 /\ wire' = "pause" /\ UNCHANGED <<op, stage, attempt, verdict, got>>
    BY <2>1 DEF Inv, Control
  <2>2. CASE attempt = 2 /\ Finish("connection", 0)
    BY <2>2 DEF Inv, Finish, Control
  <2>3. QED
    BY <2>1, <2>2 DEF AttemptFails
<1>3. InOrder'
  BY DEF Inv, TypeOK, Tokens, InOrder, kepcoVars
<1>4. Answered' /\ InStep' /\ Settled'
  BY DEF Inv, AttemptFails, Finish, Control, Answered, InStep, Settled, kepcoVars,
     TokenAfter, Refused
<1>5. QED
  BY <1>1, <1>2, <1>4, <1>3 DEF Inv

(* An attempt times out.                                                   *)
LEMMA TimeOutInv == ASSUME Inv, TimeOut PROVE Inv'
<1>1. op \in Ops
  BY DEF Inv, TypeOK, Control, TimeOut
<1>2. strays' \subseteq Attempts
  BY <1>1 DEF Inv, TypeOK, TimeOut, Attempts
<1>3. QED
  BY <1>2, AttemptFailsStep DEF TimeOut, Inv, TypeOK, Control

(* An answer is lost or of no use.                                         *)
LEMMA LoseBodyInv == ASSUME Inv, LoseBody PROVE Inv'
BY AttemptFailsStep DEF LoseBody, Drop, Inv, TypeOK, Control, Causes

(* The other steps of the caller.                                          *)
LEMMA CallerInv ==
  ASSUME Inv, Bootstrap \/ WakeUp \/ ResendLogin \/ Accept \/ Return PROVE Inv'
<1> USE BoundsAssumption DEF Inv, TypeOK, Control, InOrder, Send, Finish, Drop,
        kepcoVars, Replies, NoReply, Kinds, Tokens, Causes, TokenAfter, Verdicts, Ops
<1>1. CASE Bootstrap
  BY <1>1 DEF Bootstrap, Answered, InStep, Settled, Refused
<1>2. CASE WakeUp
  BY <1>2 DEF WakeUp, Answered, InStep, Settled
<1>3. CASE ResendLogin
  BY <1>3 DEF ResendLogin, Answered, InStep, Settled
<1>4. CASE Accept
  <2>1. TypeOK' /\ Control' /\ InOrder'
    BY <1>4 DEF Accept, Classify, Blame
  <2>2. CASE Classify(reply.kind) = "ok"
    BY <1>4, <2>1, <2>2 DEF Accept, Classify, Answered, InStep, Settled, Refused
  <2>3. CASE Classify(reply.kind) # "ok"
    <3>1. Answered'
      BY <1>4 DEF Accept, Answered
    <3>2. InStep'
      BY <1>4, <2>3 DEF Accept, Blame, InStep
    <3>3. Classify(reply.kind) \in Refused => reply.kind \in Refusing
      BY DEF Classify, Refused, Refusing
    <3>4. cause' = "denied" => cause = "none" /\ reply.tok = 0
      BY <1>4, <2>3 DEF Accept, Blame
    <3>5. Settled'
      BY <1>4, <2>3, <3>3, <3>4 DEF Accept, Blame, InStep, Settled
    <3>6. QED
      BY <2>1, <3>1, <3>2, <3>5
  <2>4. QED
    BY <2>2, <2>3
<1>5. CASE Return
  BY <1>5 DEF Return, Answered, InStep, Settled
<1>6. QED
  BY <1>1, <1>2, <1>3, <1>4, <1>5

(* The invariant is preserved by every step.                               *)
LEMMA NextInv == Inv /\ [Next]_vars => Inv'
<1> SUFFICES ASSUME Inv, [Next]_vars PROVE Inv'
  OBVIOUS
<1>1. CASE Next
  BY <1>1, BeginInv, TimeOutInv, LoseBodyInv, CallerInv, AnswerInv, ServeStrayInv,
     EndSessionInv DEF Next, Proceed, Kepco
<1>2. CASE UNCHANGED vars
  BY <1>2 DEF vars, callVars, kepcoVars, Inv, TypeOK, Control, InOrder, Answered,
     InStep, Settled, TokenAfter
<1>3. QED
  BY <1>1, <1>2

(* The inductive invariant holds throughout.                               *)
THEOREM InvariantHolds == Spec => []Inv
BY InitInv, NextInv, PTL DEF Spec

(* The variables have their types; in particular request_json never counts *)
(* a fourth attempt.                                                       *)
THEOREM TypeCorrect == Spec => []TypeOK
BY InvariantHolds, PTL DEF Inv

(* A caller is told that its session is not accepted only for a reason: it *)
(* was stale, KEPCO ON ended it, an answer that rotated its token was      *)
(* lost, or KEPCO ON refused the very token it accepts.                    *)
THEOREM RefusalHasCause == Spec => []RefusalExplained
<1>1. Inv => RefusalExplained
  BY DEF Inv, Settled, RefusalExplained
<1>2. QED
  BY <1>1, InvariantHolds, PTL

(* After a success the caller goes on with the token KEPCO ON accepts, and *)
(* after a login with the cookies of that session.                         *)
THEOREM SuccessKeepsStep == Spec => []SuccessInStep
<1>1. Inv => SuccessInStep
  BY DEF Inv, InStep, Settled, SuccessInStep, Control, TokenAfter
<1>2. QED
  BY <1>1, InvariantHolds, PTL

------------------------------------------------------------------------------
(* The safety half of ImplementsExchange: every step of the retry loop is  *)
(* a step of Exchange or none.                                             *)

(* No exchange is open at first.                                           *)
LEMMA ExchangeInit == Init => Promise!Init
BY DEF Init, Promise!Init, Phase, Outcome

(* What KEPCO ON does is an Issue, or nothing to the exchange.             *)
LEMMA ExchangeKepco ==
  ASSUME Inv, Kepco PROVE Promise!Issue \/ UNCHANGED Promise!evars
<1>1. CASE Answer
  <2>1. PICK r \in Replies : Serve(op, held, r)
    BY <1>1 DEF Answer
  <2>2. op \in Ops /\ held \in Tokens
    BY <1>1 DEF Inv, TypeOK, Control, Answer
  <2>3. issued' = issued + 1 \/ issued' = issued
    BY <2>1, <2>2, ServeStep DEF Inv
  <2>4. QED
    BY <1>1, <2>3 DEF Answer, Promise!Issue, Promise!evars, Phase, Outcome
<1>2. CASE ServeStray
  <2>1. PICK s \in strays, r \in Replies : Serve(s.op, s.tok, r)
    BY <1>2 DEF ServeStray
  <2>2. s.op \in Ops /\ s.tok \in Tokens
    BY DEF Inv, TypeOK, Attempts
  <2>3. issued' = issued + 1 \/ issued' = issued
    BY <2>1, <2>2, ServeStep DEF Inv
  <2>4. QED
    BY <1>2, <2>3 DEF ServeStray, callVars, Promise!Issue, Promise!evars, Phase, Outcome
<1>3. CASE EndSession
  BY <1>3 DEF EndSession, callVars, Promise!evars, Phase, Outcome
<1>4. QED
  BY <1>1, <1>2, <1>3 DEF Kepco

(* Every step is one of Exchange or stutters.                              *)
LEMMA ExchangeStep == Inv /\ [Next]_vars => [Promise!Next]_Promise!evars
<1> SUFFICES ASSUME Inv, [Next]_vars PROVE Promise!Next \/ UNCHANGED Promise!evars
  OBVIOUS
<1> USE DEF Inv, TypeOK, Control, InOrder, Phase, Outcome, kepcoVars, Send, Finish
<1>1. ASSUME NEW o \in Ops, Begin(o) PROVE Promise!Ask
  BY <1>1 DEF Begin, Promise!Ask
<1>2. CASE Bootstrap
  BY <1>2 DEF Bootstrap, Promise!Settle, Promise!Outcomes, Promise!evars, Promise!Next,
     Refused
<1>3. CASE TimeOut \/ LoseBody
  BY <1>3 DEF TimeOut, LoseBody, AttemptFails, Promise!Settle, Promise!Outcomes,
     Promise!evars, Promise!Next, Refused
<1>4. CASE WakeUp \/ ResendLogin
  BY <1>4 DEF WakeUp, ResendLogin, Promise!evars
<1>5. CASE Accept
  BY <1>5 DEF Accept, Classify, Answered, Promise!Settle, Promise!Outcomes,
     Promise!Next, Refused, Tokens, Replies, Kinds
<1>6. CASE Return
  BY <1>6 DEF Return, Promise!Return, Promise!Next
<1>7. CASE UNCHANGED vars
  BY <1>7 DEF vars, callVars, Promise!evars
<1>8. CASE Kepco
  BY <1>8, ExchangeKepco DEF Promise!Next
<1>9. QED
  BY <1>1, <1>2, <1>3, <1>4, <1>5, <1>6, <1>7, <1>8 DEF Next, Proceed, Promise!Next

(* Whatever KEPCO ON does, the caller sees one exchange: one outcome, and  *)
(* no token issued before it began.                                        *)
THEOREM RetriesAreOneExchange ==
  Spec => Promise!Init /\ [][Promise!Next]_Promise!evars
BY InvariantHolds, ExchangeInit, ExchangeStep, PTL DEF Spec
------------------------------------------------------------------------------
(* Termination.  What is left of an operation: its stage (the bootstrap    *)
(* page, the first request_json, the second for an empty answer), in it    *)
(* the attempts to come, and how far the present one is.                   *)
StageLeft(s) == IF s = "bootstrap" THEN 3 ELSE IF s = "post" THEN 2
                ELSE IF s = "repost" THEN 1 ELSE 0
WireLeft(w) == IF w = "sent" THEN 2 ELSE IF w = "headers" THEN 1 ELSE 0

Left(s, a, w) ==
  IF s \in {"idle", "done"} THEN 0 ELSE 9 * StageLeft(s) + 3 * (2 - a) + WireLeft(w)

(* An operation never comes back to where it was: until it is done, a step *)
(* leaves the attempt as it is or brings the operation closer to its end.  *)
NeverBack ==
  [][stage \notin {"idle", "done"} =>
       \/ UNCHANGED <<stage, attempt, wire>>
       \/ Left(stage', attempt', wire') < Left(stage, attempt, wire)]_vars

(* What is left is at most 35 units.                                       *)
LEMMA LeftBounded ==
  ASSUME NEW s, NEW a \in 0..2, NEW w PROVE Left(s, a, w) \in 0..35
BY DEF Left, StageLeft, WireLeft

(* Every step of the caller brings its operation closer to the end.        *)
LEMMA ProceedGoesOn ==
  ASSUME Inv, Proceed, stage \notin {"idle", "done"}
  PROVE  Left(stage', attempt', wire') < Left(stage, attempt, wire)
<1> USE DEF Inv, TypeOK, Control, Left, StageLeft, WireLeft
<1>1. CASE Bootstrap
  BY <1>1 DEF Bootstrap, Send, Finish
<1>2. CASE TimeOut
  BY <1>2 DEF TimeOut, AttemptFails, Finish
<1>3. CASE LoseBody
  BY <1>3 DEF LoseBody, AttemptFails, Finish
<1>4. CASE WakeUp
  BY <1>4 DEF WakeUp, Send
<1>5. CASE ResendLogin
  BY <1>5 DEF ResendLogin, Send
<1>6. CASE Accept
  BY <1>6 DEF Accept, Finish
<1>7. QED
  BY <1>1, <1>2, <1>3, <1>4, <1>5, <1>6 DEF Proceed

(* Every operation comes to its end in a bounded number of steps of its    *)
(* own, whatever KEPCO ON answers: at most three attempts at a request and *)
(* seven requests in a login.  With the time-outs of the attempts this is  *)
(* why an exchange settles.                                                *)
THEOREM OperationsRunOut == Spec => NeverBack
<1>1. ASSUME Inv, [Next]_vars, stage \notin {"idle", "done"}
      PROVE  \/ UNCHANGED <<stage, attempt, wire>>
             \/ Left(stage', attempt', wire') < Left(stage, attempt, wire)
  <2>1. CASE Proceed
    BY <1>1, <2>1, ProceedGoesOn
  <2>2. CASE Answer
    <3>1. stage \in {"post", "repost"} /\ attempt \in 0..2
      BY <1>1, <2>2 DEF Answer, Inv, TypeOK
    <3>2. QED
      BY <2>2, <3>1 DEF Answer, Left, StageLeft, WireLeft
  <2>3. CASE ServeStray \/ EndSession \/ UNCHANGED vars
    BY <2>3 DEF ServeStray, EndSession, vars, callVars
  <2>4. CASE Return \/ \E o \in Ops : Begin(o)
    BY <1>1, <2>4 DEF Return, Begin
  <2>5. QED
    BY <1>1, <2>1, <2>2, <2>3, <2>4 DEF Next, Kepco
<1>2. QED
  BY <1>1, InvariantHolds, PTL DEF Spec, NeverBack

===============================================================================
