----------------------------- MODULE CookieStore -----------------------------
(***************************************************************************)
(* The cookies of a session between the jar and the store                  *)
(* (session_store.py): KEPCO ON sets them, auth.py exports them with the   *)
(* session it saves, time passes, Home Assistant restarts, and the stored  *)
(* ones are put into the new jar.                                          *)
(*                                                                         *)
(* A cookie expires at a time or with the process (Never).  Paths, the     *)
(* secure flag and the attributes' spelling are left out.                  *)
(***************************************************************************)
EXTENDS Naturals, FiniteSets

CONSTANTS
  Names,       \* cookie names KEPCO ON uses
  Allowed,     \* PERSISTED_COOKIE_ALLOWLIST
  Values,      \* cookie values, of which "" is the empty one
  MaxTime,     \* bound: the clock stops here
  MaxCookies,  \* bound: cookies in the jar at a time
  MayDisagree  \* KEPCO ON may send Max-Age and a different Expires

ASSUME CookieAssumption ==
  Allowed \subseteq Names /\ {MaxTime, MaxCookies} \subseteq Nat /\ MayDisagree \in BOOLEAN

VARIABLES
  clock,   \* the time
  jar,     \* the cookies of aiohttp's jar
  stored,  \* the cookies of the stored session
  kept,    \* history: the jar when the session was saved
  fresh    \* the jar holds what was restored, and nothing else yet

vars == <<clock, jar, stored, kept, fresh>>

Never == 0
Times == 1..(MaxTime + 1)

(* online.kepco.co.kr, its parent, a host below it and one beside it.      *)
Hosts   == {"online", "kepco", "below", "beside"}
Domains == {"online", "kepco"}

(* aiohttp keeps the Expires attribute beside the time it computed, which  *)
(* follows Max-Age when there is one.                                      *)
Cookies == [name : Names, value : Values, domain : Domains, hostOnly : BOOLEAN,
            expires : Times \union {Never}, deadline : Times \union {Never}]

Alive(t) == t = Never \/ t > clock

Init == clock = 1 /\ jar = {} /\ stored = {} /\ kept = {} /\ fresh = FALSE

------------------------------------------------------------------------------
(* KEPCO ON and aiohttp                                                    *)

(* What a Set-Cookie of online.kepco.co.kr becomes: host-only without a    *)
(* Domain, in which case its domain is the host.                           *)
Settable == {c \in Cookies :
  /\ c.hostOnly => c.domain = "online"
  /\ \/ c.deadline = c.expires
     \/ c.expires = Never
     \/ MayDisagree /\ c.deadline # Never}

(* A newer cookie replaces the one of its name and domain.                 *)
Put(j, c) == {d \in j : d.name # c.name \/ d.domain # c.domain} \union {c}

SetCookie ==
  /\ \E c \in Settable : Alive(c.deadline) /\ jar' = Put(jar, c)
  /\ Cardinality(jar') <= MaxCookies
  /\ fresh' = FALSE
  /\ UNCHANGED <<clock, stored, kept>>

(* The jar drops what has expired.                                         *)
Tick ==
  /\ clock < MaxTime
  /\ clock' = clock + 1
  /\ jar' = {c \in jar : c.deadline = Never \/ c.deadline > clock + 1}
  /\ UNCHANGED <<stored, kept, fresh>>

------------------------------------------------------------------------------
(* session_store.py                                                        *)

(* _stored_domain                                                          *)
StoredDomain(c) ==
  IF ~c.hostOnly /\ c.domain = "kepco" THEN ".kepco" ELSE c.domain

(* _cookie_expires, and without it _stored_expiry: what the jar computed.  *)
StoredExpires(c) == IF c.expires # Never THEN c.expires ELSE c.deadline

(* _validate_cookie_shape with the allow-list.                             *)
Valid(c) == /\ c.name \in Allowed
            /\ c.domain \in {"online", ".kepco"}
            /\ Alive(c.expires)

(* export_cookies, and what session_to_payload keeps of it.                *)
Export(j) ==
  {s \in {[name |-> c.name, value |-> c.value, domain |-> StoredDomain(c),
           hostOnly |-> c.hostOnly, expires |-> StoredExpires(c)] : c \in j} : Valid(s)}

(* async_save, at the end of a login, a validation or a request.           *)
Save ==
  /\ jar # kept
  /\ stored' = Export(jar)
  /\ kept' = jar
  /\ UNCHANGED <<clock, jar, fresh>>

(* restore_cookies: one cookie put back into a jar.                        *)
\* Mutant: the Domain is always sent.
BugAlwaysDomain(s) ==
  [name |-> s.name, value |-> s.value,
   domain |-> IF s.domain = ".kepco" THEN "kepco" ELSE s.domain,
   hostOnly |-> FALSE, expires |-> s.expires, deadline |-> s.expires]

Restored(s) ==
  [name |-> s.name, value |-> s.value,
   domain |-> IF s.domain = ".kepco" THEN "kepco" ELSE s.domain,
   hostOnly |-> s.hostOnly, expires |-> s.expires, deadline |-> s.expires]

(* _cookie_from_payload: of what an export keeps, it refuses an empty      *)
(* value, and with it the whole session.                                   *)
Readable(s) == s.value # ""

(* Home Assistant restarts, at any time, and the session is restored into  *)
(* an empty jar; nothing is restored of one that cannot be read.           *)
Restart ==
  /\ \/ /\ \A s \in stored : Readable(s)
        /\ jar' = {Restored(s) : s \in {s \in stored : Valid(s)}}
        /\ fresh' = TRUE
     \/ /\ \E s \in stored : ~Readable(s)
        /\ jar' = {}
        /\ fresh' = FALSE
  /\ UNCHANGED <<clock, stored, kept>>

Next == SetCookie \/ Tick \/ Save \/ Restart

Spec == Init /\ [][Next]_vars

------------------------------------------------------------------------------
(* Properties                                                              *)

(* The cookies jar j sends to host h.                                      *)
Sent(j, h) ==
  LET Reaches(c) == \/ c.domain = h
                    \/ ~c.hostOnly /\ (c.domain = "kepco" \/ h = "below")
  IN  {[name |-> c.name, value |-> c.value] :
        c \in {c \in j : c.name \in Allowed /\ Alive(c.deadline) /\ Reaches(c)}}

(* A restart that can read the session changes nothing that KEPCO ON sees: *)
(* until it sets cookies again, every host of the domain is sent the       *)
(* cookies, of those that may be kept, that the jar of the saved session   *)
(* would send it now: none more, none to another host, none that has       *)
(* expired, and none missing.                                              *)
RestartUnseen ==
  fresh => \A h \in Hosts : Sent(jar, h) = Sent(kept, h)

(* session_store.py:348: only unexpired cookies are restored.              *)
OnlyUnexpiredRestored ==
  fresh => \A h \in Hosts : Sent(jar, h) \subseteq Sent(kept, h)
==============================================================================
