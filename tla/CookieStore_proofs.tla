-------------------------- MODULE CookieStore_proofs --------------------------
(* RestartUnseen for every set of names and values and every time: proved  *)
(* where an answer's Max-Age and Expires agree (MayDisagree FALSE); where  *)
(* they need not, OnlyUnexpiredRestored has a counterexample.              *)
EXTENDS CookieStore, TLAPS

(* What a jar holds: Set-Cookie's cookies and restored ones.               *)
Shape(c) == /\ c \in Cookies
            /\ c.hostOnly => c.domain = "online"
            /\ c.expires \in {Never, c.deadline}

(* What Export makes of one cookie.                                        *)
StoredForm(c) == [name |-> c.name, value |-> c.value, domain |-> StoredDomain(c),
                  hostOnly |-> c.hostOnly, expires |-> StoredExpires(c)]

(* No host can tell the two apart.                                         *)
Alike(c, d) == /\ c.name = d.name /\ c.value = d.value
               /\ c.domain = d.domain /\ c.hostOnly = d.hostOnly
               /\ c.deadline = d.deadline

Shapes == /\ clock \in Nat \ {0}
          /\ \A c \in jar \union kept : Shape(c)

(* The store holds what the saved jar had, but for what may not be kept    *)
(* and what had expired.                                                   *)
StoredIsKept ==
  /\ \A s \in stored : \E c \in kept : s = StoredForm(c)
  /\ \A c \in kept : c.name \in Allowed /\ Alive(c.deadline) => StoredForm(c) \in stored

(* And so does a jar that was restored.                                    *)
FreshIsKept ==
  fresh =>
    /\ \A d \in jar : \E c \in kept : Alike(c, d)
    /\ \A c \in kept : c.name \in Allowed /\ Alive(c.deadline) => \E d \in jar : Alike(c, d)

Inv == Shapes /\ StoredIsKept /\ FreshIsKept

------------------------------------------------------------------------------
(* The round trip of one cookie: its domain is written and read back, and  *)
(* the time the jar computed takes the place of its Expires.               *)
LEMMA RoundTrip ==
  ASSUME NEW c, Shape(c)
  PROVE  /\ Alike(c, Restored(StoredForm(c)))
         /\ Shape(Restored(StoredForm(c)))
         /\ StoredForm(c).expires = c.deadline
         /\ StoredForm(c).domain \in {"online", ".kepco"}
         /\ StoredForm(c).name = c.name
BY DEF Shape, Cookies, Domains, Alike, Restored, StoredForm, StoredDomain, StoredExpires

(* export_cookies keeps the stored form of what may be kept and has not    *)
(* expired.                                                                *)
LEMMA ExportForms ==
  ASSUME NEW j, \A c \in j : Shape(c)
  PROVE  /\ \A s \in Export(j) : \E c \in j : s = StoredForm(c)
         /\ \A c \in j : c.name \in Allowed /\ Alive(c.deadline) => StoredForm(c) \in Export(j)
<1>1. Export(j) = {s \in {StoredForm(c) : c \in j} : Valid(s)}
  BY DEF Export, StoredForm
<1>2. ASSUME NEW c \in j, c.name \in Allowed, Alive(c.deadline)
      PROVE  Valid(StoredForm(c))
  BY <1>2, RoundTrip DEF Valid
<1>3. QED
  BY <1>1, <1>2

(* What has not expired at a time had not at an earlier one.               *)
LEMMA StillAlive ==
  ASSUME clock \in Nat, clock' \in {clock, clock + 1},
         NEW t \in Times \union {Never}, Alive(t)'
  PROVE  Alive(t)
BY CookieAssumption DEF Alive, Times, Never

(* An empty jar and an empty store.                                        *)
LEMMA InitInv == Init => Inv
BY DEF Init, Inv, Shapes, StoredIsKept, FreshIsKept

(* A cookie whose Max-Age and Expires agree has a known shape.             *)
LEMMA SetCookieInv == ASSUME ~MayDisagree, Inv, SetCookie PROVE Inv'
<1>1. PICK c \in Settable : jar' = Put(jar, c)
  BY DEF SetCookie
<1>2. Shape(c)
  BY DEF Settable, Shape, Cookies
<1>3. \A d \in jar' : Shape(d)
  BY <1>1, <1>2 DEF Put, Inv, Shapes
<1>4. QED
  BY <1>3 DEF SetCookie, Inv, Shapes, StoredIsKept, FreshIsKept, Alive

(* Time passes in the jar as it does in the saved one.                     *)
LEMMA TickInv == ASSUME Inv, Tick PROVE Inv'
<1>1. /\ clock \in Nat \ {0} /\ clock' = clock + 1
      /\ UNCHANGED <<stored, kept, fresh>>
  BY DEF Inv, Shapes, Tick
<1>2. jar' = {c \in jar : Alive(c.deadline)'}
  BY <1>1 DEF Tick, Alive
<1>3. Shapes'
  BY <1>1, <1>2 DEF Inv, Shapes
<1>4. \A c \in kept : Alive(c.deadline)' => Alive(c.deadline)
  BY <1>1, StillAlive DEF Inv, Shapes, Shape, Cookies
<1>5. StoredIsKept'
  BY <1>1, <1>4 DEF Inv, StoredIsKept
<1>6. FreshIsKept'
  <2> SUFFICES ASSUME fresh PROVE
        /\ \A d \in jar' : \E c \in kept : Alike(c, d)
        /\ \A c \in kept : c.name \in Allowed /\ Alive(c.deadline)' =>
             \E d \in jar' : Alike(c, d)
    BY <1>1 DEF FreshIsKept
  <2>1. \A d \in jar' : \E c \in kept : Alike(c, d)
    BY <1>2 DEF Inv, FreshIsKept
  <2>2. ASSUME NEW c \in kept, c.name \in Allowed, Alive(c.deadline)'
        PROVE  \E d \in jar' : Alike(c, d)
    <3>1. PICK d \in jar : Alike(c, d)
      BY <1>4, <2>2 DEF Inv, FreshIsKept
    <3>2. d \in jar'
      BY <1>2, <2>2, <3>1 DEF Alike
    <3>3. QED
      BY <3>1, <3>2
  <2>3. QED
    BY <2>1, <2>2
<1>7. QED
  BY <1>3, <1>5, <1>6 DEF Inv

(* A save makes the jar the one to compare with.                           *)
LEMMA SaveInv == ASSUME Inv, Save PROVE Inv'
<1>1. /\ stored' = Export(jar) /\ kept' = jar
      /\ UNCHANGED <<clock, jar, fresh>>
  BY DEF Save
<1>2. \A c \in jar : Shape(c)
  BY DEF Inv, Shapes
<1>3. Shapes'
  BY <1>1, <1>2 DEF Inv, Shapes
<1>4. StoredIsKept'
  BY <1>1, <1>2, ExportForms DEF StoredIsKept, Alive
<1>5. FreshIsKept'
  BY <1>1 DEF FreshIsKept, Alike
<1>6. QED
  BY <1>3, <1>4, <1>5 DEF Inv

(* A restart restores what the store kept.                                 *)
RestoresAll ==
  /\ jar' = {Restored(s) : s \in {s \in stored : Valid(s)}}
  /\ UNCHANGED <<clock, stored, kept>>

LEMMA RestoreInv == ASSUME Inv, RestoresAll PROVE Inv'
<1>1. /\ jar' = {Restored(s) : s \in {s \in stored : Valid(s)}}
      /\ UNCHANGED <<clock, stored, kept>>
  BY DEF RestoresAll
<1>2. \A c \in kept : Shape(c)
  BY DEF Inv, Shapes
<1>3. \A d \in jar' : \E c \in kept : d = Restored(StoredForm(c))
  BY <1>1 DEF Inv, StoredIsKept
<1>4. Shapes'
  BY <1>1, <1>2, <1>3, RoundTrip DEF Inv, Shapes
<1>5. StoredIsKept'
  BY <1>1 DEF Inv, StoredIsKept, Alive
<1>6. \A d \in jar' : \E c \in kept : Alike(c, d)
  BY <1>2, <1>3, RoundTrip
<1>7. ASSUME NEW c \in kept, c.name \in Allowed, Alive(c.deadline)
      PROVE  \E d \in jar' : Alike(c, d)
  <2>1. StoredForm(c) \in stored
    BY <1>7 DEF Inv, StoredIsKept
  <2>2. Valid(StoredForm(c))
    BY <1>2, <1>7, RoundTrip DEF Valid
  <2>3. Restored(StoredForm(c)) \in jar'
    BY <1>1, <2>1, <2>2
  <2>4. QED
    BY <1>2, <2>3, RoundTrip
<1>8. FreshIsKept'
  BY <1>1, <1>6, <1>7 DEF FreshIsKept, Alive
<1>9. QED
  BY <1>4, <1>5, <1>8 DEF Inv

(* And one that cannot read it starts with an empty jar.                   *)
LEMMA RestartInv == ASSUME Inv, Restart PROVE Inv'
<1>1. CASE RestoresAll
  BY <1>1, RestoreInv
<1>2. CASE jar' = {} /\ ~fresh' /\ UNCHANGED <<clock, stored, kept>>
  BY <1>2 DEF Inv, Shapes, StoredIsKept, FreshIsKept, Alive
<1>3. QED
  BY <1>1, <1>2 DEF Restart, RestoresAll

(* The invariant is preserved by every step.                               *)
LEMMA NextInv == ASSUME ~MayDisagree, Inv, [Next]_vars PROVE Inv'
<1>1. CASE Next
  BY <1>1, SetCookieInv, TickInv, SaveInv, RestartInv DEF Next
<1>2. CASE UNCHANGED vars
  BY <1>2 DEF vars, Inv, Shapes, StoredIsKept, FreshIsKept, Alive
<1>3. QED
  BY <1>1, <1>2

(* Jars whose cookies are alike send the same.                             *)
LEMMA InvUnseen == Inv => RestartUnseen
<1> SUFFICES ASSUME Inv, fresh, NEW h \in Hosts PROVE Sent(jar, h) = Sent(kept, h)
  BY DEF RestartUnseen
<1>1. \A d \in jar : \E c \in kept : Alike(c, d)
  BY DEF Inv, FreshIsKept
<1>2. \A c \in kept : c.name \in Allowed /\ Alive(c.deadline) => \E d \in jar : Alike(c, d)
  BY DEF Inv, FreshIsKept
<1>3. Sent(jar, h) \subseteq Sent(kept, h)
  BY <1>1 DEF Sent, Alike
<1>4. Sent(kept, h) \subseteq Sent(jar, h)
  BY <1>2 DEF Sent, Alike
<1>5. QED
  BY <1>3, <1>4

(* A restart of Home Assistant is not seen by KEPCO ON: every host is sent *)
(* the cookies the jar of the saved session would send it, whatever        *)
(* cookies were set, however much time passed, and however often it        *)
(* restarts.                                                               *)
THEOREM RestartIsUnseen == ASSUME ~MayDisagree PROVE Spec => []RestartUnseen
<1>1. Inv /\ [Next]_vars => Inv'
  BY NextInv
<1>2. QED
  BY InitInv, InvUnseen, <1>1, PTL DEF Spec
------------------------------------------------------------------------------
(* What holds even where Max-Age and Expires disagree: a restart may lose  *)
(* or prolong a cookie, but it never hands it to another host and never    *)
(* makes two cookies of one.                                               *)

Same(c, d) == /\ c.name = d.name /\ c.value = d.value
              /\ c.domain = d.domain /\ c.hostOnly = d.hostOnly

Scoped(c) == c \in Cookies /\ (c.hostOnly => c.domain = "online")

Single(j) == \A c, d \in j : c.name = d.name /\ c.domain = d.domain => c = d

ScopeInv ==
  /\ \A c \in jar \union kept : Scoped(c)
  /\ \A s \in stored : \E c \in kept : s = StoredForm(c)
  /\ fresh => \A d \in jar : \E c \in kept : Same(c, d)
  /\ Single(jar) /\ Single(kept)

(* A cookie set by KEPCO ON that a restart restored goes to the hosts it   *)
(* went to before, and to no other.                                        *)
Reaches(c, h) == c.domain = h \/ (~c.hostOnly /\ (c.domain = "kepco" \/ h = "below"))

HostsKept ==
  fresh => \A d \in jar : \E c \in kept :
             /\ c.name = d.name /\ c.value = d.value
             /\ \A h \in Hosts : Reaches(c, h) <=> Reaches(d, h)

(* The stored domain of a cookie says which domain it had.                 *)
LEMMA DomainIsRead ==
  ASSUME NEW c, Scoped(c), Valid(StoredForm(c))
  PROVE  Same(c, Restored(StoredForm(c))) /\ Scoped(Restored(StoredForm(c)))
<1>1. StoredForm(c).expires \in Times \union {Never}
  BY DEF Scoped, Cookies, StoredForm, StoredExpires
<1>2. QED
  BY <1>1 DEF Scoped, Cookies, Domains, Same, Restored, StoredForm, StoredDomain

(* Every step preserves ScopeInv, for any Max-Age and Expires.             *)
LEMMA ScopeStep == ScopeInv /\ [Next]_vars => ScopeInv'
<1> SUFFICES ASSUME ScopeInv, [Next]_vars PROVE ScopeInv'
  OBVIOUS
<1>1. CASE SetCookie
  <2>1. PICK c \in Settable : jar' = Put(jar, c)
    BY <1>1 DEF SetCookie
  <2>2. Scoped(c)
    BY DEF Settable, Scoped
  <2>3. /\ \A d \in jar' : d \in jar \/ d = c
        /\ \A d \in jar' : d.name = c.name /\ d.domain = c.domain => d = c
    BY <2>1 DEF Put
  <2>4. Single(jar')
    BY <2>3 DEF ScopeInv, Single
  <2>5. QED
    BY <1>1, <2>2, <2>3, <2>4 DEF SetCookie, ScopeInv
<1>2. CASE Tick
  <2>1. jar' \subseteq jar /\ UNCHANGED <<stored, kept, fresh>>
    BY <1>2 DEF Tick
  <2>2. Single(jar')
    BY <2>1 DEF ScopeInv, Single
  <2>3. QED
    BY <2>1, <2>2 DEF ScopeInv
<1>3. CASE Save
  <2>1. stored' = Export(jar) /\ kept' = jar /\ UNCHANGED <<jar, fresh>>
    BY <1>3 DEF Save
  <2>2. \A s \in stored' : \E c \in kept' : s = StoredForm(c)
    BY <2>1 DEF Export, StoredForm
  <2>3. QED
    BY <2>1, <2>2 DEF ScopeInv, Same
<1>4. CASE Restart
  <2>1. CASE jar' = {} /\ ~fresh' /\ UNCHANGED <<stored, kept>>
    BY <2>1 DEF ScopeInv, Single
  <2>2. CASE RestoresAll
    <3>1. jar' = {Restored(s) : s \in {s \in stored : Valid(s)}} /\ UNCHANGED <<stored, kept>>
      BY <2>2 DEF RestoresAll
    <3>2. \A d \in jar' : \E c \in kept : Valid(StoredForm(c)) /\ d = Restored(StoredForm(c))
      BY <3>1 DEF ScopeInv
    <3>3. \A d \in jar' :
            Scoped(d) /\ \E c \in kept : Same(c, d) /\ d = Restored(StoredForm(c))
      BY <3>2, DomainIsRead DEF ScopeInv
    <3>4. Single(jar')
      BY <3>3 DEF ScopeInv, Single, Same
    <3>5. QED
      BY <3>1, <3>3, <3>4 DEF ScopeInv
  <2>3. QED
    BY <1>4, <2>1, <2>2 DEF Restart, RestoresAll
<1>5. CASE UNCHANGED vars
  BY <1>5 DEF vars, ScopeInv
<1>6. QED
  BY <1>1, <1>2, <1>3, <1>4, <1>5 DEF Next

(* So it holds throughout.                                                 *)
LEMMA ScopeHolds == Spec => []ScopeInv
<1>1. Init => ScopeInv
  BY DEF Init, ScopeInv, Single
<1>2. QED
  BY <1>1, ScopeStep, PTL DEF Spec

(* Whatever Max-Age and Expires said, a restored cookie is sent to exactly *)
(* the hosts it was sent to before: a host-only cookie stays host-only and *)
(* a cookie of the domain stays one.                                       *)
THEOREM HostsAreKept == Spec => []HostsKept
<1>1. ScopeInv => HostsKept
  BY DEF ScopeInv, HostsKept, Same, Reaches
<1>2. QED
  BY <1>1, ScopeHolds, PTL

(* The jar never holds two cookies of one name and domain, after a restart *)
(* neither: the order in which stored cookies are put back is of no        *)
(* account.                                                                *)
THEOREM OneCookieEach == Spec => []Single(jar)
<1>1. ScopeInv => Single(jar)
  BY DEF ScopeInv
<1>2. QED
  BY <1>1, ScopeHolds, PTL

===============================================================================
