-------------------------- MODULE CustomerFlows_proofs --------------------------
(***************************************************************************)
(* Proofs about CustomerFlows, for every set of contracts, any number of   *)
(* names and any number of reconfigure flows.                              *)
(***************************************************************************)
EXTENDS CustomerFlows, TLAPS

(* What KEPCO ON lists is good.                                            *)
LEMMA ParsedGood == ASSUME NEW n \in Names PROVE Good(Parsed(n))
BY DEF Parsed, Listed, Good, Customers, Keys

(* _with_stored_customer_keys keeps contracts apart and gives each one a   *)
(* key made for it.                                                        *)
LEMMA AdoptedGood ==
  ASSUME NEW live, NEW stored, Good(live), Good(stored)
  PROVE  Good(WithStoredKeys(live, stored))
<1>1. ASSUME NEW c \in live
      PROVE  /\ StableKey(c, live, stored) \in Keys
             /\ StableKey(c, live, stored)[1] = c.contract
  <2>1. c.key \in Keys /\ c.key[1] = c.contract
    BY DEF Good, Customers
  <2>2. CASE \E r \in Drifted(stored, live) : r.contract = c.contract
    <3> DEFINE Source == CHOOSE r \in Drifted(stored, live) : r.contract = c.contract
    <3>1. Source \in Drifted(stored, live) /\ Source.contract = c.contract
      BY <2>2
    <3>2. Source.key \in Keys /\ Source.key[1] = c.contract
      BY <3>1 DEF Drifted, Good, Customers
    <3>3. StableKey(c, live, stored) \in {Source.key, c.key}
      BY DEF StableKey
    <3> HIDE DEF Source
    <3>4. QED
      BY <2>1, <3>2, <3>3
  <2>3. CASE ~ \E r \in Drifted(stored, live) : r.contract = c.contract
    <3>1. StableKey(c, live, stored) = c.key
      BY <2>3 DEF StableKey
    <3>2. QED
      BY <2>1, <3>1
  <2>4. QED
    BY <2>2, <2>3
<1>2. \A c \in live : c.contract \in Contracts
  BY DEF Good, Customers
<1>3. \A c, d \in live : c.contract = d.contract => c = d
  BY DEF Good
<1>4. QED
  BY <1>1, <1>2, <1>3 DEF Good, WithStoredKeys, Customers

(* What is stored for a selection is good and has exactly its keys.        *)
LEMMA SelectedGood ==
  ASSUME NEW C, Good(C), NEW keys, keys \subseteq KeysOf(C)
  PROVE  Good(Selected(C, keys)) /\ KeysOf(Selected(C, keys)) = keys
BY DEF Good, Selected, KeysOf

(* No customers are a good list.                                           *)
LEMMA GoodEmpty == Good({})
BY DEF Good

(* The initial states satisfy the invariant.                               *)
LEMMA InitInv == Init => IInv
<1> SUFFICES ASSUME Init PROVE IInv
  OBVIOUS
<1>1. 1 \in Names
  BY FlowAssumption DEF Names
<1>2. TypeOK
  BY <1>1 DEF Init, TypeOK, NoEntry, Entries, Closed, Flow, Answers
<1>3. ListsGood
  BY GoodEmpty DEF Init, ListsGood, NoEntry, Closed
<1>4. SelectionStored
  BY DEF Init, SelectionStored, NoEntry, KeysOf, Closed
<1>5. RuntimeRead
  BY DEF Init, RuntimeRead
<1>6. QED
  BY <1>2, <1>3, <1>4, <1>5 DEF IInv

(* Writing a selection out of a good list keeps what is stored in order.   *)
LEMMA UpdateGood ==
  ASSUME IInv, NEW C, Good(C), NEW keys, keys \subseteq KeysOf(C), keys # {},
         Update(C, keys)
  PROVE  /\ entry' \in Entries /\ Good(entry'.customers)
         /\ entry'.selected = keys /\ entry'.selected = KeysOf(entry'.customers)
         /\ entry' # NoEntry
         /\ due' = TRUE /\ RuntimeRead'
<1>1. Good(Selected(C, keys)) /\ KeysOf(Selected(C, keys)) = keys
  BY SelectedGood
<1>2. entry' = [customers |-> Selected(C, keys), selected |-> keys]
  BY DEF Update
<1>3. keys \subseteq Keys
  BY <1>1 DEF Good, KeysOf, Customers
<1>4. entry' \in Entries
  BY <1>1, <1>2, <1>3 DEF Entries, Good
<1>5. due' = TRUE /\ UNCHANGED <<loading, runtime, authFailed, entities>>
  BY DEF Update
<1>6. RuntimeRead'
  BY <1>5 DEF IInv, RuntimeRead
<1>7. QED
  BY <1>1, <1>2, <1>4, <1>5, <1>6 DEF NoEntry

(* A step that leaves the entry and what is loaded alone keeps the          *)
(* invariant when the flows it opens hold good lists.                      *)
LEMMA FlowStep ==
  ASSUME IInv, UNCHANGED <<entry, loaded>>,
         rows' \in [Contracts -> {"listed", "malformed", "absent"}],
         {name', known'} \subseteq Names,
         adding' \in Flow, reauth' \in [flow : Flow, answer : Answers],
         tab' \in [Tabs -> Flow],
         Good(adding'.list), Good(reauth'.flow.list),
         \A t \in Tabs : Good(tab'[t].list),
         reauth'.flow.at = "fetched" => entry # NoEntry
  PROVE  IInv'
<1>1. TypeOK'
  BY DEF IInv, TypeOK, loaded
<1>2. ListsGood'
  BY DEF IInv, ListsGood, Good, Customers
<1>3. SelectionStored'
  BY DEF IInv, SelectionStored, KeysOf, NoEntry
<1>4. RuntimeRead'
  BY DEF IInv, RuntimeRead, loaded, KeysOf
<1>5. QED
  BY <1>1, <1>2, <1>3, <1>4 DEF IInv

(* A flow opened with a good list is a flow.                               *)
LEMMA OpenedFlow ==
  ASSUME NEW C, Good(C), NEW at \in {"fetched", "open"}
  PROVE  /\ [Closed EXCEPT !.at = at, !.list = C] \in Flow
         /\ [Closed EXCEPT !.at = at, !.list = C].list = C
         /\ Closed \in Flow /\ Good(Closed.list)
BY GoodEmpty DEF Closed, Flow, Good

(* The steps of KEPCO ON and of the flows that only read the entry.        *)
LEMMA ReadStep ==
  ASSUME IInv,
         \/ RowChanges \/ MemberRenamed \/ SessionRenewed
         \/ AddUser \/ ReauthFetch \/ ReauthMissing
         \/ \E t \in Tabs : \/ ReconfigureAsk(t) \/ ReconfigureShow(t)
                            \/ ReconfigureStored(t) \/ ReconfigureLeave(t)
  PROVE  IInv'
<1> USE DEF IInv
<1>1. /\ name \in Names /\ known \in Names
      /\ name < MaxNames => name + 1 \in Names
  BY FlowAssumption DEF TypeOK, Names
<1>2. CASE RowChanges \/ MemberRenamed \/ SessionRenewed
  <2>1. /\ rows' \in [Contracts -> {"listed", "malformed", "absent"}]
        /\ {name', known'} \subseteq Names
    BY <1>1, <1>2 DEF RowChanges, MemberRenamed, SessionRenewed, TypeOK
  <2>2. UNCHANGED <<entry, flows, loaded>>
    BY <1>2 DEF RowChanges, MemberRenamed, SessionRenewed
  <2>3. QED
    BY <2>1, <2>2, FlowStep DEF flows, TypeOK, ListsGood, SelectionStored
<1>3. CASE AddUser
  <2>1. Good(Parsed(name))
    BY <1>1, ParsedGood
  <2>2. adding' \in Flow /\ Good(adding'.list)
    BY <1>3, <2>1, OpenedFlow DEF AddUser
  <2>3. QED
    BY <1>1, <1>3, <2>2, FlowStep DEF AddUser, TypeOK, ListsGood, SelectionStored
<1>4. CASE ReauthFetch
  <2>1. Good(Parsed(name))
    BY <1>1, ParsedGood
  <2>2. reauth' \in [flow : Flow, answer : Answers] /\ Good(reauth'.flow.list)
    BY <1>4, <2>1 DEF ReauthFetch, Flow, Answers, Good, MalformedSkips
  <2>3. QED
    BY <1>4, <2>2, FlowStep DEF ReauthFetch, server, TypeOK, ListsGood
<1>5. CASE ReauthMissing
  <2>1. reauth' \in [flow : Flow, answer : Answers]
    BY <1>5 DEF ReauthMissing, MissingReason, Flow, Closed, Answers
  <2>2. Good(reauth'.flow.list) /\ reauth'.flow.at # "fetched"
    BY <1>5, GoodEmpty DEF ReauthMissing, Closed
  <2>3. QED
    BY <1>5, <2>1, <2>2, FlowStep DEF ReauthMissing, server, TypeOK, ListsGood
<1>6. ASSUME NEW t \in Tabs,
             \/ ReconfigureAsk(t) \/ ReconfigureShow(t)
             \/ ReconfigureStored(t) \/ ReconfigureLeave(t)
      PROVE  IInv'
  <2>1. /\ tab' \in [Tabs -> Flow]
        /\ \A u \in Tabs : Good(tab'[u].list)
    <3> USE DEF TypeOK, ListsGood
    <3>1. CASE ReconfigureAsk(t)
      <4>1. Good(Parsed(known))
        BY <1>1, ParsedGood
      <4>2. QED
        BY <3>1, <4>1, OpenedFlow DEF ReconfigureAsk
    <3>2. CASE ReconfigureShow(t)
      <4>1. Good(WithStoredKeys(tab[t].list, entry.customers))
        BY AdoptedGood
      <4>2. tab'[t] \in Flow /\ tab'[t].list = WithStoredKeys(tab[t].list, entry.customers)
        BY <3>2, <4>1 DEF ReconfigureShow, Flow, Good
      <4>3. \A u \in Tabs : u # t => tab'[u] = tab[u]
        BY <3>2 DEF ReconfigureShow
      <4>4. tab' = [u \in Tabs |-> tab'[u]]
        BY <3>2 DEF ReconfigureShow
      <4>5. QED
        BY <4>1, <4>2, <4>3, <4>4
    <3>3. CASE ReconfigureStored(t)
      BY <3>3, OpenedFlow DEF ReconfigureStored
    <3>4. CASE ReconfigureLeave(t)
      BY <3>4, OpenedFlow, GoodEmpty DEF ReconfigureLeave
    <3>5. QED
      BY <1>6, <3>1, <3>2, <3>3, <3>4
  <2>2. UNCHANGED <<server, entry, adding, reauth, loaded>>
    BY <1>6 DEF ReconfigureAsk, ReconfigureShow, ReconfigureStored, ReconfigureLeave
  <2>3. QED
    BY <2>1, <2>2, FlowStep DEF server, TypeOK, ListsGood, SelectionStored
<1>7. QED
  BY <1>2, <1>3, <1>4, <1>5, <1>6

(* The steps that write the entry: a flow holding a good list writes a     *)
(* selection out of it.                                                    *)
LEMMA WriteStep ==
  ASSUME IInv,
         AddCustomer \/ ReauthDone \/ \E t \in Tabs : ReconfigureSubmit(t)
  PROVE  IInv'
<1> USE DEF IInv
<1>1. ASSUME NEW C, Good(C), NEW keys, keys \subseteq KeysOf(C), keys # {},
             Update(C, keys), UNCHANGED server,
             adding' \in Flow, reauth' \in [flow : Flow, answer : Answers],
             tab' \in [Tabs -> Flow],
             Good(adding'.list), Good(reauth'.flow.list),
             \A t \in Tabs : Good(tab'[t].list)
      PROVE  IInv'
  <2>1. /\ entry' \in Entries /\ Good(entry'.customers)
        /\ entry'.selected = keys /\ entry'.selected = KeysOf(entry'.customers)
        /\ entry' # NoEntry
        /\ due' = TRUE /\ RuntimeRead'
    BY <1>1, UpdateGood
  <2>2. UNCHANGED <<loading, runtime, authFailed, entities>>
    BY <1>1 DEF Update
  <2>3. TypeOK'
    BY <1>1, <2>1, <2>2 DEF TypeOK, server
  <2>4. ListsGood'
    BY <1>1, <2>1 DEF ListsGood, Good, Customers
  <2>5. SelectionStored'
    BY <1>1, <2>1 DEF SelectionStored, KeysOf, NoEntry
  <2>6. QED
    BY <2>1, <2>3, <2>4, <2>5
<1>2. Closed \in Flow /\ Good(Closed.list)
  BY GoodEmpty, OpenedFlow
<1>3. CASE AddCustomer
  <2>1. PICK keys \in Choices(adding.list) : Update(adding.list, keys)
    BY <1>3 DEF AddCustomer
  <2>2. keys \subseteq KeysOf(adding.list) /\ keys # {} /\ Good(adding.list)
    BY DEF Choices, ListsGood
  <2>3. QED
    BY <1>1, <1>2, <1>3, <2>1, <2>2 DEF AddCustomer, TypeOK, ListsGood
<1>4. CASE ReauthDone
  <2>1. Good(Adopted)
    BY AdoptedGood DEF Adopted, ListsGood
  <2>2. entry.selected \subseteq KeysOf(Adopted) /\ entry.selected # {}
    BY <1>4 DEF ReauthDone, Missing, SelectionStored
  <2>3. /\ reauth' \in [flow : Flow, answer : Answers]
        /\ Good(reauth'.flow.list)
    BY <1>2, <1>4 DEF ReauthDone, Answers
  <2>4. QED
    BY <1>1, <1>4, <2>1, <2>2, <2>3 DEF ReauthDone, TypeOK, ListsGood
<1>5. ASSUME NEW t \in Tabs, ReconfigureSubmit(t)
      PROVE  IInv'
  <2>1. PICK keys \in Choices(tab[t].list) : Update(tab[t].list, keys)
    BY <1>5 DEF ReconfigureSubmit
  <2>2. keys \subseteq KeysOf(tab[t].list) /\ keys # {} /\ Good(tab[t].list)
    BY DEF Choices, ListsGood
  <2>3. tab' \in [Tabs -> Flow] /\ \A u \in Tabs : Good(tab'[u].list)
    BY <1>2, <1>5 DEF ReconfigureSubmit, TypeOK, ListsGood
  <2>4. QED
    BY <1>1, <1>5, <2>1, <2>2, <2>3 DEF ReconfigureSubmit, TypeOK, ListsGood
<1>6. QED
  BY <1>3, <1>4, <1>5

(* Loading, and what the registry does.                                    *)
LEMMA LoadStep ==
  ASSUME IInv,
         \/ Unload \/ SetupFails \/ SetupRuns \/ PlatformRuns \/ PlatformFails
         \/ SetupAgain \/ AuthFails \/ RemoveDevice
  PROVE  IInv'
<1> USE DEF IInv
<1>1. UNCHANGED <<rows, name, entry, flows>>
  BY DEF Unload, SetupFails, SetupRuns, PlatformRuns, PlatformFails, SetupAgain, AuthFails,
         RemoveDevice, server
<1>2. ListsGood' /\ SelectionStored'
  BY <1>1 DEF ListsGood, SelectionStored, flows, Good, KeysOf, NoEntry, Customers
<1>3. KeysOf(Selected(entry.customers, entry.selected)) = entry.selected
  BY SelectedGood DEF SelectionStored, ListsGood
<1>4. known' \in Names
  <2>1. CASE SetupRuns
    BY <1>1, <2>1, FlowAssumption DEF SetupRuns, TypeOK, Names
  <2>2. CASE ~SetupRuns
    BY <2>2 DEF Unload, SetupFails, PlatformRuns, PlatformFails, SetupAgain, AuthFails,
                RemoveDevice, server, TypeOK
  <2>3. QED
    BY <2>1, <2>2
<1>5. KeysOf(runtime) \subseteq Keys /\ Selected(entry.customers, entry.selected) \subseteq Customers
  BY DEF TypeOK, KeysOf, Customers, Selected, Entries
<1>6. TypeOK'
  <2>1. {due', authFailed'} \subseteq BOOLEAN
    BY DEF Unload, SetupFails, SetupRuns, PlatformRuns, PlatformFails, SetupAgain, AuthFails,
           RemoveDevice, TypeOK
  <2>2. loading' \in {"none", "setup", "platform"}
    BY DEF Unload, SetupFails, SetupRuns, PlatformRuns, PlatformFails, SetupAgain, AuthFails,
           RemoveDevice, TypeOK
  <2>3. runtime' \in SUBSET Customers
    BY <1>5 DEF Unload, SetupFails, SetupRuns, PlatformRuns, PlatformFails, SetupAgain, AuthFails,
                RemoveDevice, TypeOK
  <2>4. entities' \in SUBSET Keys
    BY <1>5 DEF Unload, SetupFails, SetupRuns, PlatformRuns, PlatformFails, SetupAgain, AuthFails,
                RemoveDevice, TypeOK
  <2>5. QED
    BY <1>1, <1>4, <2>1, <2>2, <2>3, <2>4 DEF TypeOK, flows
<1>7. RuntimeRead'
  <2> USE <1>1 DEF RuntimeRead
  <2>1. KeysOf({}) = {}
    BY DEF KeysOf
  <2>2. CASE Unload \/ SetupFails \/ SetupAgain
    BY <2>2 DEF Unload, SetupFails, SetupAgain
  <2>3. CASE SetupRuns
    <3>1. runtime' = Selected(entry.customers, entry.selected) /\ entry.selected # {}
          /\ loading' = "platform"
      BY <2>3 DEF SetupRuns, Usable
    <3>2. runtime' # {} /\ KeysOf(runtime') = entry.selected
      BY <1>3, <2>1, <3>1
    <3>3. QED
      BY <3>1, <3>2
  <2>4. CASE PlatformRuns \/ PlatformFails
    BY <2>4 DEF PlatformRuns, PlatformFails
  <2>5. CASE AuthFails
    BY <2>5 DEF AuthFails
  <2>6. CASE RemoveDevice
    BY <2>6 DEF RemoveDevice, KnownKeys
  <2>7. QED
    BY <2>2, <2>3, <2>4, <2>5, <2>6
<1>8. QED
  BY <1>2, <1>6, <1>7

(* A step of something else changes nothing.                               *)
LEMMA Stutter == ASSUME IInv, UNCHANGED vars PROVE IInv'
BY FlowStep DEF vars, loaded, IInv, TypeOK, ListsGood, SelectionStored

(* The invariant holds in every state of every behaviour.                  *)
THEOREM InvariantHolds == Spec => []IInv
<1>1. IInv /\ [Next]_vars => IInv'
  BY ReadStep, WriteStep, LoadStep, Stutter DEF Next
<1>2. QED
  BY InitInv, <1>1, PTL DEF Spec

(* The selection in the entry can always be set up, however the flows of   *)
(* config_flow.py interleave.                                              *)
THEOREM SelectionAlwaysUsable == Spec => []SelectionUsable
<1>1. IInv => SelectionUsable
  BY DEF IInv, ListsGood, Good, SelectionStored, SelectionUsable
<1>2. QED
  BY <1>1, InvariantHolds, PTL

(* A loaded entry with no reload to come has the entities of its selection.*)
THEOREM EntitiesMatch == Spec => []EntitiesFollowSelection
<1>1. IInv => EntitiesFollowSelection
  BY DEF IInv, RuntimeRead, EntitiesFollowSelection
<1>2. QED
  BY <1>1, InvariantHolds, PTL

(* The keys the platform setup removes from the registry are not selected, *)
(* unless a reload that brings them back is scheduled.                     *)
THEOREM SelectedEntitiesStay == Spec => EntitiesOfSelectedKept
<1> DEFINE Kept == (entities \ entities') \intersect entry.selected # {} => due
<1>1. IInv /\ [Next]_vars => Kept
  <2> SUFFICES ASSUME IInv, [Next]_vars PROVE Kept
    OBVIOUS
  <2>1. CASE entities' = entities
    BY <2>1
  <2>2. CASE PlatformRuns \/ PlatformFails
    BY <2>2 DEF PlatformRuns, PlatformFails, IInv, RuntimeRead
  <2>3. CASE RemoveDevice
    BY <2>3 DEF RemoveDevice, KnownKeys, IInv, RuntimeRead
  <2>4. QED
    BY <2>1, <2>2, <2>3 DEF Next, vars, loaded, RowChanges, MemberRenamed,
       SessionRenewed, AddUser, AddCustomer, ReauthFetch, ReauthDone,
       ReauthMissing, ReconfigureAsk, ReconfigureShow, ReconfigureStored,
       ReconfigureLeave, ReconfigureSubmit, Unload, SetupFails, SetupRuns,
       SetupAgain, AuthFails, Update
<1>2. QED
  BY <1>1, InvariantHolds, PTL DEF Spec, EntitiesOfSelectedKept

(* Reauthentication, decided against the entry as it is after the answers, *)
(* neither drops nor switches a configured customer.                       *)
THEOREM ReauthKeeps == Spec => ReauthKeepsSelection
<1> DEFINE Keeps == reauth.flow.at = "fetched" /\ reauth'.flow.at = "closed"
                      => entry'.selected = entry.selected
<1>1. [Next]_vars => Keeps
  <2> SUFFICES ASSUME [Next]_vars PROVE Keeps
    OBVIOUS
  <2>1. CASE reauth' = reauth
    BY <2>1
  <2>2. CASE ReauthDone
    BY <2>2 DEF ReauthDone, Update
  <2>3. CASE entry' = entry
    BY <2>3
  <2>4. QED
    BY <2>1, <2>2, <2>3 DEF Next, vars, flows, RowChanges, MemberRenamed,
       SessionRenewed, AddUser, AddCustomer, ReauthFetch,
       ReauthMissing, ReconfigureAsk, ReconfigureShow, ReconfigureStored,
       ReconfigureLeave, ReconfigureSubmit, Unload, SetupFails, SetupRuns,
       PlatformRuns, PlatformFails, SetupAgain, AuthFails, RemoveDevice
<1>2. QED
  BY <1>1, PTL DEF Spec, ReauthKeepsSelection

(* The variables have their types, in the entry and in every open flow.    *)
THEOREM TypeCorrect == Spec => []TypeOK
BY InvariantHolds, PTL DEF IInv

------------------------------------------------------------------------------
(* A reauthentication that has fetched a list has not answered yet.        *)
Undecided == reauth.flow.at = "fetched" => reauth.answer = "none"

(* No step makes a flow answer and keep its list at once: every step keeps    *)
(* that so.                                                                *)
LEMMA UndecidedStep == Undecided /\ [Next]_vars => Undecided'
<1> SUFFICES ASSUME Undecided, [Next]_vars PROVE Undecided'
  OBVIOUS
<1>1. CASE reauth' = reauth
  BY <1>1 DEF Undecided
<1>2. CASE ReauthFetch
  BY <1>2 DEF ReauthFetch, Undecided
<1>3. CASE ReauthDone \/ ReauthMissing
  BY <1>3 DEF ReauthDone, ReauthMissing, Closed, Undecided
<1>4. QED
  BY <1>1, <1>2, <1>3 DEF Next, vars, flows, RowChanges, MemberRenamed,
     SessionRenewed, AddUser, AddCustomer, ReconfigureAsk, ReconfigureShow,
     ReconfigureStored, ReconfigureLeave, ReconfigureSubmit, Unload, SetupFails,
     SetupRuns, PlatformRuns, PlatformFails, SetupAgain, AuthFails, RemoveDevice

(* Reauthentication reports no customer as removed that a malformed row of *)
(* KEPCO ON's list may hide.                                               *)
THEOREM HiddenNotReported == Spec => HiddenIsNotMissing
<1> DEFINE Fair == reauth.flow.at = "fetched" /\ reauth'.answer = "customer_missing"
                     => \A c \in entry.customers : c.contract \notin reauth.flow.bad
<1>1. Undecided /\ [Next]_vars => Fair
  <2> SUFFICES ASSUME Undecided, [Next]_vars PROVE Fair
    OBVIOUS
  <2>1. CASE reauth' = reauth
    BY <2>1 DEF Undecided
  <2>2. CASE ReauthFetch \/ ReauthDone
    BY <2>2 DEF ReauthFetch, ReauthDone
  <2>3. CASE ReauthMissing
    BY <2>3 DEF ReauthMissing, MissingReason
  <2>4. QED
    BY <2>1, <2>2, <2>3 DEF Next, vars, flows, RowChanges, MemberRenamed,
       SessionRenewed, AddUser, AddCustomer, ReconfigureAsk, ReconfigureShow,
       ReconfigureStored, ReconfigureLeave, ReconfigureSubmit, Unload, SetupFails,
       SetupRuns, PlatformRuns, PlatformFails, SetupAgain, AuthFails, RemoveDevice
<1>2. Init => Undecided
  BY DEF Init, Closed, Undecided
<1>3. QED
  BY <1>1, <1>2, UndecidedStep, PTL DEF Spec, HiddenIsNotMissing

------------------------------------------------------------------------------
(* With one reconfigure flow, the list it shows has the entry's key for    *)
(* every contract of the entry, until it is submitted.                     *)
Agree(C, D) == \A c \in C, d \in D : c.contract = d.contract => c.key = d.key

Faithful ==
  /\ adding.at = "open" => entry = NoEntry
  /\ \A t \in Tabs : /\ tab[t].at # "closed" => entry # NoEntry
                     /\ tab[t].at = "open" => Agree(tab[t].list, entry.customers)

(* Adopting stored keys keeps the key of every contract it finds.          *)
LEMMA AdoptedAgrees ==
  ASSUME NEW live, NEW stored, Good(live), Good(stored)
  PROVE  Agree(WithStoredKeys(live, stored), stored)
<1> SUFFICES ASSUME NEW c \in live, NEW d \in stored, c.contract = d.contract
             PROVE  StableKey(c, live, stored) = d.key
  BY DEF Agree, WithStoredKeys
<1>1. c.key[1] = c.contract /\ d.key[1] = d.contract
  BY DEF Good
<1>2. CASE c.key \in KeysOf(stored)
  <2>1. PICK r \in stored : r.key = c.key
    BY <1>2 DEF KeysOf
  <2>2. r.contract = d.contract
    BY <1>1, <2>1 DEF Good
  <2>3. r = d
    BY <2>2 DEF Good
  <2>4. QED
    BY <1>2, <2>1, <2>3 DEF StableKey
<1>3. CASE c.key \notin KeysOf(stored)
  <2>1. d.key \notin KeysOf(live)
    <3>1. SUFFICES ASSUME NEW e \in live, e.key = d.key PROVE FALSE
      BY DEF KeysOf
    <3>2. e.contract = c.contract
      BY <1>1, <3>1 DEF Good
    <3>3. e = c
      BY <3>2 DEF Good
    <3>4. QED
      BY <1>3, <3>1, <3>3 DEF KeysOf
  <2>2. d \in Drifted(stored, live)
    BY <2>1 DEF Drifted
  <2>3. \A r \in Drifted(stored, live) : r.contract = c.contract => r = d
    BY DEF Drifted, Good
  <2>4. (CHOOSE r \in Drifted(stored, live) : r.contract = c.contract) = d
    BY <2>2, <2>3
  <2>5. QED
    BY <1>3, <2>2, <2>4 DEF StableKey
<1>4. QED
  BY <1>2, <1>3

(* Reauthentication writes customers the entry has already.                *)
LEMMA ReauthAddsNobody ==
  ASSUME IInv, ReauthDone
  PROVE  entry'.customers \subseteq entry.customers
<1>1. entry'.customers = Selected(Adopted, entry.selected)
  BY DEF ReauthDone, Update
<1>2. Good(Adopted) /\ Good(entry.customers)
  BY AdoptedGood DEF Adopted, IInv, ListsGood
<1>3. ASSUME NEW c \in Adopted, c.key \in entry.selected PROVE c \in entry.customers
  <2>1. PICK d \in entry.customers : d.key = c.key
    BY <1>3 DEF IInv, SelectionStored, KeysOf
  <2>2. c.contract = d.contract
    BY <1>2, <2>1 DEF Good
  <2>3. c = d
    BY <1>2, <2>1, <2>2 DEF Good, Customers
  <2>4. QED
    BY <2>3
<1>4. QED
  BY <1>1, <1>3 DEF Selected

(* Faithful is preserved when at most one reconfigure flow is open.        *)
LEMMA FaithfulStep ==
  ASSUME \A t, u \in Tabs : t = u, IInv, IInv', Faithful, [Next]_vars
  PROVE  Faithful'
<1> USE DEF Faithful
<1>1. CASE UNCHANGED <<entry, adding, tab>>
  BY <1>1 DEF Agree
<1>2. CASE AddUser
  BY <1>2 DEF AddUser, loaded, Agree
<1>3. CASE AddCustomer
  <2>1. \A t \in Tabs : tab'[t].at = "closed"
    BY <1>3 DEF AddCustomer, IInv, TypeOK
  <2>2. QED
    BY <1>3, <2>1 DEF AddCustomer, Closed
<1>4. CASE ReauthDone
  <2>1. entry'.customers \subseteq entry.customers /\ entry # NoEntry
    BY <1>4, ReauthAddsNobody DEF ReauthDone, IInv, SelectionStored
  <2>2. entry' # NoEntry
    BY <1>4, <2>1 DEF ReauthDone, Update, NoEntry, IInv, SelectionStored
  <2>3. UNCHANGED <<adding, tab>>
    BY <1>4 DEF ReauthDone
  <2>4. QED
    BY <2>1, <2>2, <2>3 DEF Agree
<1>5. ASSUME NEW t \in Tabs, ReconfigureSubmit(t) PROVE Faithful'
  <2>1. tab' = [tab EXCEPT ![t] = Closed] /\ UNCHANGED adding
    BY <1>5 DEF ReconfigureSubmit
  <2>2. \A u \in Tabs : tab'[u].at = "closed"
    BY <2>1 DEF Closed, IInv, TypeOK
  <2>3. adding.at # "open"
    BY <1>5 DEF ReconfigureSubmit
  <2>4. QED
    BY <2>1, <2>2, <2>3
<1>6. ASSUME NEW t \in Tabs,
             \/ ReconfigureAsk(t) \/ ReconfigureShow(t)
             \/ ReconfigureStored(t) \/ ReconfigureLeave(t)
      PROVE  Faithful'
  <2>1. UNCHANGED <<entry, adding>>
    BY <1>6 DEF ReconfigureAsk, ReconfigureShow, ReconfigureStored, ReconfigureLeave
  <2>2. /\ tab'[t].at # "closed" => entry # NoEntry
        /\ tab'[t].at = "open" => Agree(tab'[t].list, entry.customers)
    <3>1. tab \in [Tabs -> Flow]
      BY DEF IInv, TypeOK
    <3>2. CASE ReconfigureAsk(t)
      BY <3>1, <3>2 DEF ReconfigureAsk, Closed
    <3>3. CASE ReconfigureShow(t)
      <4>1. Good(tab[t].list) /\ Good(entry.customers)
        BY DEF IInv, ListsGood
      <4>2. tab'[t].list = WithStoredKeys(tab[t].list, entry.customers)
        BY <3>1, <3>3 DEF ReconfigureShow, Flow
      <4>3. tab[t].at = "fetched"
        BY <3>3 DEF ReconfigureShow
      <4>4. QED
        BY <4>1, <4>2, <4>3, AdoptedAgrees
    <3>4. CASE ReconfigureStored(t)
      <4>1. tab'[t].list = entry.customers
        BY <3>1, <3>4 DEF ReconfigureStored, Closed
      <4>2. entry # NoEntry
        BY <3>4 DEF ReconfigureStored
      <4>3. QED
        BY <4>1, <4>2 DEF Agree, IInv, ListsGood, Good
    <3>5. CASE ReconfigureLeave(t)
      BY <3>1, <3>5 DEF ReconfigureLeave, Closed
    <3>6. QED
      BY <1>6, <3>2, <3>3, <3>4, <3>5
  <2>3. QED
    BY <2>1, <2>2 DEF Agree
<1>7. QED
  BY <1>1, <1>2, <1>3, <1>4, <1>5, <1>6 DEF Next, vars, flows, loaded, server,
     RowChanges, MemberRenamed, SessionRenewed, ReauthFetch, ReauthMissing, Unload,
     SetupFails, SetupRuns, PlatformRuns, PlatformFails, SetupAgain, AuthFails, RemoveDevice

(* A step from a faithful state keeps the keys of configured contracts.    *)
LEMMA KeysStep ==
  ASSUME IInv, Faithful, [Next]_vars
  PROVE  Agree(entry.customers, entry'.customers)
<1>1. CASE entry' = entry
  BY <1>1 DEF Agree, IInv, ListsGood, Good
<1>2. CASE AddCustomer
  BY <1>2 DEF AddCustomer, Faithful, NoEntry, Agree
<1>3. CASE ReauthDone
  BY <1>3, ReauthAddsNobody DEF Agree, IInv, ListsGood, Good
<1>4. ASSUME NEW t \in Tabs, ReconfigureSubmit(t)
      PROVE  Agree(entry.customers, entry'.customers)
  BY <1>4 DEF ReconfigureSubmit, Update, Selected, Faithful, Agree
<1>5. QED
  BY <1>1, <1>2, <1>3, <1>4 DEF Next, vars, loaded, server, RowChanges,
     MemberRenamed, SessionRenewed, AddUser, ReauthFetch, ReauthMissing,
     ReconfigureAsk, ReconfigureShow, ReconfigureStored, ReconfigureLeave, Unload,
     SetupFails, SetupRuns, PlatformRuns, PlatformFails, SetupAgain, AuthFails, RemoveDevice

(* With at most one reconfigure flow at a time, and a reauthentication     *)
(* beside it, a contract that stays configured keeps its stable key.       *)
THEOREM KeysStay ==
  ASSUME \A t, u \in Tabs : t = u
  PROVE  Spec => KeysStable
<1>1. Init => Faithful
  BY DEF Init, Closed, Faithful
<1>2. IInv /\ IInv' /\ Faithful /\ [Next]_vars => Faithful'
  BY FaithfulStep
<1> DEFINE Stays == \A c \in entry.customers, d \in entry'.customers :
                      c.contract = d.contract => c.key = d.key
<1>3. IInv /\ Faithful /\ [Next]_vars => Stays
  BY KeysStep DEF Agree
<1>4. QED
  BY <1>1, <1>2, <1>3, InvariantHolds, PTL DEF Spec, KeysStable
===============================================================================
