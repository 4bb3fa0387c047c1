----------------------------- MODULE CustomerFlows -----------------------------
(***************************************************************************)
(* The configured customers of one entry (config_flow.py, models.py and    *)
(* the registry part of sensor.py): how the flow that adds the entry, the  *)
(* reauthentication flow and the reconfigure flows of several browser tabs *)
(* change them while KEPCO ON's list of contracts and the member's name    *)
(* change, and how reloads turn them into entities.                        *)
(*                                                                         *)
(* A customer's stable key is a hash of the account, the member's name and *)
(* the contract; it is modelled as the pair of contract and name.  KEPCO   *)
(* ON lists a contract at most once.                                       *)
(***************************************************************************)
EXTENDS Naturals, FiniteSets

CONSTANTS
  Contracts,   \* the contracts of the account
  Tabs,        \* reconfigure flows that may be open at a time
  MaxNames     \* bound: names the member has over time

ASSUME FlowAssumption == /\ IsFiniteSet(Contracts)
                         /\ MaxNames \in Nat \ {0}

VARIABLES
  rows,      \* what KEPCO ON's customer list has for each contract
  name,      \* the member's current name
  known,     \* the member's name in the session of the entry
  entry,     \* the customers and the selected keys in the entry's data
  adding,    \* the list the add flow holds between its two steps
  reauth,    \* the reauthentication flow and the answer it fetched
  tab,       \* each reconfigure flow and its cached customers
  due,       \* whether a reload is scheduled
  loading,   \* the setup under way
  runtime,   \* the customers of the loaded entry's coordinator
  authFailed,\* whether the coordinator stopped after an auth error
  entities   \* the stable keys that have entities in the registry

vars == <<rows, name, known, entry, adding, reauth, tab, due, loading, runtime,
          authFailed, entities>>
server == <<rows, name, known>>
flows  == <<adding, reauth, tab>>
loaded == <<due, loading, runtime, authFailed, entities>>

Names     == 1..MaxNames
Keys      == Contracts \X Names
Customers == [contract : Contracts, key : Keys]
KeysOf(C) == {c.key : c \in C}

NoEntry == [customers |-> {}, selected |-> {}]
Entries == [customers : SUBSET Customers, selected : SUBSET Keys]
Closed  == [at |-> "closed", list |-> {}, bad |-> {}]
Flow    == [at : {"closed", "fetched", "open"}, list : SUBSET Customers,
            bad : SUBSET Contracts]
Answers == {"none", "done", "customer_missing", "protocol_changed"}

------------------------------------------------------------------------------
(* parse_customers_with_skips: a malformed row, or one of an unsupported   *)
(* contract, is skipped alone; keys are made for the name n of the session.*)
Listed == {c \in Contracts : rows[c] = "listed"}
Parsed(n) == {[contract |-> c, key |-> <<c, n>>] : c \in Listed}
MalformedSkips == {c \in Contracts : rows[c] = "malformed"}

(* _with_stored_customer_keys: a live customer whose key is not stored     *)
(* takes the key stored for the same contract, unless a live customer has  *)
(* that one.                                                               *)
Drifted(stored, live) == {r \in stored : r.key \notin KeysOf(live)}

\* Mutant: any stored key that drifted is taken.
BugAnyStoredKey(c, live, stored) ==
  IF c.key \notin KeysOf(stored) /\ Drifted(stored, live) # {}
  THEN (CHOOSE r \in Drifted(stored, live) : TRUE).key
  ELSE c.key

StableKey(c, live, stored) ==
  IF /\ c.key \notin KeysOf(stored)
     /\ \E r \in Drifted(stored, live) : r.contract = c.contract
  THEN (CHOOSE r \in Drifted(stored, live) : r.contract = c.contract).key
  ELSE c.key

WithStoredKeys(live, stored) ==
  {[contract |-> c.contract, key |-> StableKey(c, live, stored)] : c \in live}

(* validate_selected_keys, selected_customers                              *)
Choices(C) == (SUBSET KeysOf(C)) \ {{}}

Selected(C, keys) == {c \in C : c.key \in keys}

------------------------------------------------------------------------------
Init ==
  /\ rows \in [Contracts -> {"listed", "malformed", "absent"}]
  /\ name = 1
  /\ known = 1
  /\ entry = NoEntry
  /\ adding = Closed
  /\ reauth = [flow |-> Closed, answer |-> "none"]
  /\ tab = [t \in Tabs |-> Closed]
  /\ due = FALSE
  /\ loading = "none"
  /\ runtime = {}
  /\ authFailed = FALSE
  /\ entities = {}

(* KEPCO ON *)
RowChanges ==
  /\ \E c \in Contracts, r \in {"listed", "malformed", "absent"} :
       rows' = [rows EXCEPT ![c] = r]
  /\ UNCHANGED <<name, known, entry, flows, loaded>>

MemberRenamed ==
  /\ name < MaxNames
  /\ name' = name + 1
  /\ UNCHANGED <<rows, known, entry, flows, loaded>>

(* A login of the running entry (AuthSession).                             *)
SessionRenewed ==
  /\ runtime # {}
  /\ known # name
  /\ known' = name
  /\ UNCHANGED <<rows, name, entry, flows, loaded>>

\* Mutant: the selected keys are written without their customers.
BugOnlyKeys(C, keys) ==
  /\ entry' = [selected |-> keys]
  /\ due' = TRUE
  /\ UNCHANGED <<loading, runtime, authFailed, entities>>

(* async_update_reload_and_abort: the entry's data changes at once, the    *)
(* reload is scheduled and runs after one that is under way.               *)
Update(C, keys) ==
  /\ entry' = [customers |-> Selected(C, keys), selected |-> keys]
  /\ due' = TRUE
  /\ UNCHANGED <<loading, runtime, authFailed, entities>>

------------------------------------------------------------------------------
(* The flow that adds the entry.  It aborts when the account has one.      *)
AddUser ==
  /\ entry = NoEntry
  /\ Listed # {}
  /\ adding' = [Closed EXCEPT !.at = "open", !.list = Parsed(name)]
  /\ known' = name
  /\ UNCHANGED <<rows, name, entry, reauth, tab, loaded>>

AddCustomer ==
  /\ adding.at = "open"
  /\ \E keys \in Choices(adding.list) : Update(adding.list, keys)
  /\ adding' = Closed
  /\ UNCHANGED <<server, reauth, tab>>

------------------------------------------------------------------------------
(* async_step_reauth_confirm: log in to the same account, ask for its      *)
(* customers, then decide against the entry's data as it is by then.  A    *)
(* failed request or a list without a usable customer shows the form.      *)
ReauthFetch ==
  /\ entry # NoEntry
  /\ reauth.flow = Closed
  /\ Listed # {}
  /\ reauth' = [flow   |-> [at   |-> "fetched", list |-> Parsed(name),
                            bad  |-> MalformedSkips],
                answer |-> "none"]
  /\ UNCHANGED <<server, entry, adding, tab, loaded>>

Adopted == WithStoredKeys(reauth.flow.list, entry.customers)
Missing == entry.selected \ KeysOf(Adopted)

\* Mutant: customers that are gone are dropped from the selection.
BugDropMissing ==
  /\ reauth.flow.at = "fetched"
  /\ entry.selected \ Missing # {}
  /\ Update(Adopted, entry.selected \ Missing)
  /\ reauth' = [flow |-> Closed, answer |-> "done"]
  /\ UNCHANGED <<server, adding, tab>>

ReauthDone ==
  /\ reauth.flow.at = "fetched"
  /\ Missing = {}
  /\ Update(Adopted, entry.selected)
  /\ reauth' = [flow |-> Closed, answer |-> "done"]
  /\ UNCHANGED <<server, adding, tab>>

\* Mutant: skipped rows matter only when nothing else is listed.
BugBlameEmpty == IF reauth.flow.list = {} THEN "protocol_changed"
                                          ELSE "customer_missing"

(* A configured contract may be hidden by a malformed row.                 *)
MissingReason == IF reauth.flow.bad # {} THEN "protocol_changed"
                                         ELSE "customer_missing"

ReauthMissing ==
  /\ reauth.flow.at = "fetched"
  /\ Missing # {}
  /\ reauth' = [flow |-> Closed, answer |-> MissingReason]
  /\ UNCHANGED <<server, entry, adding, tab, loaded>>

------------------------------------------------------------------------------
(* _async_reconfigure_customers                                            *)

UseLiveClient == loading = "none" /\ runtime # {} /\ ~authFailed

ReconfigureAsk(t) ==
  /\ entry # NoEntry
  /\ tab[t].at = "closed"
  /\ UseLiveClient
  /\ Listed # {}
  /\ tab' = [tab EXCEPT ![t] = [Closed EXCEPT !.at = "fetched",
                                              !.list = Parsed(known)]]
  /\ UNCHANGED <<server, entry, adding, reauth, loaded>>

\* Mutant: the live list is shown with the keys of the current name.
BugShowLive(t) ==
  /\ tab[t].at = "fetched"
  /\ tab' = [tab EXCEPT ![t].at = "open"]
  /\ UNCHANGED <<server, entry, adding, reauth, loaded>>

ReconfigureShow(t) ==
  /\ tab[t].at = "fetched"
  /\ tab' = [tab EXCEPT ![t].at = "open",
                        ![t].list = WithStoredKeys(@, entry.customers)]
  /\ UNCHANGED <<server, entry, adding, reauth, loaded>>

(* Not loaded, auth failed before, or an auth error now: what is stored.   *)
ReconfigureStored(t) ==
  /\ entry # NoEntry
  /\ \/ tab[t].at = "closed" /\ ~UseLiveClient
     \/ tab[t].at = "fetched"
  /\ tab' = [tab EXCEPT ![t] = [Closed EXCEPT !.at = "open",
                                              !.list = entry.customers]]
  /\ UNCHANGED <<server, entry, adding, reauth, loaded>>

(* A request that fails shows an error; an abandoned flow is removed.      *)
ReconfigureLeave(t) ==
  /\ tab[t].at # "closed"
  /\ tab' = [tab EXCEPT ![t] = Closed]
  /\ UNCHANGED <<server, entry, adding, reauth, loaded>>

ReconfigureSubmit(t) ==
  /\ tab[t].at = "open"
  /\ \E keys \in Choices(tab[t].list) : Update(tab[t].list, keys)
  /\ tab' = [tab EXCEPT ![t] = Closed]
  /\ UNCHANGED <<server, adding, reauth>>

------------------------------------------------------------------------------
(* Loading: unload, the customers phase of the setup, the sensor platform. *)
Unload ==
  /\ due
  /\ loading = "none"
  /\ due' = FALSE
  /\ loading' = "setup"
  /\ runtime' = {}
  /\ authFailed' = FALSE
  /\ UNCHANGED <<server, entry, flows, entities>>

(* strict_selected_stored_customers; nothing else in the data is used.     *)
Usable == entry.selected # {} /\ entry.selected \subseteq KeysOf(entry.customers)

SetupFails ==
  /\ loading = "setup"
  /\ loading' = "none"
  /\ UNCHANGED <<server, entry, flows, due, runtime, authFailed, entities>>

SetupRuns ==
  /\ loading = "setup"
  /\ Usable
  /\ loading' = "platform"
  /\ runtime' = Selected(entry.customers, entry.selected)
  /\ known' \in known..name
  /\ UNCHANGED <<rows, name, entry, flows, due, authFailed, entities>>

\* Mutant: entities of customers no longer selected are kept.
BugKeepEntities ==
  /\ loading = "platform"
  /\ entities' = entities \union KeysOf(runtime)
  /\ loading' = "none"
  /\ UNCHANGED <<server, entry, flows, due, runtime, authFailed>>

(* _async_remove_stale_registry_entries, then the new entities.            *)
PlatformRuns ==
  /\ loading = "platform"
  /\ entities' = KeysOf(runtime)
  /\ loading' = "none"
  /\ UNCHANGED <<server, entry, flows, due, runtime, authFailed>>

(* The platform fails before or after the clean-up, or its forwarding      *)
(* does: async_setup_entry clears the runtime data.                        *)
PlatformFails ==
  /\ loading = "platform"
  /\ entities' \in {entities, entities \intersect KeysOf(runtime)}
  /\ runtime' = {}
  /\ loading' = "none"
  /\ UNCHANGED <<server, entry, flows, due, authFailed>>

SetupAgain ==
  /\ loading = "none"
  /\ entry # NoEntry
  /\ runtime = {}
  /\ loading' = "setup"
  /\ UNCHANGED <<server, entry, flows, due, runtime, authFailed, entities>>

AuthFails ==
  /\ loading = "none"
  /\ runtime # {}
  /\ authFailed' = TRUE
  /\ UNCHANGED <<server, entry, flows, due, loading, runtime, entities>>

(* async_remove_config_entry_device, when the user asks for it.            *)
\* Mutant: an entry that is not loaded lets every device be deleted.
BugForgetStored == KeysOf(runtime)
KnownKeys == IF runtime # {} THEN KeysOf(runtime) ELSE entry.selected

RemoveDevice ==
  /\ \E k \in entities \ KnownKeys : entities' = entities \ {k}
  /\ UNCHANGED <<server, entry, flows, due, loading, runtime, authFailed>>

Next == \/ RowChanges \/ MemberRenamed \/ SessionRenewed
        \/ AddUser \/ AddCustomer
        \/ ReauthFetch \/ ReauthDone \/ ReauthMissing
        \/ \E t \in Tabs : \/ ReconfigureAsk(t) \/ ReconfigureShow(t)
                           \/ ReconfigureStored(t) \/ ReconfigureLeave(t)
                           \/ ReconfigureSubmit(t)
        \/ Unload \/ SetupFails \/ SetupRuns \/ PlatformRuns \/ PlatformFails
        \/ SetupAgain \/ AuthFails \/ RemoveDevice

Spec == Init /\ [][Next]_vars

------------------------------------------------------------------------------
TypeOK ==
  /\ rows \in [Contracts -> {"listed", "malformed", "absent"}]
  /\ {name, known} \subseteq Names
  /\ entry \in Entries
  /\ adding \in Flow
  /\ reauth \in [flow : Flow, answer : Answers]
  /\ tab \in [Tabs -> Flow]
  /\ {due, authFailed} \subseteq BOOLEAN
  /\ loading \in {"none", "setup", "platform"}
  /\ runtime \in SUBSET Customers
  /\ entities \in SUBSET Keys

(* The inductive invariant of the proofs.  In the entry and in every list  *)
(* a flow holds, a customer's key was made for its contract, and no two    *)
(* customers have the same contract.                                       *)
Good(C) == /\ C \subseteq Customers
           /\ \A c \in C : c.key[1] = c.contract
           /\ \A c, d \in C : c.contract = d.contract => c = d

ListsGood ==
  /\ Good(entry.customers) /\ Good(adding.list) /\ Good(reauth.flow.list)
  /\ \A t \in Tabs : Good(tab[t].list)

SelectionStored ==
  /\ entry.selected = KeysOf(entry.customers)
  /\ entry # NoEntry => entry.selected # {}
  /\ reauth.flow.at = "fetched" => entry # NoEntry

(* What the setup read is the selection, as long as no reload is due, and  *)
(* the entities are those of what the last platform setup used.            *)
RuntimeRead ==
  /\ runtime # {} /\ ~due => KeysOf(runtime) = entry.selected
  /\ runtime # {} /\ loading = "none" => entities = KeysOf(runtime)
  /\ loading = "setup" => runtime = {}
  /\ loading = "platform" => runtime # {}

IInv == TypeOK /\ ListsGood /\ SelectionStored /\ RuntimeRead

(* Whatever flows changed the entry, its selection is the keys of its      *)
(* customers, each of another contract, so that a setup never fails on it  *)
(* and no two customers share entities.                                    *)
SelectionUsable ==
  entry # NoEntry =>
    /\ entry.selected # {}
    /\ entry.selected = KeysOf(entry.customers)
    /\ \A c, d \in entry.customers :
         c # d => c.contract # d.contract /\ c.key # d.key

(* A contract that stays configured keeps its stable key, and with it the  *)
(* unique IDs of its entities, although the member's name changes.         *)
KeysStable ==
  [][\A c \in entry.customers, d \in entry'.customers :
       c.contract = d.contract => c.key = d.key]_vars

(* Reauthentication renews credentials only: it neither switches nor drops *)
(* a configured customer.                                                  *)
ReauthKeepsSelection ==
  [][reauth.flow.at = "fetched" /\ reauth'.flow.at = "closed"
       => entry'.selected = entry.selected]_vars

(* A configured contract that KEPCO ON lists in a row that cannot be read  *)
(* is not reported as removed from the account.                            *)
HiddenIsNotMissing ==
  [][reauth.flow.at = "fetched" /\ reauth'.answer = "customer_missing"
       => \A c \in entry.customers : c.contract \notin reauth.flow.bad]_vars

(* Entities of a selected customer are removed only if it was selected     *)
(* after the running setup read the selection, and a reload is scheduled.  *)
EntitiesOfSelectedKept ==
  [][(entities \ entities') \intersect entry.selected # {} => due]_vars

(* A loaded entry with no reload to come has the entities of its selection *)
(* and no others.                                                          *)
EntitiesFollowSelection ==
  ~due /\ loading = "none" /\ runtime # {} => entities = entry.selected
===============================================================================
