# Verification of the KEPCO ON integration

TLA+ models of the Home Assistant integration in
`src/custom_components/kepco_on`, the TLC configurations that check them on
small instances, and TLAPS proofs of what matters most for every instance. The
Python source is the reference: every definition that models code is listed in
`PROJECT.json` ("map") with the lines it stands for, and every hazard of the
code with the properties that would catch it.

## 1. The system

The integration logs in to the KEPCO ON web portal, reads the account's
electricity contracts ("customers") and polls the current bill of each selected
one. It runs on one asyncio event loop. All concurrency is coroutines
interleaving where they await: the coordinator's poll, service calls, the
flows of the user interface, the setup and unload of a config entry. Nothing
runs in threads, so what a coroutine does between two awaits is one step.

### Inventory

| Part | Source | State it keeps | Operations |
|---|---|---|---|
| Authentication session | `auth.py` | session in use, generation, lock, id and password | login, restore, reset, validate, reauthenticate, protected request, cookie snapshot |
| Transport | `api.py` | the cookie jar of its client session | JSON request with up to three attempts, classification of responses |
| Client | `api.py` | none | account type, customers, bill (with the optional planner request) |
| Session store | `session_store.py` | the persisted session: token, cookies with host, path and expiry | save, load, clear, export and restore of cookies |
| Entry lifecycle | `__init__.py` | runtime data, handed-over session in the entry's data | set up, unload, migrate |
| Coordinator | `coordinator.py` | published bills and errors, poll interval | refresh |
| Flows | `config_flow.py` | pending login, cached customer list | user, customer, reauth, reconfigure, options |
| Customers, selections | `models.py` | none (data in the entry) | validate and select keys |
| Parser | `parser.py` | none | customers, bills, history, planner |
| Services | `services.py` | none | bill of a month, usage history |
| Sensors, registry | `sensor.py` | registry entries and devices | values, availability, clean-up, device removal |
| Repair issues | `repairs.py` | issue registry | create, clear, confirm |
| Diagnostics | `diagnostics.py` | none | redacted snapshot |

How they interact:

* every request after the login goes through the one `KepcoOnAuth` of the entry
  (`async_protected_request`), whoever makes it;
* `KepcoOnAuth` calls the transport, which writes the shared cookie jar, and
  saves through the session store; two `KepcoOnAuth` objects of one entry (a
  request that outlived an unload, and the next setup) share the store's file;
* a flow talks to KEPCO ON with a client of its own and passes the session to
  the entry through its data (`session_handoff`), which the next setup moves to
  the store;
* flows write the entry's customers and selection; the reload they schedule
  turns them into a coordinator and into registry entries;
* setup and coordinator raise and clear repair issues; Home Assistant turns the
  exceptions that leave them into retries or reauthentication flows.

### What is hard, and what makes each part correct

| Part | Hard behaviour | Must hold |
|---|---|---|
| Authentication session | several requests see one expiry; verdicts about an old session arrive late; a slow request saves cookies after a recovery; the store raises in the middle | one recovery per expiry, nothing newer thrown away or overwritten, memory and store agree, every call returns |
| Entry lifecycle | dozens of early exits; renewals nested in setup; crash between two persistent writes; late requests of an unloaded entry | exits clean up, logins are bounded, a rejected password is not repeated, the handed-over session is not lost |
| Flows | lists cached across user think-time while KEPCO ON, the name of the member and the entry change; reloads in between | a usable selection, stable keys, reauthentication that only renews credentials, entities that follow the selection |
| Coordinator | KEPCO ON changes between two requests of one refresh; failure of one customer of several | whole refreshes only, sensors that show what the last one brought, an issue that says so, recovery |
| Transport | a lost answer to a request that rotates the token, then a retry; an attempt given up that KEPCO ON still receives | one outcome per exchange, a refusal only for a reason, a success with the token KEPCO ON accepts |
| Cookies | a snapshot that crosses a restart with its domains, host-only marks and lifetimes | a restart KEPCO ON cannot see |
| Services, parser | the rolling window and comparisons over the turn of a year, damaged charts, unloading under a call | months refused rightly, answers that are the newest and the ones asked for |
| Sensors | the month in a cached name, the number read live; months missing; parts worked out | numbers under their own month, parts that add up |

## 2. Modules

| Module | Models | Is |
|---|---|---|
| `AuthSession` | `auth.py`, for concurrent callers | detailed specification |
| `SessionRenewal` | what callers of `async_protected_request` may rely on | abstract specification |
| `Transport` | `KepcoOnTransport` of `api.py` under one caller of `auth.py`, with KEPCO ON | detailed specification |
| `Exchange` | what the transport promises `auth.py` | abstract specification |
| `CookieStore` | export and restore of cookies in `session_store.py`, between aiohttp's jar and the store | specification |
| `SetupEntry` | `__init__.py`, with `session_store.py` and the uses of `auth.py` by setup | specification |
| `CustomerFlows` | `config_flow.py`, `models.py`, the registry part of `sensor.py` | specification |
| `Coordinator` | `coordinator.py`, bill requests of `api.py`, availability in `sensor.py` | specification |
| `BillMonths` | month arithmetic and the months of bills in `parser.py`, `services.py`, `api.py` | operators |
| `BillService` | the two response services, over an entry that is unloaded and set up | specification, on `BillMonths` |
| `MonthlySensors` | the monthly usage sensors and the parts of the usage in `sensor.py` | specification, on `BillMonths` |
| `..._proofs` | | theorems about the module of that name |
| `MC...` | | what TLC is started on |

In the component modules, operators called `Bug...` are not part of the
specification: each is a changed form of the definition after it, the way a
slip in the code would change it, and is used only to show that a property
notices it ("mutants" in `PROJECT.json`).

### AuthSession

`current`, `generation`, `lock` are `_current_session`, `_generation` and
`_auth_lock`; `store` is what `SessionStore` holds; `jar` is the cookie jar;
`tok`, `gen` are what each call read before its first await (`auth.py:246`).
`pc` and `net` say where each call is. A network exchange takes four steps,
because other coroutines run in between: the request is sent, KEPCO ON answers,
aiohttp puts the answer's cookies into the jar, the coroutine resumes. A token
is the number of its issue; a cookie value belongs to the token it was set for.

`Begin` to `ResumeReplay` are `async_protected_request` with its single replay.
`StartRecovery` and `JoinRecovery` are the two sides of the generation check
under the lock. `ResumeBootstrap`, `ResendLogin`, `ResumeRecovered`,
`RecoveryFails` are `_async_login_unlocked` (with its one resend of an empty
answer) and `async_validate_session`. `SaveRecovered`/`AssignRecovered` and
`SavePersist`/`AssignPersist` are `_save_current_session`, store first;
`SaveFails` is a store that raises. `Retry` is an attempt of the transport whose
answer was lost, followed by another one; `AnswerUnusable` an answer it can make
nothing of or is refused by (a login answered by a 401, a 403 or a login page ends
like one answered by NO, and its caller asks the user either way). Nothing is assumed
of when KEPCO ON accepts a token: every answer is
possible at any time, so that whatever `Transport` lets happen is among them.

`SessionRenewal` has neither lock, token, cookie nor server. An account has an
epoch; a call asks under the epoch it saw; when refused it renews the epoch,
which only a call that saw the present one may do, or joins a renewal made
since; then it replays once. `ImplementsRenewal` is the refinement: epoch is
`generation`, `phase` is read off `pc`.

### Transport and Exchange

`op` is what the caller does (log in, check, a protected request), `attempt` the
loop variable of `request_json`, `wire` where the present attempt is: sent, its
headers here, or pausing before the next. KEPCO ON accepts `valid`, the last token
it issued, until it ends the session; a login and possibly a /sessionCheck issue
the next one. An attempt that times out becomes one of `strays`: KEPCO ON may
receive it at any later time, and rotate the token under the caller. KEPCO ON may
give any answer to anything (`Serve`): it succeeds only for a token it accepts, or
for a login, but a 401, a 403, a page that mentions the login, a temporary status, a
rate limit or nonsense may come at any time, whatever the token. `Classify` is what
`_handle_response` makes of these kinds; statuses and bodies it treats alike are one
kind. `base` and `cause` are histories: the token when the operation began, and why
KEPCO ON may not accept the caller's by now, or that it refused one it accepts
(`denied`).

`Exchange` knows no attempt: it is asked for, ends with one outcome, and a token it
brings was issued while it was open.

### CookieStore

A cookie has a name, a value, a domain, the host-only mark, the `Expires`
attribute and the deadline the jar computed. `Save` stores what `Export` makes of
the jar, `Restart` fills a new jar from it, `Tick` is time. `kept` is the jar that
was saved, aged like the other one, so that what both would send can be compared.
A stored cookie with an empty value makes the whole session unreadable
(`_cookie_from_payload`); `Restart` then restores nothing.
`MayDisagree` lets KEPCO ON send a `Max-Age` and a different `Expires`.

### SetupEntry

A session is a login and the number of rotations of its token since, and
whether it has cookies (`form`). `handoff` is the session in the entry's data and
`diskHandoff` the same as last flushed by Home Assistant, which delays that
write; the session store writes before it returns. The steps of `pc` are the
awaits of `async_setup_entry`: saving the handoff, taking it out of the entry's
data (`scrub`), restoring, validating, logging in, the account check with its recheck
after a clean login, customers, first refresh, forwarding. `Fail` is the common error
path; `asked` says that a reauthentication flow is open, which a failed setup or a
loaded entry opened. A flow may end, and write a new handoff, at any point of a setup
(`ReauthFlow`), with `MayOverlap` also while the old handoff is being saved.

A login has four bad answers: `LoginRejected` (NO), `LoginRefused` (a 401, a 403 or a
login page, which is raised as an expired session), `LoginMalformed` and `Unreachable`.
In the recovery of the first account request `LoginRefused` leads to the clean login
of `_ensure_supported_account`, elsewhere it ends the setup. `logins`, `rejected`,
`refusals` and `kept` (the newest handed-over login the store received) are histories
the properties use. `Crash` stops Home Assistant anywhere; with `MayCancel` a
`CancelledError` leaves the setup without clean-up (`Cancelled`); `UnloadFails` keeps
the entry as it is until the next start; `LateAnswer` is a request that outlives the
unload of its entry. What the first refresh and the requests of a loaded entry may do to the session
is abstracted from `AuthSession` (`RefreshRenews`, `RuntimeRenews`,
`RuntimeLosesCookies`). A store that cannot be read is an initial state only: that a
session just saved cannot be read is a matter of its cookies, and so of `CookieStore`.

### CustomerFlows

A stable key is a hash of account, name of the member and contract; it is
modelled as the pair of contract and name. `rows` is how KEPCO ON lists each
contract: readable, malformed or not at all. `tab` holds several reconfigure
flows; the requests of the reauthentication and reconfigure flows take two steps,
so that the entry can change between question and answer. `StableKey` is
`_with_stored_customer_keys`. `due` and `loading` are the reload: unload, the
customers phase of the setup (which reads the selection), the sensor platform
(which cleans up the registry, and may fail before or after it); a flow may write the
entry between the last two.
KEPCO ON lists a contract at most once, which the model takes as given.

### Coordinator

A bill is its month. One step is one request of a refresh, for one customer;
`kepco` changes between any two (network, session, shape and month of the bills).
`Ended` is `DataUpdateCoordinator._async_refresh`, modelled from how the code
uses it: the old data stays after a failure, the next refresh is scheduled unless
authentication failed, entities write their state unless it failed twice in a
row. `View` is `available` and `native_value`.

### BillMonths and BillService

A month is the number its six digits spell, since the code compares strings of
digits. `InWindow`, `ClientAccepts`, `NextMonth` and `ShiftMonth` are the four
places that reckon with months; `HouseBill` and `ApartmentBill` are the parser, as
far as months go, on any chart KEPCO ON may send, in any order and with doubles.
In `BillService` one call of either service is under way; refreshes, months that
pass, changed options, unload and setup come between its requests. `attached`
says whether the HTTP session the call's client holds is open.

### MonthlySensors

A usage is the month it was used in, so that a number under the wrong name is
seen. `label` is each sensor's cached name, `shown` what Home Assistant has. The
first of several failures is told to the entities, later ones are not, and Home
Assistant may write states at any time.

## 3. Runs

Every run finishes in under five minutes with two workers.

| Run | Instance | Distinct states | Shows |
|---|---|---|---|
| `auth_password` | 2 calls, 3 tokens, store may fail | 237,869 | safety, refinement and liveness with a saved password |
| `auth_passwordless` | 2 calls, 3 tokens, 2 recoveries by /sessionCheck | 553,465 | the inductive invariant of the proofs, and liveness, without one |
| `transport` | 4 tokens, 2 given-up attempts | 339,245 | verdicts with a reason, the token after a success, refinement of `Exchange` |
| `cookies_restart` | 2 cookies with or without a value, 3 times | 325,028 | KEPCO ON does not see a restart |
| `cookies_expiry` | `Max-Age` and `Expires` differ | violation | section 6 |
| `setup_password` | 6 logins, flows that end at any point of a setup | 483,893 | clean-up, bounded logins, rejected passwords, the store |
| `setup_passwordless` | 3 logins, 2 rotations, crashes, cancelled setups, late requests | 672,333 | every setup ends, the handoff survives, issues are cleared |
| `flows_one_tab` | 2 contracts, 2 names, 1 reconfigure flow | 534,906 | selection, keys, entities |
| `flows_two_tabs` | 2 reconfigure flows | violation | section 6 |
| `coordinator` | 3 customers, 2 months | 444,096 | data, sensors, issue, recovery |
| `bill_service` | charts of 0, 3 and 13 months, December and January, months on either side of the window's ends and numbers that are none | 164,716 | the months refused, what a call answers and what a bill is compared with |
| `monthly_sensors` | November to February, charts with gaps | 3,628 | numbers under their month, parts that add up |

### The properties

* `RecoveryTargetsRefusedSession`: a recovery throws away exactly the session
  KEPCO ON refused, never one a concurrent call has just made.
* `StoreMatchesCurrent`, `SessionNeverReverts`: memory and store hold the same
  session except between the two assignments of a save, and neither goes back to
  an older token.
* `ImplementsRenewal`, `EveryCallReturns`: one renewal per generation, one
  replay per call, and no call waits for ever.
* `CookiesNotOlder` is about entries with a password and behaviours whose calls do
  not overlap: in them a token is never persisted with the cookies of a session it
  replaced. With overlapping calls an answer of the old session can reach the jar
  while a login is under way and be persisted with the new token; the code accepts
  this.
* `RefusalExplained`: outside a login the caller is told that its session is refused
  only when the token was stale, KEPCO ON ended the session, an attempt used the token
  up and its answer was lost, or KEPCO ON refused the very token it accepts. The last
  is real: any 401 or 403 and any page that mentions the login is reported as an
  expired session (`api.py:259-268`), whatever the token. Time-outs, temporary
  statuses, rate limits and unreadable bodies never become a refusal, on any of the
  three attempts, whatever arrives late.
* `SuccessInStep`: after a success the caller has the token KEPCO ON accepts, and
  after a login the cookies of that session, whichever attempt it was.
* `ImplementsExchange`: the retries are one exchange, which ends.
* `RestartUnseen`: every host is sent, after a restart, what the jar of the saved
  session would send it: nothing more, nothing expired, nothing missing. It is about
  sessions that can be read, see section 6.
* `CleanedUp`, `LoginsBounded` (four with a password, none without),
  `IssuesCleared`, `SetupEnds`: what every way out of `async_setup_entry` leaves
  behind. `CleanedUp` is stated of setups that are not cancelled.
* `RejectionEndsSetup`: a setup sends no login after a NO, and at most two of its
  logins are refused in any way. The second one is real, see section 6.
* `HandoffReachesStore`: a session handed over by a flow and written to disk stays
  there until the store received it or a newer one replaced it, whatever crash,
  failure or cancellation comes; and the entry forgets it earlier only when Home
  Assistant stops before it wrote the entry's data. Stated of flows that do not end
  while a handoff is being saved (`MayOverlap` FALSE), see section 6.
* `StoreNeverReverts`, `StoreFollowsSession`: the session in the store and at the
  next start. Both are stated without late requests, the first also without crashes
  and cancelled setups, since those do bring an older session
  back: a crash before Home Assistant's delayed write, or a setup cancelled between
  the save and the removal, has the handoff consumed once more, and a late request saves the session of its unloaded entry over the
  newer one. The next setup finds out and renews, or asks the user.
* `SelectionUsable`, `KeysStable`, `ReauthKeepsSelection`,
  `HiddenIsNotMissing`: what flows may do to an entry.
* `EntitiesFollowSelection`, `EntitiesOfSelectedKept`: what reloads do to the
  registry while flows write the entry.
* `DataComplete`, `ShownIsCurrent`, `IssueReflectsData`,
  `IssueClearedByWholeRefresh`, `Recovers`: the coordinator.
* `MonthsRefusedRightly`: a month is refused exactly when it is none of the last
  24, counted back one by one (`Before`, not the arithmetic of the code), and the
  client never refuses what the service let pass.
* `AnswerIsNewestAndAsked`, `ComparesCalendarMonths`: a history is the newest
  months, as many as the option says, and of the month asked for; a bill is
  compared with the calendar month before and the one a year before.
* `ShownUnderItsMonth`: a usage is of the month its sensor names, and shown when
  the bill has it. `PartsAddUp`: household and common usage shown together are the
  bill's, unless KEPCO ON gave both.

### Bounds

| Bound | Value | Why it is enough |
|---|---|---|
| `Requests` | 2 | two suffice for each race of the generation check; the proofs hold for any set of callers |
| `MaxTokens` | 3 | two recoveries, so that a call can be two sessions behind; the proofs remove the bound |
| `MaxRotation` | 0 | one cookie value for each token, besides the empty jar: enough for a snapshot to differ from the saved cookies after a renewal, a lost answer or a failed login |
| `MaxGeneration` | 2 | successful /sessionCheck recoveries without a password. Logins are bounded by `MaxTokens`, /sessionCheck may confirm a token without issuing one |
| `MaxLogins`, `MaxRotations` | 3 or 6; 1 or 2 | a setup uses at most four logins, so six span a setup and what follows; rotations are compared, not counted |
| `MaxNames` | 2 | a key is either of the present or of an earlier name; a third name adds another earlier one |
| `Contracts` | 2 | one that changes, one that must not |
| `N`, `MaxMonth` | 3, 2 | a first, a middle and a last customer; an old and a new bill |
| `MaxIssued`, `MaxStrays` | 4, 2 | three attempts that each rotate the token; both earlier attempts given up and still to arrive |
| `MaxTime`, `MaxCookies` | 3, 2 | before, at and after a deadline; two of one name for different hosts, one with a value and one without. `cookies_expiry` has a second name, which may not be kept; the proofs hold for any names |
| `MayCrash`, `MayCancel`, `MayOutlive`, `MayOverlap` | each on in one setup run | what is outside the code and spoils a property of its own; the theorems say which of them each one excludes |
| `FirstMonth`, `LastMonth` | around a turn of the year | the arithmetic is the same in every year, which the proofs show for all |
| `Asked`, `Lengths`, `Options` | both sides of the window's ends; 0, 3, 13; 0, 2 | months refused and accepted by one, and months that do not exist; no chart, a short one and KEPCO ON's; an option of no use and one shorter than the chart |
| `Parts` | 0, 1, 3 | a part that is nothing, less than, or more than the total |

At a bound the environment stops, not the code: KEPCO ON issues no further token
or bills no further month, and refuses or fails instead. A late request is kept
only one at a time, the last entry's.

`SetupEntry`, `CustomerFlows` and `Coordinator` are checked without deadlock
detection. The first two wait for a user, who need not come; in the third Home
Assistant schedules nothing after an authentication failure. In `AuthSession` a
call can always be made again and deadlock is checked.

### Fairness

* `AuthSession`: weak fairness of the network and of resuming. Each attempt has a
  total timeout (`api.py`) and the event loop resumes a coroutine whose await is
  over. Strong fairness of taking the lock: `asyncio.Lock` wakes its waiters first
  in, first out, so a waiter is overtaken finitely often although the lock is
  taken and given back all the time. None on `Begin` and `Return`, the callers'.
* `Transport`: weak fairness of the caller's own side: each attempt has a total
  timeout, each pause an end. None on KEPCO ON, which need never answer.
* `SetupEntry`: weak fairness of a setup's own steps, for the same two reasons.
  None on retries, renewals, users or crashes.
* `Coordinator`: weak fairness of `Poll` (the timer of a scheduled refresh fires)
  and of the requests of a refresh. `Recovers` assumes that KEPCO ON comes back
  for good with the session accepted throughout, and excludes only entries that are
  reloaded for ever.

## 4. Proofs

Checked by TLAPS for every value of the constants that satisfies the modules'
named assumptions (positive bounds, a lock value that is no call, a finite set of
contracts, months that are months) and those a theorem states itself, given below.

Liveness under fairness is out of the prover's reach. Its safety core is proved
instead, as the action property `NeverBack` of four modules: a measure of what is
left of a call, an operation, a setup or a refresh, in a bounded set of natural numbers,
falls with every step that does not leave it in its place. What remains to be
checked is that each place is left, which is what the fairness says. The measures and
`NeverBack` were checked by TLC on the instances of section 3 before they were proved.

### AuthSession_proofs

`IInv` strengthens the safety properties into an invariant that every step
preserves:

1. `LockDiscipline`: exactly the call inside one of the two `async with` blocks
   holds the lock. Every other part needs it, since it makes a holder's view of
   the session stable.
2. `GenerationKnown`: a call whose request was refused saw the present
   generation, and then its token is the present one, or an earlier generation.
   That turns the comparison of generations (`auth.py:257`) into one of sessions.
3. `RecoveryIsCurrent`: no generation passes while a call recovers.
4. `NewSessions`: sessions in answers and about to be saved are no older than the
   present one, and a snapshot's has its token. This gives `SessionNeverReverts`.
5. `StoreWritten` and `StoreMatchesCurrent`: between save and assignment the
   store has what is about to be assigned.

| Theorem | Says |
|---|---|
| `Inductive`, `TypeCorrect` | `Spec => []IInv`, `Spec => []TypeOK` |
| `RecoveryTargetsRefused` | `Spec => []RecoveryTargetsRefusedSession`, from 2 and 3 |
| `StoreFollowsCurrent` | `Spec => []StoreMatchesCurrent` |
| `NeverReverts` | `Spec => SessionNeverReverts`, from 4 and 5 |
| `Refinement` | `Spec => Renewal!Spec`: initial states map to initial states, every step to one of `SessionRenewal` or a stutter; `Renew` needs 3, `Join` needs 2 |
| `ReplaysAreLater` | a request is replayed only under a generation later than the one it was refused under; proved of `SessionRenewal` and carried over by `Refinement` |
| `HolderIsBusy` | the lock is held only by a call that is recovering or saving, so no call waits for one that waits |
| `CallsRunOut` | `Spec => NeverBack`: 47 units at most, which is one recovery, one resent login and one replay |
| `CookiesKeepUp` | `Spec => CookiesNotOlder`, if there is a password |

`CookiesNotOlder` needs an invariant of its own, `CInv`, which holds as long as calls
do not overlap: the jar's cookies are of the present token, of a later login, or
empty (`Fits`), and so is each session stored or about to be; `CallAlone` says what a
call between two awaits may rely on. The hypothesis is needed: without a password a
recovery is a /sessionCheck, and the model lets KEPCO ON issue a token there without setting a
cookie, so that the new token is stored with the old session's cookies.

### CustomerFlows_proofs

`IInv` is `TypeOK` with `ListsGood` (in the entry and in every list held by a
flow, a key was made for its contract, and a contract occurs once),
`SelectionStored` (the selection is the keys of the stored customers and is not
empty) and `RuntimeRead` (a loaded entry without a scheduled reload read the
present selection; its entities are those of what it read). `ListsGood` is what
the selection alone lacks: a flow's cached list becomes the entry's customers.
The central lemma, `AdoptedGood`, is that `_with_stored_customer_keys` keeps such
lists good: a stored key is taken only for its own contract, so no two customers
come to share one. Steps are proved in three groups, those that only read the
entry, those that write it, and loading.

| Theorem | Says |
|---|---|
| `InvariantHolds`, `TypeCorrect` | `Spec => []IInv`, `Spec => []TypeOK` |
| `SelectionAlwaysUsable` | `Spec => []SelectionUsable`, for any number of flows |
| `EntitiesMatch` | `Spec => []EntitiesFollowSelection` |
| `SelectedEntitiesStay` | `Spec => EntitiesOfSelectedKept` |
| `ReauthKeeps` | `Spec => ReauthKeepsSelection` |
| `HiddenNotReported` | `Spec => HiddenIsNotMissing`; strengthened by `Undecided` (a flow that has fetched a list has not answered) |
| `KeysStay` | `Spec => KeysStable` if there is at most one reconfigure flow; strengthened by `Faithful`: the list such a flow shows has the entry's key for each contract of the entry. `AdoptedAgrees` says so of the list when it is made, `ReauthAddsNobody` that a reauthentication in between changes no customer |

### Transport_proofs

The invariant fixes what is under way at each point (`Control`), orders `base`
before `issued`, says what an answer whose headers arrived can be (`Answered`: any, but
a success has a reason), and, at its core, `InStep`: unless `cause` names a reason, KEPCO ON accepts the token in
the answer or the one the caller will go on with. It cannot be had of the end of an
exchange alone: a retry needs it of the lost attempt.

| Theorem | Says |
|---|---|
| `TypeCorrect` | `Spec => []TypeOK`; never a fourth attempt |
| `RefusalHasCause`, `SuccessKeepsStep` | `Spec => []RefusalExplained`, `Spec => []SuccessInStep` |
| `RetriesAreOneExchange` | the safety part of `ImplementsExchange`: initial states and steps map to those of `Exchange` or to a stutter |
| `OperationsRunOut` | `Spec => NeverBack`: three attempts a request, three requests a login |

### CookieStore_proofs

`RestartIsUnseen`: `Spec => []RestartUnseen` if `Max-Age` and `Expires` agree
(`~MayDisagree`; `cookies_expiry` is the counterexample otherwise). The store holds
the stored form of what the saved jar had (`StoredIsKept`), a restored jar a cookie
alike for each of them that is still alive and no other (`FreshIsKept`);
`RoundTrip` is that storing and restoring one cookie gives one no host can tell from it.

Two theorems do without the hypothesis: `HostsAreKept` (`Spec => []HostsKept`), that
a restored cookie goes to exactly the hosts it went to before, and
`OneCookieEach`, that the jar never has two cookies of one name and domain, so that
the order in which they are put back is of no account. `ScopeInv` is the invariant
of both, `StoredIsKept` and `FreshIsKept` without lifetimes.

### SetupEntry_proofs

`Control` says what a setup has at each `pc`. `LoginsWithin` bounds the logins by
`Budget`, those it can have spent by then: 0 before the first login, up to 4 after
the recheck. For the store, `InStep`: from its first request on, a setup's session is
the stored one, and so is a loaded entry's.

| Theorem | Says |
|---|---|
| `AlwaysCleanedUp` | `Spec => []CleanedUp`, if no setup is cancelled (`~MayCancel`) |
| `LoadedHasNoIssue` | `Spec => []IssuesCleared` |
| `FourLoginsAtMost` | `Spec => []LoginsBounded`, from `Budget` |
| `RejectedOnce` | `Spec => RejectionEndsSetup`, from `RefusedWithin`: a setup that goes on had no login refused before its recheck and at most one since |
| `HandoffIsKept` | `Spec => HandoffReachesStore`, with crashes, cancelled setups and late requests, if no flow ends while a handoff is being saved (`~MayOverlap`) |
| `StoreRestoresSession` | `Spec => []StoreFollowsSession`, if no request outlives its entry (`~MayOutlive`) |
| `TokensGoOn` | `Spec => StoreNeverReverts`, if moreover nothing crashes and no setup is cancelled, whenever flows end |
| `SetupRunsOut` | `Spec => NeverBack`: from the start to the end in 17 steps, besides the renewals of the first refresh. Where a login resumes (`resume`) is part of the measure |
| `TypeCorrect` | `Spec => []TypeOK` |

### Coordinator_proofs

The strengthening is `RefreshInv`: within a refresh, a customer already asked has a
bill or an error and never both, one not yet asked has neither, and while the
planner is asked the bill is already there. What is published at the end is then
complete.

| Theorem | Says |
|---|---|
| `PublishedComplete` | `Spec => []DataComplete` |
| `SensorsCurrent` | `Spec => []ShownIsCurrent` |
| `IssueFollowsErrors`, `IssueCleared` | `Spec => []IssueReflectsData`, `Spec => IssueClearedByWholeRefresh` |
| `RefreshRunsOut` | `Spec => NeverBack`: two requests a customer, nobody is asked twice |
| `RecoveryIsKept` | `Spec => StaysFresh`: once everything is shown it stays so through every later refresh while KEPCO ON stays as it is; half of `Recovers` |
| `TypeCorrect` | `Spec => []TypeOK` |

### BillService_proofs

Months are counted: `Index` is the number of a month since year 0, a month has one
index (`IndexIsOne`), and the code's arithmetic adds to it (`NextIsAfter`,
`ShiftIsAway`). Two facts about operators carry the rest:

* `BeforeIsShift`: counting back month by month, which is recursive, is
  `_shift_month`. Both satisfy the recursion; of the distances they differ at there would be
  a least (`LeastNatural`), and it could not be one.
* `SortedIsSorted`: `Sorted` gives each month once and in order, from the ranks of
  the months (`RankGrows`, `RankIsOne`, `RankTaken`).

The invariant `Inv` says that the entry's bill and the one a call has read are good
(`GoodBill`: a history in order that ends with the bill's month, and comparisons that
are the calendar's), what a call has at each stage, and how its reply follows from
them (`ReplyRight`). `HouseGood` and `ApartmentGood` show that the parser makes only such
bills, from any chart.

| Theorem | Says |
|---|---|
| `NextAfterPrevious` | the month after the month before is the month |
| `WindowIsLast24` | the window is what counting back from the present month 0 to 23 times meets |
| `WindowAccepted` | from January 2002 on the client accepts each month of the window |
| `InvariantHolds`, `TypeCorrect` | `Spec => []Inv`, `Spec => []TypeOK` |
| `RefusesRightly` | `Spec => []MonthsRefusedRightly`, from January 2002 on (`FirstMonth >= 200201`): so that no window begins before the client's first month, January 2000 |
| `AnswersNewest` | `Spec => []AnswerIsNewestAndAsked`, for every option |
| `ComparesMonths` | `Spec => []ComparesCalendarMonths`, for charts of any length and order |

### MonthlySensors_proofs

The same count of months. The invariant says that the data is a bill the parser can have
made (`GoodBill`), that names are those of the data, and that what is shown is the
state of that bill or unavailable; `UsageOfSlot` is that a sensor finds the usage of
its month whenever the bill has it, in whichever place. `UnderItsMonth` and `PartsSum`
are `Spec => []ShownUnderItsMonth` and `Spec => []PartsAddUp`, from any first month.

### Only model-checked

Liveness: `EveryCallReturns`, `SetupEnds`, `Recovers` and the fair part of
`ImplementsExchange`. They rest on fairness, and so on `ENABLED`, which the prover does not
support; `CallsRunOut`, `HolderIsBusy`, `SetupRunsOut`, `RefreshRunsOut`, `RecoveryIsKept` and
`OperationsRunOut` are what can be had of them without. Every invariant and every action
property of the passing runs is proved.

## 5. Not modelled

* `diagnostics.py`, `const.py`, `exceptions.py`, `src/tools`: no state changes.
* Forms, translations, logging, the 34 sensor descriptions, parsing of amounts.
* `async_sso_check` and `async_get_all_current_bills` have no caller.
* The `customer_schema_changed` issue is among those a setup clears, but its
  customers phase raises only `ValueError`, so no setup creates it.
* The last handler of `_async_update_data`, for any other `KepcoOnError`, records
  an error without raising the issue. A bill request raises only the errors
  handled before it, so no step takes it.
* Migration of old entries and the options flow; the polling interval is only
  that a timer fires.
* `invalid_customer`: which customer a service call names. Registering the
  services, and their schemas.
* Cookie paths, the secure flag, and the spelling of attributes.
* CO2 estimates, the planner's quantities and attributes, the other fields of a
  bill: pure conversions without state.
* That a late request of an unloaded entry saves its session over a newer one is
  modelled (`LateAnswer`) and is what the code does; no property is stated of it.

## 6. Where code and documents disagree

Two runs show it:

* **Stable keys** (`flows_two_tabs`). The docstring at `config_flow.py:135-136`
  says that keeping the stored key keeps every entity's unique ID. A reconfigure
  flow writes the list it cached when it was opened. If another one, opened after
  the member's name changed, has added a contract under its new key in between,
  submitting the first replaces that key. With a single reconfigure flow, and
  reauthentication in parallel, `KeysStable` holds.
* **Expired cookies** (`cookies_expiry`). `session_store.py:348` says that only
  unexpired cookies are restored. The jar follows `Max-Age`, the export prefers the
  `Expires` attribute: a cookie with both may be restored after it expired.

Others were met while modelling. The models do what the code does, and no
property is stated of what a document says:

* **One login per startup.**
  `docs/superpowers/specs/2026-08-31-kepco-on-integration-design.md:114-115` says
  that startup attempts authentication once. The code may log in for an
  invalid session, in the recovery of the account check, after resetting an
  incomplete session, and in the recovery of the second check: four times, the
  bound `LoginsBounded` states.
* **A rejected password.** A login KEPCO ON answers with NO ends the setup. One
  answered by a 401, a 403 or a login page is reported as an expired session
  (`api.py:259-268`); in the recovery of the first account request nobody but
  `_ensure_supported_account` catches that (`__init__.py:208-218`), which resets the
  session and sends the same password once more. `RejectionEndsSetup` bounds the
  refused logins by two and not by one (`LoginRefused`).
* **A handoff never saved.** The docstring at `__init__.py:122` says that the handoff is
  persisted and scrubbed. What is taken out after the save is whatever the entry's
  data then holds (`__init__.py:138-140`): a session a flow wrote during the save is
  scrubbed and never persisted. The model reaches it with `MayOverlap`, and
  `HandoffReachesStore` is then violated.
* **A handoff not yet written.** Home Assistant writes an entry's data some time after
  it changed. A stop before that loses the session of a flow that has just ended, and
  the user logs in again. `HandoffReachesStore` excuses this one loss of an unwritten
  handoff, and none of a written one.
* **A cancelled setup.** `async_setup_entry` catches `Exception`, which a
  `CancelledError` is not: its client session stays attached (`Cancelled`).
* **An empty cookie.** `export_cookies` keeps a cookie with an empty value,
  `_cookie_from_payload` refuses it and with it the whole stored session
  (`session_store.py:119`): the next setup logs in cleanly or asks the user.
* **A login sent again.** `docs/PROTOCOL.md:24` says that a login is retried only
  for an empty answer. It goes through `request_json`, which sends it again after a
  timeout, a connection error or HTTP 500, 502 and 503 as well. `SuccessInStep`
  shows that the session kept is still the one KEPCO ON accepts.
* **A repeated month.** The design document (line 70) says that the month asked for
  is the bill's even if the server repeats another one. With a chart, the parser
  (`HistoryFits`) refuses any other than the month asked for or the next.
* **Errors of a service.** The plan (`2026-08-31-kepco-on-integration.md:395`) says
  that failures are raised as translated errors. A call whose entry is unloaded
  finds its HTTP session closed, and the `RuntimeError` of the next attempt passes
  every handler (`SessionClosed`).

## 7. Plan

What could follow, in this order:

1. An abstract specification of what an entry's setup promises Home Assistant
   (loaded, retry, reauthentication or error, with nothing left behind),
   implemented by `SetupEntry`; and of the published snapshot, implemented by
   `Coordinator`.
2. Migration and the options flow as part of `SetupEntry`.
3. `Transport` under several callers of one `KepcoOnAuth`, composed with
   `AuthSession`, instead of the answers `AuthSession` assumes.
