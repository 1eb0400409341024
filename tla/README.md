# A TLA+ model of the Claude Home Assistant integration

This directory holds TLA+ specifications of `custom_components/claude_ha`, the
Home Assistant integration that talks to the Claude terminal app: what they
model, what TLC checks on small instances, and what TLAPS proves for all
instances. Line numbers are those of the commit this directory is kept beside
(paths are relative to `custom_components/claude_ha/`). `PROJECT.json` lists
components, runs, the definition-to-source map, hazards, findings and theorems.

## How the system runs

The integration is one asyncio program inside Home Assistant. Code between two
`await`s is atomic; at an `await` any other handler may run, of the same
conversation, the same config entry or the same file too. Blocking work goes to
executor threads, which really run beside the event loop and outlive the task
that waits for them. So the questions are the same everywhere: what was read
before an await and used after it, what is done twice when two handlers overlap,
and what is left behind when a step fails, a task is cancelled or Home Assistant
restarts.

## Inventory

| Component | State it keeps | Operations | What is hard | What makes it correct |
|---|---|---|---|---|
| Chat agent (`conversation.py`) | `hass.data[DATA_PENDING_CHAT]`: one held proposal per (conversation, caller) | answer a hold; delete, modify and read requests; automatic and confirmed writes; memory changes | turns overlap at every await; shared conversation ids; expiry; lost answers; cancelled pipelines | nothing runs twice; a held proposal runs only on its own caller's yes, in time; holds of others are untouched; what is dropped is said |
| Automation commit (`automation_commit.py`) | `automations.yaml`, `_STORE_LOCK`; Home Assistant's loaded automations and entity registry | validate, create, update, delete, reload, restore | executor threads, failing reload, failing rollback, an editor that does not take the lock | writers take turns; all or nothing; what runs is what the file says; every request ends |
| Remembered facts (`memory.py`, `services.py`) | `Memory._facts`, the Store's file | remember, forget, confirmed change, load, remove | overlapping saves, reloads, rights that change, restarts | bounded sets; what was said is kept survives; what was forgotten stays gone; nobody changes another's facts |
| Notification confirmation (`confirm.py`) | proposals by token | send, approve, dismiss, expire | double taps, unloaded entries, failing notifications | each proposal runs at most once, on an approval in time |
| App watch, coordinators (`addon.py`, `coordinator.py`) | `AddonWatch` (down since, reported), repairs, last data | poll status/usage/limits, ask the Supervisor, report, clear | three pollers share one watch; the Supervisor's answer is old when used | one report per outage, only after the grace time; repairs follow the outage |
| Health (`health.py`) | debounce counters, repairs | evaluate, debounce, apply | stale data after a failed poll; runs and polls disagree | no repair from one bad answer; a fixed problem's repair goes away |
| Entry lifecycle (`__init__.py`) | `entry.runtime_data` | setup, unload, remove, start the app | setup and pollers overlap | no work on an unloaded entry |
| Voice setup, discovery (`voice.py`, `config_flow.py`) | add-on state, config entries, pipelines | install, start, confirm discovery, create a pipeline | waiting for engines, two set-ups, deleted parts | one pipeline, every step that failed is named |
| Card resource (`frontend.py`), chat card (`www/`) | Lovelace resources; the card's conversation, busy count, proposal | reconcile, remove; send, apply, dismiss | read-modify-write against the user; answers after a change of config | one resource; an answer is shown only where it belongs |
| Client (`api.py`) | identity of the engine, `ChatHealth` | requests, NDJSON streams, errors | split characters, old answers, changed engines | errors map to the right class; the chat's health follows the last outcome |
| Policy (`risk.py`) | none | `is_critical`, `is_auto_ok` | nested actions | nothing critical is automatic |
| Vision, entities, diagnostics, translations | entity states | pure reads and wording | little | every reading is of the coordinators' data |

Interactions: a chat turn calls the client for reads and writes, calls
automation commit and memory for confirmed changes, and is held in
`hass.data`; the ask action calls the client and stores a notification
proposal; coordinators poll the client, drive the app watch and, as listeners,
health; the entry's set-up builds all of them and its unload drops them.
`PROJECT.json` ("components") lists every component with its status, and
("hazards") each thing that is hard to test at the line where it bites.

## Modules

| Module | Models | Abstracted |
|---|---|---|
| `ChatConfirm` | `conversation.py`: every turn from its arrival to its reply | what a message says is one of five requests; the reply's wording is left out, except whether it mentions a dropped memory suggestion |
| `ChatConfirm_proofs` | theorems about `ChatConfirm`, its refinement of `ProposalLife` included | |
| `ProposalLife` | what every way of confirming promises (`conversation.py`, `confirm.py`, the card): a proposal is answered once, runs only if it was approved, and not twice | who answers, where and how |
| `AutomationCatalog` | what `automation_commit.py` promises: one change at a time, kept or taken back entirely | how it is done |
| `AutomationStore` | `automation_commit.py`: lock, load, write, reload, compare, restore, delete | what an automation says is who wrote it last |
| `AutomationStore_proofs` | theorems about `AutomationStore`, the refinement included | |
| `Memory` | `memory.py`, the two actions of `services.py` and the confirmed change of `conversation.py` | a fact is owner, text and who added it |
| `Memory_proofs` | theorems about `Memory` | |
| `AddonWatch` | `addon.py`: the restart window, the outage, its repair | a time is the ticks since, up to the grace time; log lines are left out |
| `Health` | `health.py`: problem, debounce, raising and clearing, as functions | every problem but the debounced one is "bad"; what may touch `ISSUE_SIGNIN_EXPIRED` |
| `EntryPolling` | `__init__.py` and `coordinator.py`: set-up, retries, pollers, reload, disabling, removal, composing the two above | three coordinators are the status and any number of others |
| `EntryPolling_proofs` | theorems about `EntryPolling` | |
| `AppClient` | `api.py`: what a status teaches the client, what it refuses to send, the calls under way | an answer is what its caller tells apart; HTTP and parsing |
| `NotifyConfirm` | `confirm.py`: proposals by token, notifications, taps | a token is the call that proposed; a notification is shown for ever |
| `ChatCard` | `www/claude-chat-card.js`: target, generation, busy flag, messages, Apply and Dismiss | what is drawn |
| `Asking` | `services.py` (`claude_ha.ask`), composing the three above | |
| `Asking_proofs` | theorems about `Asking` and its three modules, its refinement of `ProposalLife` included | |
| `VoiceSetup` | `voice.py` and its action in `services.py`: lock, apps, confirmations of discoveries, engines, pipeline | a Wyoming flow and the entry it becomes are one `Wiring`; one entry, so one remembered pipeline (the code remembers one per entry); options and languages |
| `VoiceSetup_proofs` | theorems about `VoiceSetup` | |
| `CardResource` | `frontend.py` and its callers in `__init__.py`: reconcile, remove | a resource is an id and whether its URL is of this version |
| `CardResource_proofs` | theorems about `CardResource` | |
| `ConfigFlow` | `config_flow.py`: flows of the user and of discovery, up to the entry | an app's connection details are the token of one installation |
| `AnswerStream` | the stream of `api.py` and its reader in `conversation.py` | a code point is a character or half of a pair |
| `Notices` | the sign-in repair (`health.py`, `conversation.py`) and the lost usage history (`coordinator.py`) | other repairs are in `EntryPolling` |
| `Parts_proofs` | theorems about `ConfigFlow`, `Notices` and `AnswerStream`, and about the parts side by side | |
| `MC*` | symmetry, constraints and helpers for TLC; `MCParts` runs the last five modules side by side | |

### ChatConfirm

`pc[t]` names the await turn `t` is suspended at: `words` (translations), `read`
(the model), `config` and `edit` (the target automation and the edited one),
`may_edit` (the permission look-up), `auto` (an unconfirmed write) or the kind of
the confirmed action. `store` is `DATA_PENDING_CHAT`; `held[t]` the proposal turn
`t` made; `pending[t]` the one it took; `ran[t]` counts how often the app or Home
Assistant carried the proposal of `t` out, which the integration cannot see.

`_async_handle_message` becomes `Receive` and, after the translations are there,
one of `Confirm`, `Deny`, `AskDelete`, `StartModify`, `StartRead` (branches A, A2,
A3 and B of the source). Each of them takes the hold out of the store in the same
step, as the `del` precedes every await. `ReadAnswered` has the outcomes of the
read, `AutoAnswered` those of an automatic write, `ConfirmedAnswered` those of a
confirmed one. `Cancel` ends a turn at its await when the pipeline that awaits it
is cancelled, `Restart` empties `hass.data`; in both, what had been sent may run
all the same. `Tick` is the clock.

### AutomationStore

Each request is a task, and its file work a job that may outlive it: `WriteJob`,
`CompareJob` and `PutBackJob` run in the executor and are steps of their own; the
comparison and the write-back of `_restore_store` are two steps, because the editor
may write between them. Loading reads the file twice in one await, once for the bytes
a rollback puts back (`Snapshot`) and once for the automations (`Load`), for the same
reason. `Cancel` ends the task at its await, releases the lock as
`async with` does, and leaves a started job to finish. `Edit` is Home Assistant's own
automation editor, which knows nothing of the lock; it is one atomic write and
reload. `automation.reload` is atomic as well.

### Memory

A call changes `facts` of its `Memory` object and awaits `Store.async_save`; other
calls run meanwhile. The Store is Home Assistant's and external: it takes a write
lock, writes the newest data it was given, and replaces the file atomically.
`StartWrite` (take the data) is a step apart from `Write` (replace the file), which
allows more interleavings than the Store's own. `Reload` makes a new `Memory` from
the file while older calls go on with theirs; `Restart` leaves only the file;
`Remove` deletes it through another Store. A fact whose text is already in the list
is reported as kept at once, even while the call that added it is still saving; a
failing disk write is logged by the Store and not reported to the caller, and is not
modelled.

`Cancel` ends a call at its save, as a cancelled chat turn or a restarted script does. A
call that waits for the lock leaves its list to the next write. A call that writes gives
the lock up: if its thread has begun, the write is an `orphan` that lands at any time
(`LateWrite`), also after the newer writes of others; if not, the list it took is lost.
`doubtful` says that the file may be wrong for that reason: from the cancellation until
the same `Memory` has written again with no orphan left.

### EntryPolling

`at[c]` is the place where a poller, or the set-up's check of the app, waits: for the
`app`, with its answer not yet used (`answered`), for the `supervisor`, or `told` by
it; `result[c]` is what it got. That an answer is given in one step and used in
another is the point: the world, and the other pollers, go on in between. `phase` is
`out` (not set up, or between two attempts), `refresh` (the first refreshes, one after
the other, the status first), `loaded`, `disabled` or `removed`. `Reload` and `Disable`
both unload the entry (`Unload` is `async_unload_entry`); Home Assistant sets a reloaded
one up again, a disabled one only when the user enables it (`Enable`). `CheckApp`, `SupervisorAnswers`
and `AppChecked` are `_async_ensure_addon_running`; `Poll`, `AppAnswers`, and one of
`Answered`, `Refused` and `Unanswered` are `_async_update_data` with its three
branches. The watch is one per entry and survives an unload or a failed attempt, so
its variables are left alone by both; only `Remove` drops it.

`Finish` is the end of a refresh. `DataUpdateCoordinator` is Home Assistant's and
external: it polls while it has listeners, calls them after every success and after
the first failure in a row (with the data it had), and its polls are cancelled when
the entry is unloaded. The first status refresh decides whether the set-up goes on;
the supplementary ones never do. With the last of them the entry is loaded and health
is evaluated for the first time, as in `_async_setup_health`.

`quietFor` is not a variable of the code: it is the time since a poll was last
answered with data, which `NoFalseAlarm` compares the watch with. The app is
`running`, `stopped` (installed in any other state), `missing` or being installed by
the set-up's own task; its API answers with a status, with an error, as another
engine's app, or not at all. All of that changes at any moment.

### Asking, and the three modules it composes

A call (`call[c]`) is one use of the ask action, or the write of an approved
notification, from its beginning to its answer: `asked` (the action is to be handled),
`app` (the app works on it), `notify` (its proposal is being sent to the phones). It
carries what the code keeps in local variables, closures and messages: the entry that
was named and the one that was resolved, the caller, the card's generation, and for a
write the call whose proposal it is. `Answer` and `Fail` are the ends of the await in
all callers at once: the client's, the action's and the card's, so a reply that comes
late is handled by whatever card and entry there are by then.

`AppClient` has the guard of every request (`Refused`: `_ensure_identity`, and
`supports_web` for a web question) and what a status changes (`Learn`). `app[e]` is what
answers at the address and may change at any time. A status is used some time after it
was answered, so `Poll` and `Load` may learn that of an app that was replaced since;
`polled[e]`, no variable of the code, says that the last one heard is of the present app. `NotifyConfirm` stores a proposal
before it awaits the notify service (`Offer`), and takes it out of the store on the
first tap before it awaits the write (`Tap`). `offeredAt` and `tapped` are history,
kept for the property. `ChatCard` has one action per handler; JavaScript runs it up to
its await, `CardReply` is the rest of `_ask`.

### VoiceSetup

`voicePc[r]` is the await a run is at, in the order of the source: `lock`, then for each
app `info`, `install`, `start`, then for each app `hosts`, `wait` and `appeared`, then
`gather` (every confirmation has to end), `pipeline`, `remember`. `task[w]` is the
confirmation of one discovery, a task of its own that waits first for the Supervisor
(`hosts`) and then for Wyoming's flow (`configure`); `seen` and `claimed` are the sets
the source keeps for one run. A discovery that arrives while a run listens starts its
task in the same step (`Discover`), as `_on_flow` is a callback.

### CardResource

`snapshot[e]` is what a reconciliation read and still has to write; reading is atomic
and every write is a step of its own, so the user (`UserCard`, who does not know the
lock) comes between any two. A resource the user deleted makes `UpdateCard` read again,
`MaxAttempts` times. `touched` is what the user did that no reconciliation has dealt
with, and `overlapped` that two entries were removed at once; both are there for the
property. A reconciliation that gives up has dealt with nothing, so it leaves both
kinds of doing in `touched`.

### ConfigFlow

`flowPc[f]` is the form a flow shows or the await it is at. `Found` is what the
Supervisor lists, read when the answer is used. `Announce` is `async_step_hassio`
together with the check of Home Assistant's flow manager, which turns a second flow of
one unique id away before the code runs. `swallowed` holds the apps whose last
announcement came to nothing in that way, until they announce themselves again, whether
or not the flow that was in the way makes an entry.

### AnswerStream and Notices

`AnswerStream` reads deltas of any contents over `char`, `high` and `low`; `half` is the
held surrogate, `Valid` is `_valid_unicode`, written as what is shown for each
prefix (`ShownUpTo`), so that it can be proved about. In `Notices`, `turn` and `statusPoll` hold
an answer that was given and not yet used; `auth` and `succeeded` are the coordinator's
data, which its listener uses again after the first failure. A repair in the registry
outlives `Reboot`; `UnloadOwner` clears the sign-in's and leaves the history's.

## What the runs check

| Run | Instance | Question |
|---|---|---|
| `ChatConfirm` | 3 turns, 2 callers (one without an account), 2 entries, one conversation, TTL 0, one tick | No proposal runs twice (`AtMostOnce`); whatever becomes of a proposal is what `ProposalLife` allows (`ImplementsLife`); a held proposal runs only on its own caller's, entry's and conversation's yes, in time (`OnlyAConfirmedHoldRuns`); nobody else takes or replaces a hold (`OthersHoldsUntouched`) |
| `ChatConfirm_lost` | 3 turns of one caller, an app that may answer "internal" after it ran | Violated: the automatic write is asked about again and runs a second time |
| `ChatConfirm_dropped` | edits only | Violated: a memory suggestion beside an edit is dropped without the note |
| `AutomationStore_alone` | 3 requests, 2 automations, no editor, no cancellation | Writers take turns; between requests what runs is what the file says; the whole implements `AutomationCatalog` |
| `AutomationStore_editor` | 2 requests, one edit, cancellation, fairness | A request that "failed" left nothing behind; every request ends |
| `AutomationStore_cancelled` | 2 requests, cancellation | Violated: the lock is left while the thread still writes |
| `Memory` | 2 calls, each of which may be cancelled at its save, 1 user and nobody, 2 texts, limit 1, one reload or restart | Sets are bounded; what was said is kept or removed is so on disk; nobody changes what is not theirs |
| `EntryPolling` | the status and one other poller, grace 2, debounce 2, fairness | No outage without a whole grace time of silence; the repairs follow the app and the entry; unless the entry is disabled, a silent app is reported in the end and a well one has no repairs in the end; a connection that stays broken is raised |
| `EntryPolling_repair` | as above, grace 1 | Violated: an app that stops after its outage was reported is never offered a start |
| `Asking` | 3 calls, 2 entries, 1 user and nobody, TTL 0, one tick, 2 changes of the card's target | A proposal is answered once and written once, wherever it is answered (`ImplementsLife`), as its first tap approved it (`OnlyAsApproved`), at the entry that proposed it (`AppliedWhereNamed`); the card shows the answers of its own conversation (`ShowsItsConversation`) and is not locked for good (`BusyHasReason`); one status of another engine stops every request (`StatusIsHeeded`) |
| `Asking_unnamed` | as `Asking` | Violated: the Apply of a card that names no entry goes to whatever entry is the only one by then |
| `Parts` | each of the five parts alone: 2 runs and 2 discoveries; 2 entries, 5 resources, 2 attempts; 2 flows, 2 apps; 3 deltas of 2 code points; 2 resets of the history; fairness | `OneVoice`: no app is wired twice, one pipeline; `FailureLeavesPrompts`: a failed confirmation takes no other prompt away; `EveryRunEnds`; `OneCard`: one resource while an entry is set up, none after the last; `OneEntryPerApp`; `EntryFollowsTheApp`: an entry has what its app announced last; `ShowsWhatWasSent`: every way to cut an answer shows the same; `NoticesSettle`, `ToldOnce`: both lasting repairs end where they belong, the history's is told once |

Every property also has a mutated definition (`Mut...`, listed in `PROJECT.json`)
that reproduces a plausible bug and that TLC finds: each property would have caught
one.

### The bounds, and why they are enough

* Three turns: a question and two yeses, or a question, a replacing question and an
  answer. A fourth turn adds no new relation between turns; the proofs of the same
  properties have no bound.
* A time to live of 0 and one tick: a hold is either good or expired, and the clock
  may move at any await. Only the comparison with `expires` matters.
* Three requests and two automations: two requests for one automation and one for
  another, one of them a create under a new id. With the editor or cancellation, two
  requests, since one disturbed by the environment and one victim are enough.
* `MaxFacts = 1`: every call but the first meets a full set. Two texts: one that is
  there and one that is not. `MaxGen = 1`: one reload or restart at any point. Two calls:
  the one that is cancelled, and the one that writes or is told something after it.
* `Grace = 2`: a failure may be at the start of the window, inside it or at its end.
  `Threshold = 2` is the code's own. One supplementary poller: `usage` and `limits` do
  the same to the watch, and the question is how two pollers overlap; the proofs have no
  bound on their number.
* `ChatConfirm` is cut by the constraint `Scope`: three turns with every message, of
  one user at one entry, or three turns that delete and confirm, of any caller at any
  entry. A caller or an entry matters to the code only as part of the key of a hold and
  in the comparison at the yes, which a deletion reaches as every other kind does.
* `Asking` is cut by `Scope` too. The card and the notifications share nothing but the
  entries and their clients, so each is run alone among changes of the entries
  (`CardAlone`, `NotificationsAlone`), both together over entries that stay
  (`Together`), and the client's guard among changing apps (`AppsChange`). Three calls
  are a question, its write and one more. `MaxGeneration = 2`: away and back again.
* `Parts` has one variable more, the part a behaviour is of, and the constraint
  `FirstComesFirst`: runs, wirings and flows are used once and one is like another, so
  only behaviours that begin with the first of them are looked at. No fair action
  begins a run, a discovery or a flow, so the constraint cuts no behaviour that
  fairness would ask for. Both voice apps begin in the same state, and both slugs; all
  else is left to the actions.
* Two runs, two discoveries and two pipelines: one that is there, and one more that
  should not be. Five resources: two found at the start, two that the user adds, and one
  that a reconciliation adds. `MaxAttempts = 2`, where the code has 3: one attempt that
  reads again and one that gives up; the proof has no bound. Two flows and two
  apps: a choice, and two flows at one of them; `MaxToken = 2`: one reinstallation.
  Three deltas of two code points: a pair may be cut, and a half may be followed by
  anything. `MaxReset = 2`: a reset that was told, and a new one.
* Deadlock is not checked where every turn, request, call, run or flow is used once:
  the instance ends when they are all done.

### Fairness

`AutomationStore_editor` assumes weak fairness of what a request's task
and its thread do themselves (`Handle(w)`). The event loop runs every ready task, an
executor job ends, a service call ends, and `asyncio.Lock` wakes its waiters in
order, so that nobody is passed over for ever. With each request made once, a waiting
request is passed over finitely often, so weak fairness is enough. Nothing is assumed
of the arrival of requests, of the editor or of cancellation.

`EntryPolling` assumes weak fairness of the set-up's steps, of each poller's steps, of
the end of an installation and of the clock: Home Assistant retries an entry that is
not ready, sets one up again that it reloads, and polls one that is loaded; every request
to the app or the Supervisor ends (both have a timeout), and so does an installation. An
entry that is disabled takes no step at all. Nothing is assumed of what the app or the
Supervisor do, nor of the user who reloads, disables, enables and removes the entry;
where a property needs the app to stay as it is, or the entry to be enabled, its premise
says so.

`VoiceSetup` assumes weak fairness of "some run takes a step" and of "some confirmation
takes a step": the Supervisor's and Wyoming's answers come, the wait for an engine has
a timeout, and the lock is handed on. Nothing is assumed of the user, of discoveries,
or of an engine that is to register. `Notices` assumes weak fairness of the status
poll's steps, of the end of a turn that was answered, and of the usage poll of a loaded
entry; what the app says, who asks, dismisses, reloads or restarts is free, and each
premise of `NoticesSettle` is a state that lasts, or, for its third part, turns that go
on failing: that a single refusal is cleared by a status answered before it is what the
code allows, and the next refusal raises it again.

## What is proved

The proofs are for every value of the constants: any number of turns, requests, calls,
users, entries, flows, pollers, resources, any limit and any time to live. What is
assumed of the constants is the named `ASSUME` of each module: that "none" values are
none of the others, that bounds are naturals, and, in `Memory`, that calls, users and
texts are finite sets (a set of facts has a cardinality). TLC evaluates all of them.
Each theorem about one of the parts that `MCParts` runs side by side is about that
part's own specification (`VoiceSpec`, `CardSpec`, `FlowSpec`, `NoticeSpec`).

Every invariant that a run checks is proved, and so is every action property and every
refinement (`ImplementsCatalog`, and `ImplementsLife` twice). Where an invariant is not inductive, and few are, the proof
module begins with the named parts that make it so; TLC was asked about each of them
on the run's instance before it was proved.

### The chat agent: `ChatConfirm_proofs`

* `TypeCorrect`: `TypeOK` alone is not inductive: `Confirm` goes to
  `held[Mine(t)].kind`, which is a kind only if the stored turn made a proposal.
  `StoredHeld` says so, and `TypeOK /\ StoredHeld` is inductive.
* `RunsAtMostOnce`, `RunsOnlyWhenConfirmed`, `HoldsAreAnsweredOnce`, under the
  assumption `InternalMayRun = FALSE` (the app answers "internal" only to what it did
  not run; without it `AtMostOnce` is false, which `ChatConfirm_lost` shows).
* `OthersAreLeftAlone` (`OthersHoldsUntouched`), without that assumption: it rests only
  on `DoneHolds`, that a hold is under its own turn's key, and on every step of a turn
  touching the store under that turn's key alone.

The argument is the invariant `IInv`, six named parts:

* `UnansweredOK`: a turn that has not answered has held and run nothing, and before
  its first step past the translations has taken nothing;
* `StoredOK`: a hold in the store was made by a turn that is done, is under that
  turn's own key, and has not run;
* `TakenOK`: what a turn took belongs to it: same key, same entry;
* `AnsweredOnce`: what is taken is not in the store, and not taken twice;
* `ActingOK`: a turn at a confirmed action confirmed, in time, a hold that has not run;
* `RanOK`: what ran ran once, and if it was held somebody confirmed it.

`AtMostOnce` is not inductive: that the second run cannot happen follows from where
the proposal is (in the store, taken once, or in flight at one turn), which is what the
other parts say. The steps are grouped by what they do, and each group has a lemma:
turns that go on (`MoveKeeps`), turns that end (`EndKeeps`), an arrival, a
confirmation and a restart.

`HoldsAreAnsweredOnce` is `AnsweredOnce` as a theorem of its own. `ImplementsProposalLife`
is the whole of it: with `InternalMayRun = FALSE`, `Spec => ImplementsLife`. `StageOf`
computes from the store, from what turns took, from where they are and from what ran the
stage a proposal is at, and is "broken" if these contradict each other. `StageIs` derives
from `IInv` that they never do (`StagesFit`), `EachLives` says what one step may do to the
four pieces, whichever action it is (`Lives`), and `StageStep` puts the two together. Both
states of a step satisfy `StagesFit`; that a stage goes only where `After` says is then a
matter of cases, and that one step approves one proposal is a matter of one turn moving.

### The automation store: `AutomationStore_proofs`

* `TypeCorrect`, and `FailedIsClean` (`FailureLeavesNothing`), with the editor and with
  cancellation. `ControlInv` has the lock (`LockOK`: held exactly inside the block), the
  jobs (`JobOK`: a task that waits has its job running, and only a cancelled one leaves
  one behind) and the answers. `TraceOK` says of every request what it may have left so
  far: that a failed one left nothing follows from nobody else ever writing its content
  back, orphaned jobs of other requests included.
* `Serialized` (`WritersSerialized`), without cancellation and with the editor.
  `AutomationStore_cancelled` shows why not with it.
* `FileIsWhatRuns` (`RunningMatchesFile`), where the requests are alone (`Alone`: no
  edits, no cancellation). `AloneInv` says what the file is while one request is inside
  (what it loaded, then what it wrote), and that what runs lags behind only then.
* `Implements`: where the requests are alone they refine `AutomationCatalog`. `Init` is
  mapped to its `Init`; `CatalogStep` maps the write of the file to
  `Change`, the answer after it to `Keep` or `TakeBack`, and everything else to a
  stutter. It needs `AloneInv` to know that a request changes the file as it loaded it.

### Remembered facts: `Memory_proofs`

`TypeCorrect`, `NoSetOverflows` (`SetsBounded`), `KeptOnDisk` (`SaidIsKept`),
`RemovedForGood` (`ForgottenStaysGone`), `NobodyElsesFacts` (`OnlyOnesOwn`).

The invariant `MemoryInv` has, beside the types and the bound, `CallsOK` (a call makes
each of its facts once, so a fact that is gone is never made again), `StoreOK` (what is
to be written is the list as it is, one write at a time for one `Memory`) and
`PromisesOK`. The promises are about three things that may differ: the list, what a write
took with it (`out`) and the file. `ToldOK` says that what was told holds in all three;
`TellingOK` says it of what the calls under way will tell once they are done: a removed
fact is out of the list at once and, if a write is under way, out of what it took, or
another write will follow. It is the second half that was hard to find: a call whose
facts were saved by another call's write tells them without a write of its own
(`AlreadyWritten`), so the file has to be the list whenever nothing is left to write.
`PromisesOK` holds while no `Memory` was replaced under a save (`overlapped`), as do the
two properties; what it says of the file (`FileOK`), and only that, holds unless a
cancelled write left the file `doubtful`. What it says of the list and of writes that
still hold the lock holds all the same, which is why the next of them puts the file right
(`CancelStep`, `LateWriteStep`, and the step of `Write`).

### The app watch: `EntryPolling_proofs`

* `NoAlarmWithinGrace`: `Spec => NoFalseAlarm`. Whatever the order of the answers, an
  outage is reported only after a whole grace time without data. The inductive
  invariant `WatchInv` has the types of the times, `WindowAfterData` (a window never
  began before the last answered poll: `downFor <= quietFor`) and `ReportedIsOld`. The
  proof rests on `WatchSteps`: nothing touches the watch's times but its two methods,
  the clock and the removal.
* `TypeCorrect`: `Spec => []TypeOK`.
* `RepairsAreTheApps`, `HealthIsOfLoadedEntries`: `Spec => []RepairsFollowTheApp` and
  `Spec => []UnloadedIsQuiet`, from `RepairInv`. It adds to the two properties
  `CheckedOut` (the set-up's check runs only while the entry is out, which is why no
  late check can raise `addon_not_installed` for a loaded entry) and `HealthLoaded` (a
  health repair exists only in the phase `loaded`).

### Asking: `Asking_proofs`

All invariants of the run `Asking`, its action property and its refinement, of which
`WrittenAsApproved` (`OnlyAsApproved`), `ImplementsProposalLife` and
`ShowsOnlyItsConversation` matter most. `AskingInv` says where a proposal is. `HoldsOK`:
what is stored is what its call proposed, and was not tapped. `WritesOK`: a write is of a
proposal that is used up, applied on the card or tapped and out of the store, and has the
entry and the caller that it should; `OnePerProposal` follows, because a write can begin
only from a proposal that is not used up (`WriteBegins`). `ConversationOK` says of calls
under way what `ShowsItsConversation` says of messages: what the card asked in its
present generation it asked of its present target. `KnownOK` is what a status taught a
client, for `HeedsStatus`.

`AtMostOneWrite` is what `WritesOK` and `OnePerProposal` say of one moment.
`ImplementsProposalLife` says it of the whole life of a proposal, on phones and on the
card: the stage (`StageOf`) is computed from the store of `confirm.py`, from what the
card applied or dismissed, and from the one write. It needs one more invariant, `RanOK`:
what an app ran was answered or failed with the same step, so nothing that is still in
flight has run. `OpenIsNotReopened` is the part a test would hardly reach: nothing that
can no longer be approved can be approved again, in spite of late answers, of a card that
goes away and comes back, and of a restart.

### The other parts

* `VoiceSetup_proofs`: `WiresOnce` (`OneVoice`) and the action property
  `FailureTakesOnlyItsOwn` (`FailureLeavesPrompts`). `LockOK` is the exclusion of runs;
  `TasksOK` ties confirmations to the run that has yet to gather them; `ClaimsOK` says
  that an app has one confirmation at the flow at a time, and none once it is wired;
  `PipelinesOK` that there is no pipeline but the one that is remembered or about to be.
* `CardResource_proofs`: `OneCardForAll` (`OneCard`). `Work` says, for each await of the
  lock's holder, what its read still tells of the resources in spite of what the user
  does (`touched`); `FreeOK` and `GoneOK` are the two halves of the property between
  reconciliations.
* `Parts_proofs`, on `ConfigFlow`: `OneEntryForAnApp` and `EntriesFollow`. The first
  rests on `TestsOK`: a flow that tests an app has its unique id and the app has no
  entry, for an entry that is made ends the other flows of its id. The second adds
  `TokensOK`: the details a flow tested successfully are no older than what the app has
  announced, unless the announcement was swallowed. `LossToldOnce` (`ToldOnce`) of
  `Notices`: `HistoryOK` says that the repair is of the last reset at most, and that a
  dismissed one is not newer.
* `AnswerIsShown` (`ShowsWhatWasSent`), for any number of deltas of any length. The
  invariant adds `HeldBack`: while the answer comes, what is held is the high half that
  the text sent so far ends in, and nothing else is. What is left is a fact about
  texts: showing a text cut anywhere but inside a pair is showing its two pieces. It is an
  induction over the length, which the library offers only with an operator as a
  parameter; it is done by a least counterexample instead: the set of lengths where the
  fact fails has a least element, which is neither zero nor a successor.
* `PartsTyped` (`PartsTypeOK`): the types of the five parts are parts of their invariants.
  `EachPartAlone` says that a behaviour of `MCParts` is one of each part, so that every
  theorem about a part's own specification is one about the run as well.

### Only model-checked

* Liveness under fairness (`EveryRequestEnds`, `OutageIsReported`, `RepairsGo`,
  `BrokenIsRaised`, `EveryRunEnds`, `NoticesSettle`) is out of the prover's reach.
* The statements that the code violates (the runs `ChatConfirm_lost`,
  `ChatConfirm_dropped`, `AutomationStore_cancelled`, `EntryPolling_repair` and
  `Asking_unnamed`).

## What the checks found

* An automatic write that fails with "internal" is asked about again as if nothing had
  run (`conversation.py`, `_async_auto_write`): `ChatConfirm_lost`.
* An edit drops a memory suggestion silently (`_handle_modify_request`):
  `ChatConfirm_dropped`.
* The repair of an outage is decided once, when it is reported: an app that is still
  `running` then and stops later, or whose repair a set-up cleared, is never offered a
  start (`addon.py`, `async_down`; `__init__.py:255`): `EntryPolling_repair`.
* A cancelled request leaves the store lock while its thread writes
  (`automation_commit.py`): `AutomationStore_cancelled`.
* A card without `config_entry` does not remember which entry answered, as its header
  says every answer does: `Asking_unnamed`.

In the models, and contradicting no statement of the repository: the editor may be
overwritten between the comparison and the write of a rollback, and between a load and
a write (the lock is documented as one between the integration's own writers), and if it
writes between the two reads of a load, a rollback puts back what was there before it; an
update may re-create an automation deleted since the model read it; a memory change
that removes and then fails to remember is reported as the error alone; and a reload or
removal of the entry in the middle of a save can lose or resurrect a fact, which
`SaidIsKept` and `ForgottenStaysGone` exclude by name (`overlapped`). So can the
cancellation of a call that is writing: the older list of its thread may replace a newer
file, or another call is told that a fact is kept whose list went with the cancelled one.
Both properties exclude that by name too (`doubtful`), for the file alone and until the
same `Memory` writes again; a restart, reload or removal before that makes it lasting and
counts as `overlapped`. An entry that the user disables in a reported outage keeps
`addon_not_running` however well the app is by then, and one disabled between two attempts
keeps the `engine_mismatch` or `addon_not_installed` of the last: unloading clears neither
of the app's repairs, and there is nothing to unload in the second case (`RepairsGo` has
the premise that the entry is enabled). One flappy answer
followed by a failed poll raises `mcp_unreachable`, because the listener runs after the
first failure with the data of the poll before; and an app that answers every poll with
an error, but for a request now and then that is not answered at all, counts as silent.

An announcement that arrives while a flow has the app's unique id is turned away by the
flow manager, so the entry that flow makes may begin with an older token
(`EntryFollowsTheApp` excludes it by name, `swallowed`; the app's next start announces
it again). When the last two entries are removed at once each takes the other for one
that stays, and the card's resource is left behind (`OneCard` excludes it by name,
`overlapped`). A user who adds the repository when every app in it has its entry gets an
error and the form again, since the step reads `step_id` of an answer that has none
(`config_flow.py:179`). A reconciliation whose last attempt fails, because the user deletes the
resource it was to update each time, leaves the resources as the user made them, one too
many or none, until the next set-up; that showed when `OneCard` was to be proved and not in the smaller
instance checked before, and `touched` now accounts for it. An approval that finds its entry unloaded uses the proposal up.

## Not modelled

* The action policy and the matching of names (`automation_commit.py`), the risk rules
  (`risk.py`) and the choice of cameras (`vision.py`): functions of one text or one draft that keep no state. Most are
  tables, whose definition in TLA+ would be a copy; no step of another actor can come
  between their parts. Whether a write may run unasked is a free choice of the app's
  answer in `ChatConfirm`, which allows more than the rules do.
* Of the client: HTTP, the parsing of single answers and the table of error codes. The
  classes of errors the callers tell apart are choices of their actions.
* The web agent's one repair (a refusal raises it, an answer and set-up clear it), the
  camera advisory, the options flow, the migration of old entries, an installation
  without Supervisor, resources managed in YAML: simple enough for a test.
* Entities, diagnostics, translations and wording, except where a property is about
  them (the note on a dropped suggestion, the app's explanation of a cut answer).
* The app, the Supervisor, Home Assistant's Store, flow manager, issue registry,
  coordinators and Lovelace are code that is not in this repository; they do what the
  integration's use of them allows for.

`PROJECT.json` gives the reason for each component.

## Plan

What could be added, in this order:

1. The two action properties that the proofs come close to and no run checks: in
   `AutomationStore`, what the editor may lose and what it may not.
2. `overlapped` in `Memory`: how much of the promises survives a reload under a save.
3. The set-up and unload of an entry around a call of `Memory` and around a tap, as one
   module: today each component has its own `Reload` or `Unload`.
