----------------------------- MODULE EntryPolling -----------------------------
(***************************************************************************)
(* One config entry on a Supervisor installation: its set-up, retries,     *)
(* reload, disabling and removal (__init__.py), its pollers                *)
(* (coordinator.py) and what they make of the app's watch (AddonWatch) and *)
(* of the health repairs (Health), all under custom_components/claude_ha.  *)
(*                                                                         *)
(* A poller awaits the app and, when the app does not answer, the          *)
(* Supervisor; both answers are used some time after they were given.      *)
(* Home Assistant's DataUpdateCoordinator is external: it polls while it   *)
(* has listeners, tells them of every success and of the first failure in  *)
(* a row, and its polls are cancelled when the entry is unloaded.          *)
(***************************************************************************)
EXTENDS AddonWatch, Health

CONSTANTS
    Supplementary,  \* the coordinators beside the status: usage, limits
    Status          \* the status coordinator

Poller == {Status} \cup Supplementary

\* The set-up's check of the app waits for the Supervisor as a poller does.
SetUp == "setup"

ASSUME PollerConstants == Status \notin Supplementary /\ SetUp \notin Poller

\* What the app's API does with a request; "silent" is no answer at all.
Api == Statuses \cup {"error", "mismatch", "silent"}

\* What a poll gets: data, or an error of the app.
PollResults == Statuses \cup {"error", "mismatch"}

VARIABLES
    phase,      \* the entry: "out" (to be set up), "refresh", "loaded",
                \* "disabled" by the user, or "removed"
    first,      \* the pollers that this set-up has refreshed
    at,         \* what each poller, and the set-up's check, waits for
    result,     \* the answer it got
    status,     \* the status coordinator's data
    polled,     \* its last_update_success
    streak,     \* mcp_unreachable_streak
    app,        \* the app's state, as the Supervisor would tell it
    api,        \* what its API does with a request
    supervisor  \* whether the Supervisor can tell

entryVars == <<phase, first>>
callVars == <<at, result>>
healthVars == <<status, polled, streak>>
envVars == <<app, api, supervisor>>
vars == <<watchVars, entryVars, callVars, healthVars, envVars>>

Caller == Poller \cup {SetUp}
Places == {"idle", "app", "answered", "supervisor", "told"}
Results == PollResults \cup AppStates \cup {"none", "unreadable"}

TypeOK ==
    /\ WatchTypeOK
    /\ phase \in {"out", "refresh", "loaded", "disabled", "removed"}
    /\ first \subseteq Poller
    /\ at \in [Caller -> Places]
    /\ result \in [Caller -> Results]
    /\ status \in Statuses
    /\ polled \in BOOLEAN
    /\ streak \in 0..Threshold
    /\ app \in AppStates
    /\ api \in Api
    /\ supervisor \in BOOLEAN

-----------------------------------------------------------------------------
(* The environment. *)

\* The app is started, stopped, updated or removed, by a person or by the
\* Supervisor; only a running one answers.
AppChanges ==
    /\ \E a \in AppStates \ {"installing"}, b \in Api :
         /\ b # "silent" => a = "running"
         /\ <<a, b>> # <<app, api>>
         /\ app' = a
         /\ api' = b
    /\ UNCHANGED <<watchVars, entryVars, callVars, healthVars, supervisor>>

SupervisorChanges ==
    /\ supervisor' = ~supervisor
    /\ UNCHANGED <<watchVars, entryVars, callVars, healthVars, app, api>>

Tick ==
    /\ TickWatch
    /\ UNCHANGED <<entryVars, callVars, healthVars, envVars>>

-----------------------------------------------------------------------------
(* Calls. *)

Wait(c, where, answer) ==
    /\ at' = [at EXCEPT ![c] = where]
    /\ result' = [result EXCEPT ![c] = answer]

\* The Supervisor answers async_get_addon_info.
SupervisorAnswers(c) ==
    /\ at[c] = "supervisor"
    /\ Wait(c, "told", IF supervisor THEN app ELSE "unreadable")
    /\ UNCHANGED <<watchVars, entryVars, healthVars, envVars>>

-----------------------------------------------------------------------------
(* Set-up: _async_ensure_addon_running, then every coordinator's first
   refresh, one after the other. *)

\* A retry is not due while the app is being installed.
CheckApp ==
    /\ phase = "out"
    /\ at[SetUp] = "idle"
    /\ app # "installing"
    /\ Wait(SetUp, "supervisor", "none")
    /\ UNCHANGED <<watchVars, entryVars, healthVars, envVars>>

\* Bug: every attempt to set the entry up has a watch of its own.
MutAppChecked ==
    /\ at[SetUp] = "told"
    /\ Wait(SetUp, "idle", "none")
    /\ \/ /\ result[SetUp] = "unreadable"
          /\ UNCHANGED <<watchVars, entryVars, healthVars, app>>
       \/ /\ result[SetUp] = "missing"
          /\ issues' = issues \cup {"addon_not_installed"}
          /\ app' = IF app = "missing" THEN "installing" ELSE app
          /\ UNCHANGED <<downFor, reported, quietFor, entryVars, healthVars>>
       \/ /\ result[SetUp] \in {"stopped", "installing"}
          /\ downFor' = 0
          /\ reported' = FALSE
          /\ UNCHANGED <<issues, quietFor, entryVars, healthVars, app>>
       \/ /\ result[SetUp] = "running"
          /\ issues' = issues \ AddonIssues
          /\ phase' = "refresh"
          /\ first' = {}
          /\ status' = "fine" /\ polled' = TRUE /\ streak' = 0
          /\ UNCHANGED <<downFor, reported, quietFor, app>>
    /\ UNCHANGED <<api, supervisor>>

\* Every answer but "running" ends this attempt (ConfigEntryNotReady): a
\* missing app is installed, a stopped one is left to the Supervisor.
AppChecked ==
    /\ at[SetUp] = "told"
    /\ Wait(SetUp, "idle", "none")
    /\ \/ /\ result[SetUp] = "unreadable"
          /\ UNCHANGED <<watchVars, entryVars, healthVars, app>>
       \/ /\ result[SetUp] = "missing"
          /\ issues' = issues \cup {"addon_not_installed"}
          /\ app' = IF app = "missing" THEN "installing" ELSE app
          /\ UNCHANGED <<downFor, reported, quietFor, entryVars, healthVars>>
       \/ /\ result[SetUp] \in {"stopped", "installing"}
          /\ Down
          /\ issues' = DownIssues(result[SetUp], issues)
          /\ UNCHANGED <<entryVars, healthVars, app>>
       \/ /\ result[SetUp] = "running"
          /\ issues' = issues \ AddonIssues
          /\ phase' = "refresh"
          /\ first' = {}
          /\ status' = "fine" /\ polled' = TRUE /\ streak' = 0
          /\ UNCHANGED <<downFor, reported, quietFor, app>>
    /\ UNCHANGED <<api, supervisor>>

\* The installation the set-up started ends: the app runs, or is not there.
Installed ==
    /\ app = "installing"
    /\ \/ app' = "running" /\ api' \in Api
       \/ app' = "missing" /\ UNCHANGED api
    /\ UNCHANGED <<watchVars, entryVars, callVars, healthVars, supervisor>>

-----------------------------------------------------------------------------
(* A poll. *)

\* A first refresh runs alone, the status first; later polls overlap.
Poll(p) ==
    /\ at[p] = "idle"
    /\ \/ phase = "loaded"
       \/ /\ phase = "refresh"
          /\ p \notin first
          /\ p # Status => Status \in first
          /\ \A q \in Poller : at[q] = "idle"
    /\ Wait(p, "app", "none")
    /\ UNCHANGED <<watchVars, entryVars, healthVars, envVars>>

\* The app answers, or does not and the watch asks the Supervisor.  Of another
\* engine's app only the status is read, the other requests fail.
AppAnswers(p) ==
    /\ at[p] = "app"
    /\ \/ api = "silent" /\ Wait(p, "supervisor", "none")
       \/ /\ api # "silent"
          /\ Wait(p, "answered", IF p = Status THEN api
                                 ELSE IF api \in Statuses THEN "fine"
                                 ELSE "error")
    /\ UNCHANGED <<watchVars, entryVars, healthVars, envVars>>

\* Bug: every evaluation starts to count anew.
MutListener(data, repairs) ==
    /\ streak' = Streak(data, 0)
    /\ issues' = Apply(repairs, data, streak')

\* _refresh_health, on the coordinator's data.
Listener(data, repairs) ==
    /\ streak' = Streak(data, streak)
    /\ issues' = Apply(repairs, data, streak')

\* The refresh of p is over, with new data or not; repairs is what it made of
\* them so far.
Finish(p, success, data, repairs) ==
    /\ Wait(p, "idle", "none")
    /\ status' = data
    /\ polled' = IF p = Status THEN success ELSE polled
    /\ \/ /\ phase = "refresh" /\ p = Status /\ ~success  \* ConfigEntryNotReady
          /\ phase' = "out"
          /\ issues' = repairs
          /\ UNCHANGED <<first, streak>>
       \/ /\ phase = "refresh" /\ (p # Status \/ success)
          /\ first' = first \cup {p}
          /\ IF first' = Poller
             THEN phase' = "loaded" /\ Listener(data, repairs)
             ELSE phase' = phase /\ issues' = repairs /\ UNCHANGED streak
       \/ /\ phase = "loaded" /\ p = Status /\ (success \/ polled)
          /\ Listener(data, repairs)
          /\ UNCHANGED entryVars
       \/ /\ phase = "loaded" /\ (p = Status => ~success /\ ~polled)
          /\ issues' = repairs
          /\ UNCHANGED <<entryVars, streak>>

\* Data: the app is back, and is this entry's.
Answered(p) ==
    /\ at[p] = "answered"
    /\ result[p] \in Statuses
    /\ Reachable
    /\ Finish(p, TRUE, IF p = Status THEN result[p] ELSE status,
              ReachableIssues(IF p = Status THEN issues \ {"engine_mismatch"}
                                            ELSE issues))
    /\ UNCHANGED envVars

\* An error of the app says nothing to the watch.
Refused(p) ==
    /\ at[p] = "answered"
    /\ result[p] \notin Statuses
    /\ Finish(p, FALSE, status,
              IF result[p] = "mismatch" THEN issues \cup {"engine_mismatch"}
                                        ELSE issues)
    /\ UNCHANGED <<downFor, reported, quietFor, envVars>>

\* No answer, and the Supervisor vouches for the app or not.
Unanswered(p) ==
    /\ at[p] = "told"
    /\ \/ /\ result[p] \in {"running", "stopped", "installing"}
          /\ Down
          /\ Finish(p, FALSE, status, DownIssues(result[p], issues))
       \/ /\ result[p] \in {"missing", "unreadable"}
          /\ UNCHANGED <<downFor, reported, quietFor>>
          /\ Finish(p, FALSE, status, issues)
    /\ UNCHANGED envVars

-----------------------------------------------------------------------------
(* The entry goes away. *)

\* Bug: the health repairs stay.
MutUnload ==
    /\ phase = "loaded"
    /\ first' = {}
    /\ at' = [c \in Caller |-> "idle"]
    /\ result' = [c \in Caller |-> "none"]
    /\ issues' = issues \ {"engine_mismatch"}
    /\ UNCHANGED <<downFor, reported, quietFor, healthVars, envVars>>

\* async_unload_entry; polls under way are cancelled, the watch is kept.
Unload ==
    /\ phase = "loaded"
    /\ first' = {}
    /\ at' = [c \in Caller |-> "idle"]
    /\ result' = [c \in Caller |-> "none"]
    /\ issues' = issues \ (HealthIssues \cup {"engine_mismatch"})
    /\ UNCHANGED <<downFor, reported, quietFor, healthVars, envVars>>

\* Home Assistant sets an entry up again that it reloads ...
Reload == Unload /\ phase' = "out"

\* ... but not one the user has disabled.  Of one that waits for the retry of
\* its set-up only the retry is cancelled.
Disable ==
    /\ phase' = "disabled"
    /\ \/ Unload
       \/ /\ phase = "out" /\ at[SetUp] = "idle"
          /\ UNCHANGED <<watchVars, first, callVars, healthVars, envVars>>

Enable ==
    /\ phase = "disabled"
    /\ phase' = "out"
    /\ UNCHANGED <<watchVars, first, callVars, healthVars, envVars>>

\* async_remove_entry, of an entry that is not loaded nor being set up.
Remove ==
    /\ phase \in {"out", "disabled"}
    /\ at[SetUp] = "idle"
    /\ phase' = "removed"
    /\ downFor' = NoTime
    /\ reported' = FALSE
    /\ issues' = {}
    /\ UNCHANGED <<quietFor, first, callVars, healthVars, envVars>>

-----------------------------------------------------------------------------

Init ==
    /\ WatchInit
    /\ phase = "out"
    /\ first = {}
    /\ at = [c \in Caller |-> "idle"]
    /\ result = [c \in Caller |-> "none"]
    /\ status = "fine"
    /\ polled = TRUE
    /\ streak = 0
    /\ app \in AppStates \ {"installing"}
    /\ api \in Api
    /\ api # "silent" => app = "running"
    /\ supervisor \in BOOLEAN

SetUpStep == CheckApp \/ SupervisorAnswers(SetUp) \/ AppChecked
PollStep(p) ==
    Poll(p) \/ AppAnswers(p) \/ SupervisorAnswers(p)
    \/ Answered(p) \/ Refused(p) \/ Unanswered(p)

Next ==
    \/ SetUpStep
    \/ \E p \in Poller : PollStep(p)
    \/ Installed
    \/ Reload \/ Disable \/ Enable \/ Remove
    \/ AppChanges \/ SupervisorChanges \/ Tick

Spec == Init /\ [][Next]_vars

\* Home Assistant sets up an entry that is not disabled, retries a set-up that
\* was not ready and polls while the entry is loaded; requests and installations
\* end, time passes.  Nothing is asked of the user: an entry may be disabled for
\* good, or reloaded, disabled and enabled again and again.
FairSpec ==
    /\ Spec
    /\ WF_vars(SetUpStep)
    /\ \A p \in Poller : WF_vars(PollStep(p))
    /\ WF_vars(Installed)
    /\ WF_vars(Tick)

-----------------------------------------------------------------------------
(* Properties. *)

\* An outage is reported, and its repair raised, only when no poll has been
\* answered with data for the whole grace time, whichever of the pollers and
\* set-ups saw the failures and in whatever order their answers came
\* (ADDON_OUTAGE_GRACE).
NoFalseAlarm == [][~reported /\ reported' => quietFor = Grace]_vars

\* The repairs of the app follow it: the offer to start it is there only in an
\* outage that was reported, and an entry that is loaded does not ask for the
\* app's installation (async_reachable, _async_ensure_addon_running).
RepairsFollowTheApp ==
    /\ "addon_not_running" \in issues => reported /\ downFor = Grace
    /\ phase = "loaded" => "addon_not_installed" \notin issues

\* Nothing but the app's repairs, and a mismatch that made a set-up fail,
\* outlives the entry's unloading (async_unload_entry).
UnloadedIsQuiet ==
    phase \in {"out", "disabled", "removed"} => issues \cap HealthIssues = {}

\* An app that the Supervisor manages and that stays silent is reported as an
\* outage, also when it went away before or during a set-up, or between two, for
\* as long as the user keeps the entry and leaves it enabled.
Silent == api = "silent" /\ app \in {"running", "stopped"} /\ supervisor
OutageIsReported ==
    <>[](Silent /\ phase \notin {"disabled", "removed"}) => <>[]reported

\* When the app is back and well, all the repairs go, unless the entry is
\* disabled: of that nobody looks at the app, and the repairs of the app and of a
\* set-up that found another engine stay (async_unload_entry clears neither).
Well == api = "fine" /\ app = "running" /\ supervisor
RepairsGo == <>[](Well /\ phase # "disabled") => <>[](issues = {})

\* A connection to Home Assistant that stays broken is raised in spite of the
\* debounce.
BrokenIsRaised ==
    <>[](api = "flap" /\ phase = "loaded") => <>[]("mcp_unreachable" \in issues)

\* An outage is reported with "a repair offering to start it when it is not
\* running": whoever tells the watch that an app it has given up is not running
\* leaves that repair behind (the docstring of AddonWatch).
RepairIsOffered ==
    [][\A c \in Caller :
         /\ at[c] = "told" /\ at'[c] = "idle"
         /\ result[c] \in {"stopped", "installing"}
         /\ reported'
         => "addon_not_running" \in issues']_vars
=============================================================================
