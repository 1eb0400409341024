------------------------------ MODULE AddonWatch ------------------------------
(***************************************************************************)
(* The watch over the companion app (custom_components/claude_ha/addon.py):*)
(* one per entry, kept across set-ups, called by the set-up and by every   *)
(* poller.  Its methods are the operators below; who calls them when is    *)
(* EntryPolling.                                                           *)
(*                                                                         *)
(* A time is the clock ticks that have passed since, up to Grace: nothing  *)
(* looks at more.                                                          *)
(***************************************************************************)
EXTENDS Naturals

CONSTANTS
    Grace,    \* ADDON_OUTAGE_GRACE, in clock ticks
    NoTime    \* "not down"

ASSUME WatchConstants ==
    /\ Grace \in Nat \ {0}
    /\ NoTime \notin Nat

\* What the Supervisor says of the app; every state in which it is installed
\* and does not run is "stopped", but for the installation by the set-up.
AppStates == {"running", "stopped", "missing", "installing"}

Issues == {"addon_not_running", "addon_not_installed", "engine_mismatch",
           "mcp_unreachable", "other_problem"}
AddonIssues == {"addon_not_running", "addon_not_installed"}

VARIABLES
    downFor,   \* _down_since, as the time that has passed, or NoTime
    reported,  \* _outage_reported
    issues,    \* the entry's repairs in the issue registry
    quietFor   \* the time since a poll was last answered with data

watchVars == <<downFor, reported, issues, quietFor>>

WatchTypeOK ==
    /\ downFor \in 0..Grace \cup {NoTime}
    /\ reported \in BOOLEAN
    /\ issues \subseteq Issues
    /\ quietFor \in 0..Grace

\* A new watch: Home Assistant starts, or the entry is removed.
WatchInit ==
    /\ downFor = NoTime
    /\ reported = FALSE
    /\ issues = {}
    /\ quietFor = Grace

\* async_down: the app does not answer.  The first call opens a restart window,
\* one after Grace reports an outage.
Down ==
    /\ downFor' = IF downFor = NoTime THEN 0 ELSE downFor
    /\ reported' = (reported \/ downFor = Grace)
    /\ UNCHANGED quietFor

\* _report_outage: what such a call makes of the repairs, if the Supervisor says
\* state.
DownIssues(state, repairs) ==
    IF downFor = Grace /\ ~reported /\ state # "running"
    THEN repairs \cup {"addon_not_running"}
    ELSE repairs

\* Bug: a window that was not reported is not closed.
MutReachable ==
    /\ downFor' = IF reported THEN NoTime ELSE downFor
    /\ reported' = FALSE
    /\ quietFor' = 0

\* async_reachable: a poll was answered, which closes a window or an outage.
Reachable ==
    /\ downFor' = NoTime
    /\ reported' = FALSE
    /\ quietFor' = 0

\* Bug: the repair is left for the next set-up to clear.
MutReachableIssues(repairs) == repairs

ReachableIssues(repairs) == IF reported THEN repairs \ AddonIssues ELSE repairs

Older(time) == IF time = NoTime \/ time = Grace THEN time ELSE time + 1

\* The clock.
TickWatch ==
    /\ downFor' = Older(downFor)
    /\ quietFor' = Older(quietFor)
    /\ UNCHANGED <<reported, issues>>
=============================================================================
