-------------------------------- MODULE Notices --------------------------------
(***************************************************************************)
(* The two repairs of an entry that outlive a restart of Home Assistant    *)
(* (custom_components/claude_ha): the expired sign-in, which both a failed *)
(* turn (conversation.py) and the status poll (health.py) raise, and the   *)
(* loss of the usage history, which is told once (coordinator.py).         *)
(*                                                                         *)
(* For both the issue registry is the memory, and it keeps that a user     *)
(* dismissed a repair as long as the repair is there. The registry and the *)
(* app are external. The other repairs are in EntryPolling.                *)
(***************************************************************************)
EXTENDS Naturals

CONSTANT MaxReset   \* bound on how often the app loses its usage history

ASSUME NoticeConstants == MaxReset \in Nat

VARIABLES
    owner,       \* the entry: "out", "loading", "loaded" or "removed"
    signin,      \* the engine's sign-in: "ok" or "expired"
    says,        \* the app answers with it, without it ("less"), or not at all
    resets,      \* history_since of the app's usage report, 0 if none
    turn,        \* a turn of the agent: "idle", "asked", or what was answered
    statusPoll,  \* the status poll, likewise
    auth,        \* what the status coordinator's data say of the sign-in
    succeeded,   \* its last_update_success
    expiredNote, \* the sign-in repair is raised
    historyNote, \* the repair of the lost history
    dismissed    \* the last history_since whose repair the user dismissed

noticeVars == <<owner, signin, says, resets, turn, statusPoll, auth, succeeded,
                expiredNote, historyNote, dismissed>>
appSide == <<signin, says, resets>>
statusVars == <<statusPoll, auth, succeeded>>
noteVars == <<expiredNote, historyNote, dismissed>>

NoNote == [since |-> 0, hidden |-> FALSE]
Answer == {"ok", "expired", "unknown", "failed"}

NoticeTypeOK ==
    /\ owner \in {"out", "loading", "loaded", "removed"}
    /\ signin \in {"ok", "expired"}
    /\ says \in {"auth", "less", "nothing"}
    /\ resets \in 0..MaxReset
    /\ turn \in {"idle", "asked"} \cup Answer
    /\ statusPoll \in {"idle", "asked"} \cup Answer
    /\ auth \in Answer \ {"failed"}
    /\ succeeded \in BOOLEAN
    /\ expiredNote \in BOOLEAN
    /\ historyNote \in [since : 0..MaxReset, hidden : BOOLEAN]
    /\ dismissed \in 0..MaxReset

NoticeInit ==
    /\ owner = "out"
    /\ signin = "ok" /\ says = "auth" /\ resets = 0
    /\ turn = "idle" /\ statusPoll = "idle"
    /\ auth = "unknown" /\ succeeded = TRUE
    /\ expiredNote = FALSE /\ historyNote = NoNote /\ dismissed = 0

\* The app is restarted, updated, signed in or out, or loses its history.
AppMoves ==
    /\ \/ signin' \in {"ok", "expired"} /\ UNCHANGED <<says, resets>>
       \/ says' \in {"auth", "less", "nothing"} /\ UNCHANGED <<signin, resets>>
       \/ resets < MaxReset /\ resets' = resets + 1 /\ UNCHANGED <<signin, says>>
    /\ UNCHANGED <<owner, turn, statusVars, noteVars>>

-----------------------------------------------------------------------------
(* The expired sign-in. *)

\* A turn fails on it whatever the status would say.
Ask ==
    /\ owner = "loaded" /\ turn = "idle"
    /\ turn' = "asked"
    /\ UNCHANGED <<owner, appSide, statusVars, noteVars>>

TurnAnswered ==
    /\ turn = "asked"
    /\ turn' = IF says = "nothing" THEN "failed" ELSE signin
    /\ UNCHANGED <<owner, appSide, statusVars, noteVars>>

\* _error raises the repair, also when the entry has gone meanwhile.
TurnEnds ==
    /\ turn \in Answer
    /\ turn' = "idle"
    /\ expiredNote' = (expiredNote \/ turn = "expired")
    /\ UNCHANGED <<owner, appSide, statusVars, historyNote, dismissed>>

AskStatus ==
    /\ owner \in {"loading", "loaded"} /\ statusPoll = "idle"
    /\ statusPoll' = "asked"
    /\ UNCHANGED <<owner, appSide, turn, auth, succeeded, noteVars>>

StatusAnswered ==
    /\ statusPoll = "asked"
    /\ statusPoll' = CASE says = "auth" -> signin
                       [] says = "less" -> "unknown"
                       [] says = "nothing" -> "failed"
    /\ UNCHANGED <<owner, appSide, turn, auth, succeeded, noteVars>>

\* Bug: a good status leaves the repair that a turn raised.
MutHeeded(data, note) == note \/ data = "expired"

\* evaluate and async_apply: an unknown sign-in leaves the repair as it is.
Heeded(data, note) ==
    CASE data = "expired" -> TRUE
      [] data = "ok" -> FALSE
      [] OTHER -> note

\* The listener runs on every success, and on the first failure, then with the
\* data from before.
StatusPolled ==
    /\ statusPoll \in Answer
    /\ statusPoll' = "idle"
    /\ succeeded' = (statusPoll # "failed")
    /\ IF statusPoll # "failed"
       THEN /\ auth' = statusPoll
            /\ owner' = "loaded"
            /\ expiredNote' = Heeded(statusPoll, expiredNote)
       ELSE /\ owner' = IF owner = "loading" THEN "out" ELSE owner
            /\ expiredNote' = IF owner = "loaded" /\ succeeded
                              THEN Heeded(auth, expiredNote) ELSE expiredNote
            /\ UNCHANGED auth
    /\ UNCHANGED <<appSide, turn, historyNote, dismissed>>

-----------------------------------------------------------------------------
(* The lost history (_async_note_history_reset). *)

\* The repair that is there names the reset; only another is raised anew, with
\* nothing left of what the user did to the first.
UsagePolled ==
    /\ owner = "loaded" /\ says # "nothing"
    /\ historyNote' = IF resets = 0 \/ historyNote.since = resets THEN historyNote
                      ELSE [since |-> resets, hidden |-> FALSE]
    /\ UNCHANGED <<owner, appSide, turn, statusVars, expiredNote, dismissed>>

Dismiss ==
    /\ historyNote # NoNote /\ ~historyNote.hidden
    /\ historyNote' = [historyNote EXCEPT !.hidden = TRUE]
    /\ dismissed' = historyNote.since
    /\ UNCHANGED <<owner, appSide, turn, statusVars, expiredNote>>

-----------------------------------------------------------------------------
(* The entry. *)

SetUpOwner ==
    /\ owner = "out"
    /\ owner' = "loading"
    /\ UNCHANGED <<appSide, turn, statusVars, noteVars>>

StatusGone ==
    /\ statusPoll' = "idle"
    /\ auth' = "unknown"
    /\ succeeded' = TRUE

\* async_unload_entry clears the health repairs, of which the sign-in is one.
UnloadOwner ==
    /\ owner = "loaded"
    /\ owner' = "out"
    /\ StatusGone
    /\ expiredNote' = FALSE
    /\ UNCHANGED <<appSide, turn, historyNote, dismissed>>

\* async_remove_entry.
RemoveOwner ==
    /\ owner = "out"
    /\ owner' = "removed"
    /\ expiredNote' = FALSE
    /\ historyNote' = NoNote
    /\ UNCHANGED <<appSide, turn, statusVars, dismissed>>

\* Bug: the registry is not told to keep the repair's data.
MutKept(note) == [note EXCEPT !.since = 0]

\* A persistent repair comes back whole.
Kept(note) == note

\* Home Assistant restarts: nothing is unloaded, turns and polls are gone.
Reboot ==
    /\ owner # "removed"
    /\ owner' = "out"
    /\ turn' = "idle"
    /\ StatusGone
    /\ historyNote' = Kept(historyNote)
    /\ UNCHANGED <<appSide, expiredNote, dismissed>>

StatusStep == AskStatus \/ StatusAnswered \/ StatusPolled

NoticeNext ==
    \/ AppMoves
    \/ Ask \/ TurnAnswered \/ TurnEnds \/ StatusStep
    \/ UsagePolled \/ Dismiss
    \/ SetUpOwner \/ UnloadOwner \/ RemoveOwner \/ Reboot

NoticeSpec == NoticeInit /\ [][NoticeNext]_noticeVars

\* A loaded entry's coordinators poll, and a turn that was answered ends.
NoticeFairness ==
    /\ WF_noticeVars(StatusStep)
    /\ WF_noticeVars(TurnEnds)
    /\ WF_noticeVars(UsagePolled)

-----------------------------------------------------------------------------
(* Properties. *)

\* The repairs settle where they belong, whichever of a turn and a poll saw
\* what, in whatever order their answers came: the sign-in's is raised while it
\* stays expired and gone while it stays good, what a turn raised survives the
\* polls of an app that says nothing of it (HealthReport.signin_expired), and
\* the last reset of the history is told.
NoticesSettle ==
    /\ <>[](owner = "loaded" /\ says = "auth" /\ signin = "expired") => <>[]expiredNote
    /\ <>[](owner = "loaded" /\ says = "auth" /\ signin = "ok") => <>[]~expiredNote
    /\ <>[](owner = "loaded" /\ says = "less" /\ signin = "expired")
         /\ []<>(turn = "expired") => <>[]expiredNote
    /\ <>[](owner = "loaded" /\ says # "nothing") => <>[](historyNote.since = resets)

\* A reset that the user dismissed is not told again, whatever is polled,
\* reloaded or restarted; only a later one is (_async_note_history_reset).
ToldOnce == historyNote # NoNote /\ ~historyNote.hidden => historyNote.since > dismissed
=============================================================================
