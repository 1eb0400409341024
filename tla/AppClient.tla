------------------------------ MODULE AppClient ------------------------------
(***************************************************************************)
(* The client of the companion app (custom_components/claude_ha/api.py) as *)
(* its callers see it: what a status teaches it, what it refuses to send,  *)
(* and the calls that are under way.  Who makes a call, and what becomes   *)
(* of its answer, is NotifyConfirm and ChatCard.                           *)
(*                                                                         *)
(* One client per loaded entry; a call is a prompt, from the action or the *)
(* confirmation that makes it to its answer.                               *)
(***************************************************************************)
EXTENDS Naturals, FiniteSets

CONSTANTS
    Call,     \* calls, each made once
    NoCall,   \* "no call"
    Entry,    \* config entries
    NoEntry,  \* no entry was named
    User,     \* users with an account
    NoUser    \* the user_id of a call without one

ASSUME ClientConstants ==
    /\ NoCall \notin Call
    /\ NoEntry \notin Entry
    /\ NoUser \notin User

\* What answers at an entry's address: its engine's app, an older one of it
\* that does not list the web field, or another engine's.
Apps == {"ours", "older", "other"}

VARIABLES
    entries,  \* entry -> "new", "loaded", "unloaded" or "removed"
    app,      \* entry -> what answers at its address
    foreign,  \* entry -> _foreign_engine is not None
    web,      \* entry -> "web" is among _request_fields
    polled,   \* entry -> the status it heard last is of the present app
    call,     \* call -> what it is and where it has got to
    ran       \* the writes an app has run

clientVars == <<entries, app, foreign, web, polled, call, ran>>

\* A call waits for the action to be handled, for the app, or for notify; then
\* it was answered or failed.
Stages == {"free", "asked", "app", "notify", "answered", "failed"}

Calls == [at : Stages, from : {"card", "action", "approval"},
          mode : {"read", "write", "web"}, notify : BOOLEAN,
          named : Entry \cup {NoEntry}, entry : Entry \cup {NoEntry},
          caller : User \cup {NoUser}, writes : Call \cup {NoCall},
          generation : Nat, proposal : BOOLEAN]

Free == [at |-> "free", from |-> "action", mode |-> "read", notify |-> FALSE,
         named |-> NoEntry, entry |-> NoEntry, caller |-> NoUser,
         writes |-> NoCall, generation |-> 0, proposal |-> FALSE]

ClientTypeOK ==
    /\ entries \in [Entry -> {"new", "loaded", "unloaded", "removed"}]
    /\ app \in [Entry -> Apps]
    /\ foreign \in [Entry -> BOOLEAN]
    /\ web \in [Entry -> BOOLEAN]
    /\ polled \in [Entry -> BOOLEAN]
    /\ call \in [Call -> Calls]
    /\ ran \subseteq Call

ClientInit ==
    /\ entries \in [Entry -> {"new", "loaded"}]
    /\ \E e \in Entry : entries[e] = "loaded"
    /\ app = [e \in Entry |-> "ours"]
    /\ foreign = [e \in Entry |-> FALSE]
    /\ web = [e \in Entry |-> TRUE]
    /\ polled = [e \in Entry |-> TRUE]
    /\ call = [c \in Call |-> Free]
    /\ ran = {}

-----------------------------------------------------------------------------
(* The entries and their clients. *)

\* async_get_status and note_status: another engine's status teaches nothing
\* but that, whatever the client knew of its own app it still knows.
Learn(e, said) ==
    /\ foreign' = [foreign EXCEPT ![e] = said = "other"]
    /\ web' = [web EXCEPT ![e] = IF said = "other" THEN @ ELSE said = "ours"]
    /\ polled' = [polled EXCEPT ![e] = said = app[e]]

\* A status is used some time after the app answered it: it may be of one that
\* has been replaced since.
Poll(e) ==
    /\ entries[e] = "loaded"
    /\ \E said \in Apps : Learn(e, said)
    /\ UNCHANGED <<entries, app, call, ran>>

\* The entry is set up, by a new client; its first status must be its own.
Load(e) ==
    /\ entries[e] \in {"new", "unloaded"}
    /\ entries' = [entries EXCEPT ![e] = "loaded"]
    /\ \E said \in Apps \ {"other"} : Learn(e, said)
    /\ UNCHANGED <<app, call, ran>>

Unload(e) ==
    /\ entries[e] = "loaded"
    /\ entries' = [entries EXCEPT ![e] = "unloaded"]
    /\ UNCHANGED <<app, foreign, web, polled, call, ran>>

Remove(e) ==
    /\ entries[e] \in {"loaded", "unloaded"}
    /\ entries' = [entries EXCEPT ![e] = "removed"]
    /\ UNCHANGED <<app, foreign, web, polled, call, ran>>

\* The app at the address is replaced, updated or rolled back.
Swap(e) ==
    /\ \E a \in Apps \ {app[e]} : app' = [app EXCEPT ![e] = a]
    /\ polled' = [polled EXCEPT ![e] = FALSE]
    /\ UNCHANGED <<entries, foreign, web, call, ran>>

-----------------------------------------------------------------------------
(* A call. *)

Set(c, r) == call' = [call EXCEPT ![c] = r]

At(c, stage) == Set(c, [call[c] EXCEPT !.at = stage])

\* Bug: only the status coordinator looks at the identity.
MutRefused(e, mode) == mode = "web" /\ ~web[e]

\* _ensure_identity, and supports_web for a web answer.
Refused(e, mode) == foreign[e] \/ (mode = "web" /\ ~web[e])

\* The call is sent by the client of entry e.
SentBy(e, r) == [r EXCEPT !.at = "app", !.entry = e]

\* _async_get_entry: the entry a call names, or the only one there is.
Live == {e \in Entry : entries[e] \in {"loaded", "unloaded"}}
Resolved(named) ==
    IF named # NoEntry THEN Live \cap {named}
    ELSE IF Cardinality(Live) = 1 THEN Live ELSE {}

\* _async_handle_ask and _async_ask_web: the action is handled and the prompt
\* is sent.  What the action refuses, and a prompt that is too large, is Fail.
HandleAsk(c) ==
    /\ call[c].at = "asked"
    /\ \E e \in Resolved(call[c].named) :
         /\ entries[e] = "loaded"
         /\ ~Refused(e, call[c].mode)
         /\ Set(c, SentBy(e, call[c]))
    /\ UNCHANGED <<entries, app, foreign, web, polled, ran>>

InFlight(c) == call[c].at \in {"asked", "app", "notify"}

\* The app ran the write, or it may have when its answer was lost.
Ran(c) == ran' = IF call[c].mode = "write" THEN ran \cup {c} ELSE ran
MayHaveRun(c) == UNCHANGED ran \/ (call[c].at = "app" /\ Ran(c))
=============================================================================
