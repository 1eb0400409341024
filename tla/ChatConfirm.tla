---------------------------- MODULE ChatConfirm ----------------------------
(***************************************************************************)
(* The chat agent's confirmation protocol                                  *)
(* (custom_components/claude_ha/conversation.py).                          *)
(*                                                                         *)
(* A turn runs on Home Assistant's event loop: it is atomic between two    *)
(* awaits, and any number of turns are suspended at an await at once, in   *)
(* the same conversation too.  pc[t] names the await turn t is at.  The    *)
(* proposal a turn holds for a later "yes" is identified by that turn, so  *)
(* the questions about a proposal (was it run, how often, on whose yes)    *)
(* are questions about the turn that made it.                              *)
(*                                                                         *)
(* The wording of replies, the text of a request and the contents of a     *)
(* proposal are abstracted; what a turn's text asks for is one of Texts.   *)
(***************************************************************************)
EXTENDS Naturals, FiniteSets

CONSTANTS
    Turn,           \* chat turns; each is used for one message
    Conv,           \* conversation ids, which callers may share
    Caller,         \* context.user_id values
    NoUser,         \* the user_id of a turn without an account (None)
    Texts,          \* what the messages sent may ask for
    Entry,          \* config entries, each with its own agent
    NoTurn,         \* "no hold"
    NoHold,         \* a turn that holds nothing
    TTL,            \* CHAT_PENDING_TTL, in clock ticks
    MaxTime,        \* bound on the clock
    InternalMayRun  \* whether the app may answer code "internal" (HTTP 500)
                    \* to a write after having run it

ASSUME ConstantsOK ==
    /\ NoTurn \notin Turn
    /\ NoHold \notin [kind : {"memory", "delete", "update", "create", "write"},
                       expires : Nat]
    /\ Conv # {} /\ Caller # {} /\ Entry # {}
    /\ TTL \in Nat
    /\ MaxTime \in Nat
    /\ InternalMayRun \in BOOLEAN
    /\ Texts \subseteq {"yes", "no", "delete", "modify", "ask"}
    /\ Texts # {}

\* Texts is what a message's words select: _decision, _delete_query and
\* _modify_query, or none of them ("ask").

\* The one payload a PendingProposal carries.
Kinds == {"memory", "delete", "update", "create", "write"}

\* The awaits of _async_handle_message: translations, the model's read, the
\* target automation's config, the model's edit, the permission lookup, the
\* unconfirmed write; and, under the kind's name, the confirmed action.
Waits == {"words", "read", "config", "edit", "may_edit", "auto"} \cup Kinds

\* The awaits during which a proposal has been sent and may run.
Sending == Kinds \cup {"auto"}

Requests == [conv : Conv, caller : Caller, entry : Entry, text : Texts]
Holds == [kind : Kinds, expires : Nat]
NoTime == MaxTime + 1

VARIABLES
    pc,          \* turn -> "idle", the await it is at, or "done"
    req,         \* turn -> its request
    store,       \* hass.data[DATA_PENDING_CHAT]: <<conv, caller>> -> hold
    held,        \* turn -> the PendingProposal it made
    pending,     \* turn -> the hold it took out of the store
    confirmedAt, \* turn -> when it confirmed the hold it took
    ran,         \* turn -> how often the app or Home Assistant ran its proposal
    note,        \* turn -> what became of a memory suggestion it had to drop
    now          \* dt_util.utcnow()

vars == <<pc, req, store, held, pending, confirmedAt, ran, note, now>>

Keys == Conv \X Caller

TypeOK ==
    /\ pc \in [Turn -> {"idle", "done"} \cup Waits]
    /\ req \in [Turn -> Requests]
    /\ store \in [Keys -> Turn \cup {NoTurn}]
    /\ held \in [Turn -> Holds \cup {NoHold}]
    /\ pending \in [Turn -> Turn \cup {NoTurn}]
    /\ confirmedAt \in [Turn -> 0..NoTime]
    /\ ran \in [Turn -> Nat]
    /\ note \in [Turn -> {"none", "said", "unsaid"}]
    /\ now \in 0..MaxTime

-----------------------------------------------------------------------------
(* The pending store. *)

\* Bug: one hold per conversation, whoever speaks.
MutKeyOf(t) == <<req[t].conv, CHOOSE u \in Caller : TRUE>>

KeyOf(t) == <<req[t].conv, req[t].caller>>

\* Bug: the entry of the hold is not looked at.
MutMine(t) == store[KeyOf(t)]

\* The hold this turn may answer: its own caller's, in its conversation, and
\* made on its entry.  A hold of another entry is left where it is.
Mine(t) ==
    LET h == store[KeyOf(t)]
    IN  IF h # NoTurn /\ req[h].entry = req[t].entry THEN h ELSE NoTurn

\* Bug: the hold is deleted after the confirmed action, not before it.
MutTakenLate(t) == store

\* Bug: the key is deleted, and later read without a default.
MutTakenKey(t) == [k \in DOMAIN store \ {KeyOf(t)} |-> store[k]]

\* The store after the turn took the hold it may answer; the hold is taken out
\* before anything is awaited.
Taken(t) == IF Mine(t) = NoTurn THEN store ELSE [store EXCEPT ![KeyOf(t)] = NoTurn]

InTime(h) == held[h].expires >= now

Goto(t, where) == pc' = [pc EXCEPT ![t] = where]

\* The reply is a question: its proposal is held, in place of any older one.
\* Storing and replying are one step, nothing is awaited between them.
Ask(t, kind, holds) ==
    /\ store' = [holds EXCEPT ![KeyOf(t)] = t]
    /\ held' = [held EXCEPT ![t] = [kind |-> kind, expires |-> now + TTL]]
    /\ Goto(t, "done")

\* Any other reply.
Reply(t, holds) ==
    /\ store' = holds
    /\ held' = held
    /\ Goto(t, "done")

\* A memory suggestion beside an action is dropped, and the reply says so.
DropMemory(t, suggested) ==
    note' = IF suggested THEN [note EXCEPT ![t] = "said"] ELSE note

\* A reply built without the note.
DropSilently(t, suggested) ==
    note' = IF suggested THEN [note EXCEPT ![t] = "unsaid"] ELSE note

\* The app or Home Assistant ran the proposal of turn h "times" more times.
Run(h, times) == ran' = [ran EXCEPT ![h] = @ + times]

-----------------------------------------------------------------------------
(* A message arrives; the handler first awaits the language's words. *)

Receive(t) ==
    /\ pc[t] = "idle"
    /\ \E r \in Requests : req' = [req EXCEPT ![t] = r]
    /\ Goto(t, "words")
    /\ UNCHANGED <<store, held, pending, confirmedAt, ran, note, now>>

(* A: the turn answers the hold of its conversation and caller. *)

Confirms(t) == Mine(t) # NoTurn /\ req[t].text = "yes" /\ InTime(Mine(t))
Denies(t) == Mine(t) # NoTurn /\ req[t].text = "no"
Fresh(t) == ~Confirms(t) /\ ~Denies(t)

Confirm(t) ==
    /\ pc[t] = "words"
    /\ Confirms(t)
    /\ store' = Taken(t)
    /\ pending' = [pending EXCEPT ![t] = Mine(t)]
    /\ confirmedAt' = [confirmedAt EXCEPT ![t] = now]
    /\ Goto(t, held[Mine(t)].kind)
    /\ UNCHANGED <<req, held, ran, note, now>>

\* Bug: a "no" leaves the hold to expire by itself.
MutDeny(t) ==
    /\ pc[t] = "words"
    /\ Denies(t)
    /\ Reply(t, store)
    /\ pending' = [pending EXCEPT ![t] = Mine(t)]
    /\ UNCHANGED <<req, confirmedAt, ran, note, now>>

Deny(t) ==
    /\ pc[t] = "words"
    /\ Denies(t)
    /\ Reply(t, Taken(t))
    /\ pending' = [pending EXCEPT ![t] = Mine(t)]
    /\ UNCHANGED <<req, confirmedAt, ran, note, now>>

(* A2: "delete my ... automation" is resolved locally, without an await. *)

AskDelete(t) ==
    /\ pc[t] = "words"
    /\ Fresh(t)
    /\ req[t].text = "delete"
    /\ \/ Reply(t, Taken(t))          \* no match, or more than one
       \/ Ask(t, "delete", Taken(t))
    /\ pending' = [pending EXCEPT ![t] = Mine(t)]
    /\ UNCHANGED <<req, confirmedAt, ran, note, now>>

(* A3: "change my ... automation": one match is read and edited. *)

StartModify(t) ==
    /\ pc[t] = "words"
    /\ Fresh(t)
    /\ req[t].text = "modify"
    /\ \/ Reply(t, Taken(t))
       \/ store' = Taken(t) /\ Goto(t, "config") /\ UNCHANGED held
    /\ pending' = [pending EXCEPT ![t] = Mine(t)]
    /\ UNCHANGED <<req, confirmedAt, ran, note, now>>

(* B: everything else is read by the model; a modify too, on an old app. *)

StartRead(t) ==
    /\ pc[t] = "words"
    /\ Fresh(t)
    /\ req[t].text # "delete"
    /\ store' = Taken(t)
    /\ pending' = [pending EXCEPT ![t] = Mine(t)]
    /\ Goto(t, "read")
    /\ UNCHANGED <<req, held, confirmedAt, ran, note, now>>

ConfigRead(t) ==
    /\ pc[t] = "config"
    /\ \/ Reply(t, store)             \* unreadable, or the automation is gone
       \/ Goto(t, "edit") /\ UNCHANGED <<store, held>>
    /\ UNCHANGED <<req, pending, confirmedAt, ran, note, now>>

\* The model's edit is held for a yes; a memory suggestion beside it is not
\* mentioned in the reply.
Edited(t) ==
    /\ pc[t] = "edit"
    /\ \/ Reply(t, store) /\ UNCHANGED note      \* the read failed
       \/ \E suggested \in BOOLEAN :
            /\ DropSilently(t, suggested)
            /\ Reply(t, store) \/ Ask(t, "update", store)
    /\ UNCHANGED <<req, pending, confirmedAt, ran, now>>

\* The model answered.  A drafted automation comes first, then a proposal, then
\* a memory suggestion on its own; "suggested" is a suggestion with memory on.
ReadAnswered(t) ==
    /\ pc[t] = "read"
    /\ \/ Reply(t, store) /\ UNCHANGED note      \* the read failed, or plain
       \/ \E suggested \in BOOLEAN :
            /\ Ask(t, "create", store) \/ Ask(t, "write", store)
            /\ DropMemory(t, suggested)
       \/ \E suggested \in BOOLEAN :   \* auto-execute, and benign (is_auto_ok)
            /\ Goto(t, "auto")
            /\ note' = IF suggested THEN [note EXCEPT ![t] = "unsaid"] ELSE note
            /\ UNCHANGED <<store, held>>
       \/ /\ req[t].caller # NoUser
          /\ Goto(t, "may_edit")
          /\ UNCHANGED <<store, held, note>>
    /\ UNCHANGED <<req, pending, confirmedAt, ran, now>>

\* The caller's permission is known: what the caller may not forget is left
\* out, and a suggestion with nothing left is a plain answer.
MemoryAsked(t) ==
    /\ pc[t] = "may_edit"
    /\ Reply(t, store) \/ Ask(t, "memory", store)
    /\ UNCHANGED <<req, pending, confirmedAt, ran, note, now>>

-----------------------------------------------------------------------------
(* C/D: the unconfirmed write of a benign proposal. *)

\* The turn's suggestion, seen when the read was answered, is in the reply.
SayDropped(t) ==
    note' = IF note[t] = "unsaid" THEN [note EXCEPT ![t] = "said"] ELSE note

\* Answers after which the proposal must not be asked about again: it ran, or
\* it may have (ClaudeConnectionError: no answer, or too late).
AutoSaid(t) ==
    /\ \/ Run(t, 1) /\ SayDropped(t)              \* done, or named failures
       \/ Run(t, 1) /\ UNCHANGED note             \* action_failed, no actions
       \/ (\E n \in 0..1 : Run(t, n)) /\ SayDropped(t)
    /\ Reply(t, store)

\* E: every other ClaudeError counts as a refusal and is asked about.
AutoRefused(t) ==
    /\ \E n \in 0..1 : (n = 1 => InternalMayRun) /\ Run(t, n)
    /\ SayDropped(t)
    /\ Ask(t, "write", store)

AutoAnswered(t) ==
    /\ pc[t] = "auto"
    /\ AutoSaid(t) \/ AutoRefused(t)
    /\ UNCHANGED <<req, pending, confirmedAt, now>>

(* The confirmed action: it ran, it did not, or nobody knows; whatever the
   outcome, the turn ends with a reply and nothing is held. *)

ConfirmedAnswered(t) ==
    /\ pc[t] \in Kinds
    /\ \E n \in 0..1 : Run(pending[t], n)
    /\ Reply(t, store)
    /\ UNCHANGED <<req, pending, confirmedAt, note, now>>

-----------------------------------------------------------------------------
(* The environment. *)

\* The proposal whose write or commit turn t is waiting for.
InFlight(t) == IF pc[t] = "auto" THEN t ELSE pending[t]

\* The pipeline that awaits a turn is cancelled (the client went away): the
\* turn ends at its await.  What it had sent may run all the same.
Cancel(t) ==
    /\ pc[t] \in Waits
    /\ Reply(t, store)
    /\ IF pc[t] \in Sending THEN \E n \in 0..1 : Run(InFlight(t), n)
                             ELSE UNCHANGED ran
    /\ note' = [note EXCEPT ![t] = "none"]      \* there was no reply at all
    /\ UNCHANGED <<req, pending, confirmedAt, now>>

\* Home Assistant restarts: hass.data is empty, every turn is gone.
Restart ==
    /\ \E t \in Turn : pc[t] # "idle"
    /\ \E sent \in SUBSET {t \in Turn : pc[t] \in Sending} :
         ran' = [h \in Turn |->
                   IF \E t \in sent : InFlight(t) = h THEN ran[h] + 1 ELSE ran[h]]
    /\ pc' = [t \in Turn |-> IF pc[t] = "idle" THEN "idle" ELSE "done"]
    /\ store' = [k \in Keys |-> NoTurn]
    /\ note' = [t \in Turn |-> IF pc[t] = "done" THEN note[t] ELSE "none"]
    /\ UNCHANGED <<req, held, pending, confirmedAt, now>>

Tick ==
    /\ now < MaxTime
    /\ now' = now + 1
    /\ UNCHANGED <<pc, req, store, held, pending, confirmedAt, ran, note>>

-----------------------------------------------------------------------------

Init ==
    /\ pc = [t \in Turn |-> "idle"]
    /\ req = [t \in Turn |-> CHOOSE r \in Requests : TRUE]
    /\ store = [k \in Keys |-> NoTurn]
    /\ held = [t \in Turn |-> NoHold]
    /\ pending = [t \in Turn |-> NoTurn]
    /\ confirmedAt = [t \in Turn |-> NoTime]
    /\ ran = [t \in Turn |-> 0]
    /\ note = [t \in Turn |-> "none"]
    /\ now = 0

\* One step of a received turn that its own handler takes.
Handle(t) ==
    \/ Confirm(t) \/ Deny(t)
    \/ AskDelete(t) \/ StartModify(t) \/ StartRead(t)
    \/ ConfigRead(t) \/ Edited(t)
    \/ ReadAnswered(t) \/ MemoryAsked(t)
    \/ AutoAnswered(t) \/ ConfirmedAnswered(t)

Next ==
    \/ \E t \in Turn : Receive(t) \/ Handle(t) \/ Cancel(t)
    \/ Restart
    \/ Tick

Spec == Init /\ [][Next]_vars

-----------------------------------------------------------------------------
(* Properties. *)

\* No proposal runs twice: not by two turns that both say yes while the first
\* is still waiting for its answer, and not by a yes after an automatic write
\* whose outcome was lost (_async_auto_write, and the del in
\* _async_handle_message before anything is awaited).
AtMostOnce == \A h \in Turn : ran[h] <= 1

\* What was held for a confirmation runs only for a turn that said yes, in
\* time, in the same conversation, of the same caller and through the same
\* entry's agent (the comment at A in _async_handle_message).
OnlyAConfirmedHoldRuns ==
    \A h \in Turn :
        /\ ran[h] > 0
        /\ held[h] # NoHold
        => \E t \in Turn \ {h} :
             /\ pending[t] = h
             /\ req[t].text = "yes"
             /\ req[t].conv = req[h].conv
             /\ req[t].caller = req[h].caller
             /\ req[t].entry = req[h].entry
             /\ confirmedAt[t] <= held[h].expires

\* A caller's hold leaves the store only by that caller's own next turn in the
\* same conversation: in a conversation two users share, one never replaces,
\* discards or answers the other's ("another caller's turn never sees,
\* replaces or discards it"), restarts aside.
IsHeld(h) == \E k \in Keys : store[k] = h
OthersHoldsUntouched ==
    [][\A h \in Turn :
         IsHeld(h) /\ ~IsHeld(h)' =>
             \/ \E t \in Turn \ {h} :
                   /\ pc'[t] # pc[t]
                   /\ req[t].conv = req[h].conv
                   /\ req[t].caller = req[h].caller
             \/ Restart]_vars

\* One question has one answer, and one answer runs its proposal once: a hold
\* that a turn took, with a yes, a no, something else or too late, is never
\* offered again, and a proposal runs if it was confirmed or never asked about.
Takers(h) == {t \in Turn : pending[t] = h}
StageOf(h) ==
    LET asked == IsHeld(h)
        takers == Takers(h)
        sent == pc[h] = "auto" \/ \E t \in takers : pc[t] \in Kinds
    IN  CASE ran[h] = 0 /\ ~asked /\ ~sent -> IF pc[h] = "done" THEN "gone" ELSE "new"
          [] ran[h] = 1 /\ ~asked /\ ~sent -> "ran"
          [] ran[h] = 0 /\ asked /\ ~sent /\ takers = {} -> "open"
          [] ran[h] = 0 /\ ~asked /\ sent /\ takers = {} -> "unasked"
          [] ran[h] = 0 /\ ~asked /\ sent /\ pc[h] = "done"
             /\ \E t \in takers : takers = {t} -> "approved"
          [] OTHER -> "broken"
Life == INSTANCE ProposalLife WITH Proposal <- Turn, stage <- [h \in Turn |-> StageOf(h)]
ImplementsLife == Life!Spec

\* A memory suggestion that an action's reply drops is mentioned in that reply
\* ("the suggestion is dropped - said, not silent", _dropped_memory_note).
DroppedMemoryIsSaid == \A t \in Turn : pc[t] = "done" => note[t] # "unsaid"

=============================================================================
