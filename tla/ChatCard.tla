------------------------------ MODULE ChatCard ------------------------------
(***************************************************************************)
(* The chat card (custom_components/claude_ha/www/claude-chat-card.js): it *)
(* calls claude_ha.ask, shows the answers of its current target entry, and *)
(* applies or dismisses what they propose.                                 *)
(*                                                                         *)
(* JavaScript runs a handler up to its await; a reply comes at any time,   *)
(* after the card was pointed at another entry, or back, too.  A message   *)
(* with an answer is identified by the call it answers.                    *)
(***************************************************************************)
EXTENDS AppClient

CONSTANTS MaxGeneration  \* bound on changes of the target

ASSUME CardConstants == MaxGeneration \in Nat

VARIABLES
    target,      \* _config.config_entry, or NoEntry
    generation,  \* _generation
    busy,        \* _busy: typing and sending are disabled
    messages,    \* the answers in _messages
    applied,     \* those marked applied
    dismissed    \* those marked dismissed

cardVars == <<target, generation, busy, messages, applied, dismissed>>

CardTypeOK ==
    /\ target \in Entry \cup {NoEntry}
    /\ generation \in 0..MaxGeneration
    /\ busy \in BOOLEAN
    /\ messages \subseteq Call
    /\ applied \subseteq Call
    /\ dismissed \subseteq Call

CardInit ==
    /\ target \in Entry \cup {NoEntry}
    /\ generation = 0
    /\ busy = FALSE
    /\ messages = {} /\ applied = {} /\ dismissed = {}

\* Bug: the answer under way still says when the card is free again.
MutFreed == busy

\* A new conversation starts with nothing under way.
Freed == FALSE

\* setConfig: another target starts another conversation.
SetConfig ==
    /\ generation < MaxGeneration
    /\ \E t \in Entry \cup {NoEntry} : t # target /\ target' = t
    /\ generation' = generation + 1
    /\ messages' = {}
    /\ busy' = Freed
    /\ UNCHANGED <<clientVars, applied, dismissed>>

\* _ask: the call is made, in this conversation.
CardAsks(c, r) ==
    /\ call[c] = Free
    /\ \E u \in User : Set(c, [r EXCEPT !.at = "asked", !.from = "card",
                                        !.caller = u, !.generation = generation])
    /\ busy' = TRUE
    /\ UNCHANGED <<entries, app, foreign, web, polled, ran>>

\* _send: what was typed goes to the target.
Send(c) ==
    /\ ~busy
    /\ CardAsks(c, [Free EXCEPT !.named = target])
    /\ UNCHANGED <<target, generation, messages, applied, dismissed>>

\* Marked before anything is awaited.
Marked(m) == applied \cup {m}

\* Bug: the write goes to the entry the card is pointed at when its answer came.
MutNamedBy(m) == NoEntry

\* The entry the message remembers.
NamedBy(m) == call[m].named

\* _apply, with the card busy or not.
Apply(c, m) ==
    /\ call[m].from = "card" /\ call[m].proposal
    /\ m \notin applied \cup dismissed
    /\ call[m].generation = generation
    /\ applied' = Marked(m)
    /\ CardAsks(c, [Free EXCEPT !.mode = "write", !.named = NamedBy(m), !.writes = m])
    /\ UNCHANGED <<target, generation, messages, dismissed>>

\* _dismiss: the button is there until one of the two was pressed.
Dismiss(m) ==
    /\ m \in messages /\ call[m].proposal
    /\ m \notin applied \cup dismissed
    /\ dismissed' = dismissed \cup {m}
    /\ UNCHANGED <<clientVars, target, generation, busy, messages, applied>>

\* Bug: an answer is wanted if the card still names its entry.
MutWanted(c) == call[c].named = target

\* The answer belongs to the conversation on the card.
Wanted(c) == call[c].generation = generation

\* The end of _ask: the answer is shown (an error too, which offers nothing)
\* and the card is free, or the answer is dropped.
CardReply(c, ok) ==
    IF call[c].from = "card" /\ Wanted(c)
    THEN /\ busy' = FALSE
         /\ messages' = IF ok THEN messages \cup {c} ELSE messages
         /\ UNCHANGED <<target, generation, applied, dismissed>>
    ELSE UNCHANGED cardVars

-----------------------------------------------------------------------------
(* Properties. *)

\* Every answer the card shows was asked of the entry it is pointed at, since
\* it was last pointed there ("the old history and any answer still on its way
\* belong to the previous entry and are dropped").
ShowsItsConversation ==
    \A m \in messages : call[m].named = target /\ call[m].generation = generation

\* The card is locked only while an answer of its conversation is on its way,
\* whatever overlaps, fails or is dropped: never for good (_ask, setConfig).
BusyHasReason ==
    busy => \E c \in Call : InFlight(c) /\ call[c].from = "card"
                            /\ call[c].generation = generation
=============================================================================
