------------------------------- MODULE Asking -------------------------------
(***************************************************************************)
(* Asking and confirming outside the chat agent: the chat card and         *)
(* automations call claude_ha.ask (services.py), a proposal is confirmed   *)
(* on the card or by a notification, and every prompt goes through the     *)
(* client of an entry that is loaded, unloaded, removed or added meanwhile *)
(* and whose app may become another engine's.                              *)
(***************************************************************************)
EXTENDS NotifyConfirm, ChatCard

vars == <<clientVars, notifyVars, cardVars>>

TypeOK == ClientTypeOK /\ NotifyTypeOK /\ CardTypeOK

Init == ClientInit /\ NotifyInit /\ CardInit

\* The app answers: a read, but not a web answer, may carry a proposal, which
\* is offered on the phones if the action named a notify service.
Answer(c) ==
    /\ call[c].at = "app"
    /\ \E proposal \in BOOLEAN :
         /\ proposal => call[c].mode = "read"
         /\ LET offer == proposal /\ call[c].notify
            IN  /\ Set(c, [call[c] EXCEPT !.proposal = proposal,
                             !.at = IF offer THEN "notify" ELSE "answered"])
                /\ IF offer THEN Offer(c) ELSE UNCHANGED notifyVars
    /\ Ran(c)
    /\ CardReply(c, TRUE)
    /\ UNCHANGED <<entries, app, foreign, web, polled>>

\* The call fails: refused by the action, the client or the app, or lost.
Fail(c) ==
    /\ InFlight(c)
    /\ At(c, "failed")
    /\ MayHaveRun(c)
    /\ CardReply(c, FALSE)
    /\ UNCHANGED <<entries, app, foreign, web, polled, notifyVars>>

\* Home Assistant restarts: the store is empty, every call fails; the card and
\* the phones keep what they show.
Restart ==
    /\ \E written \in SUBSET {c \in Call : call[c].at = "app" /\ call[c].mode = "write"} :
         ran' = ran \cup written
    /\ call' = [c \in Call |-> IF InFlight(c) THEN [call[c] EXCEPT !.at = "failed"]
                               ELSE call[c]]
    /\ entries' = [e \in Entry |-> IF entries[e] = "loaded" THEN "unloaded" ELSE entries[e]]
    /\ pending' = [c \in Call |-> NoHold]
    /\ busy' = (busy /\ ~\E c \in Call : InFlight(c) /\ call[c].from = "card" /\ Wanted(c))
    /\ UNCHANGED <<app, foreign, web, polled, offeredAt, tapped, now, target,
                   generation, messages, applied, dismissed>>

Card == \/ \E c \in Call : Send(c) \/ \E m \in Call : Apply(c, m)
        \/ \E m \in Call : Dismiss(m)
        \/ SetConfig

Notifications ==
    \/ \E c \in Call : CallAction(c) \/ Notified(c)
    \/ \E p \in Call, u \in User \cup {NoUser}, approve \in BOOLEAN : Tap(p, u, approve)
    \/ Tick

Clients ==
    \/ \E c \in Call : HandleAsk(c)
    \/ \E e \in Entry : Poll(e) \/ Load(e) \/ Unload(e) \/ Remove(e) \/ Swap(e)

Next ==
    \/ Card /\ UNCHANGED notifyVars
    \/ Notifications /\ UNCHANGED cardVars
    \/ Clients /\ UNCHANGED <<notifyVars, cardVars>>
    \/ \E c \in Call : Answer(c) \/ Fail(c)
    \/ Restart

Spec == Init /\ [][Next]_vars

-----------------------------------------------------------------------------
(* Properties. *)

\* A proposal on the card or on the phones has one answer, and is written at
\* most once, however often and wherever it is approved: not by two phones, by
\* two presses of Apply, or by a press after the first write failed
\* (_async_handle_action, _apply).
Open(p) ==
    \/ pending[p] # NoHold
    \/ /\ call[p].from = "card" /\ call[p].proposal /\ call[p].generation = generation
       /\ p \notin applied \cup dismissed
WritesOf(p) == {w \in Call : call[w].writes = p}
StageOf(p) ==
    LET open == Open(p)
        writes == WritesOf(p)
    IN  CASE open /\ writes = {} -> "open"
          [] ~open /\ writes = {} /\ call[p].proposal -> "gone"
          [] ~open /\ writes = {} /\ ~call[p].proposal -> "new"
          [] ~open /\ \E w \in writes : writes = {w} /\ InFlight(w) /\ w \notin ran -> "approved"
          [] ~open /\ \E w \in writes : writes = {w} /\ ~InFlight(w) /\ w \in ran -> "ran"
          [] ~open /\ \E w \in writes : writes = {w} /\ ~InFlight(w) /\ w \notin ran -> "gone"
          [] OTHER -> "broken"
Life == INSTANCE ProposalLife WITH Proposal <- Call, stage <- [p \in Call |-> StageOf(p)]
ImplementsLife == Life!Spec

Applies(w, p) == call[w].writes = p /\ call[w].entry # NoEntry

\* A write goes to the entry whose agent proposed it, even if the card has been
\* pointed elsewhere; unless the card names no entry at all.
AppliedWhereNamed ==
    \A w, p \in Call :
        Applies(w, p) /\ (call[p].from = "card" => call[p].named # NoEntry) =>
            call[w].entry = call[p].entry

\* "Every answer remembers the entry it came from, and an Apply goes back to
\* that entry" (claude-chat-card.js), whether the card names an entry or not.
AppliedWhereProposed ==
    \A w, p \in Call : Applies(w, p) => call[w].entry = call[p].entry

\* An app is sent what it should not be (anything, if it is another engine's;
\* a web question, if it does not list the field) only if it changed since the
\* app answered the status that was heard last: one status stops it until one
\* says otherwise (_ensure_identity, async_prompt_web).
StatusIsHeeded ==
    [][\A c \in Call :
         call'[c].at = "app" /\ call[c].at # "app" =>
             LET e == call'[c].entry
             IN  polled[e] => /\ app[e] # "other"
                              /\ call'[c].mode = "web" => app[e] = "ours"]_vars
=============================================================================
