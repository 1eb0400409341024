---------------------------- MODULE NotifyConfirm ----------------------------
(***************************************************************************)
(* Confirmation by a notification (custom_components/claude_ha/confirm.py):*)
(* a proposal is stored and offered on the phones; the first tap takes it  *)
(* out of the store and, if it approves in time, sends the write.          *)
(*                                                                         *)
(* A notification stays on a phone: it can be tapped again, on another     *)
(* phone, after it expired and after a restart.  The proposal of a call is *)
(* identified by that call.                                                *)
(***************************************************************************)
EXTENDS AppClient

CONSTANTS
    NoHold,  \* no proposal is stored
    NoTap,   \* the notification was not tapped yet
    TTL,     \* PENDING_TTL, in clock ticks
    MaxTime  \* bound on the clock

Holds == [entry : Entry, caller : User \cup {NoUser}, expires : Nat]
Taps == [approve : BOOLEAN, by : User \cup {NoUser}, at : Nat]

ASSUME NotifyConstants ==
    /\ TTL \in Nat /\ MaxTime \in Nat
    /\ NoHold \notin Holds
    /\ NoTap \notin Taps

VARIABLES
    pending,    \* hass.data[DATA_PENDING]: call -> PendingProposal
    offeredAt,  \* call -> when its proposal was stored
    tapped,     \* call -> the first tap on its notification
    now         \* dt_util.utcnow()

notifyVars == <<pending, offeredAt, tapped, now>>

NotifyTypeOK ==
    /\ pending \in [Call -> Holds \cup {NoHold}]
    /\ offeredAt \in [Call -> 0..MaxTime]
    /\ tapped \in [Call -> Taps \cup {NoTap}]
    /\ now \in 0..MaxTime

NotifyInit ==
    /\ pending = [c \in Call |-> NoHold]
    /\ offeredAt = [c \in Call |-> 0]
    /\ tapped = [c \in Call |-> NoTap]
    /\ now = 0

\* An automation calls claude_ha.ask; web answers cannot be confirmed.
CallAction(c) ==
    /\ call[c] = Free
    /\ \E mode \in {"read", "web"}, notify \in BOOLEAN,
          named \in Entry \cup {NoEntry}, u \in User \cup {NoUser} :
         /\ ~(mode = "web" /\ notify)
         /\ Set(c, [Free EXCEPT !.at = "asked", !.from = "action", !.mode = mode,
                                !.notify = notify, !.named = named, !.caller = u])
    /\ UNCHANGED <<entries, app, foreign, web, polled, ran, notifyVars>>

\* Bug: the store is left without the keys it prunes.
MutPruned == [c \in {d \in Call : pending[d] = NoHold \/ pending[d].expires >= now}
                |-> pending[c]]

\* _prune: what has expired is dropped.
Pruned == [c \in Call |-> IF pending[c] # NoHold /\ pending[c].expires < now
                          THEN NoHold ELSE pending[c]]

\* async_send_proposal_notification, up to the call of the notify service.
Offer(c) ==
    /\ pending' = [Pruned EXCEPT ![c] = [entry |-> call[c].entry,
                                         caller |-> call[c].caller,
                                         expires |-> now + TTL]]
    /\ offeredAt' = [offeredAt EXCEPT ![c] = now]
    /\ UNCHANGED <<tapped, now>>

\* The notify service returns; if it fails instead, so does the call (Fail),
\* but the proposal stays stored and some phone may show it.
Notified(c) ==
    /\ call[c].at = "notify"
    /\ At(c, "answered")
    /\ UNCHANGED <<entries, app, foreign, web, polled, ran, notifyVars>>

\* Bug: the proposal is deleted once its write has been answered.
MutPopped(p, approve) == IF approve THEN pending ELSE [pending EXCEPT ![p] = NoHold]

\* pending.pop: before anything is awaited, whatever was tapped.
Popped(p, approve) == [pending EXCEPT ![p] = NoHold]

\* Bug: only _prune looks at the expiry.
MutApproved(p, approve) ==
    approve /\ pending[p] # NoHold /\ entries[pending[p].entry] = "loaded"

\* The tap starts a write: it approves what is stored, in time, for an entry
\* that is loaded.  Any other tap uses the proposal up.
Approved(p, approve) ==
    /\ approve
    /\ pending[p] # NoHold
    /\ pending[p].expires >= now
    /\ entries[pending[p].entry] = "loaded"

\* The write of p, on behalf of the user who tapped or else of the caller.
WriteOf(p, u) ==
    [Free EXCEPT !.from = "approval", !.mode = "write", !.writes = p,
                 !.entry = pending[p].entry,
                 !.caller = IF u # NoUser THEN u ELSE pending[p].caller]

\* _async_handle_action, up to the await of the write.
Tap(p, u, approve) ==
    /\ call[p].proposal /\ call[p].notify
    /\ pending' = Popped(p, approve)
    /\ tapped' = IF tapped[p] # NoTap THEN tapped
                 ELSE [tapped EXCEPT ![p] = [approve |-> approve, by |-> u, at |-> now]]
    /\ IF ~Approved(p, approve) THEN UNCHANGED call
       ELSE \E w \in Call :
              /\ call[w] = Free
              /\ \/ Set(w, [WriteOf(p, u) EXCEPT !.at = "failed"])
                 \/ /\ ~Refused(pending[p].entry, "write")
                    /\ Set(w, SentBy(pending[p].entry, WriteOf(p, u)))
    /\ UNCHANGED <<entries, app, foreign, web, polled, ran, offeredAt, now>>

Tick ==
    /\ now < MaxTime
    /\ now' = now + 1
    /\ UNCHANGED <<clientVars, pending, offeredAt, tapped>>

-----------------------------------------------------------------------------
(* Properties. *)

\* A notification's write is what its first tap approved, before it expired,
\* on the entry that proposed it and in the name of the user who tapped, or of
\* the one who asked: a dismissal on one phone is final on the others, and a
\* notification that outlives its proposal does nothing (_async_handle_action).
OnlyAsApproved ==
    \A w \in Call : call[w].from = "approval" =>
        LET p == call[w].writes
        IN  /\ tapped[p] # NoTap
            /\ tapped[p].approve
            /\ tapped[p].at <= offeredAt[p] + TTL
            /\ call[w].entry = call[p].entry
            /\ call[w].caller = IF tapped[p].by # NoUser THEN tapped[p].by
                                ELSE call[p].caller
=============================================================================
