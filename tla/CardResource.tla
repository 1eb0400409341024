----------------------------- MODULE CardResource -----------------------------
(***************************************************************************)
(* The Lovelace resource of the chat card                                  *)
(* (custom_components/claude_ha/frontend.py) in storage mode: every set-up *)
(* of an entry brings it to exactly one, at this version, and the removal  *)
(* of the last entry takes it away (__init__.py).                          *)
(*                                                                         *)
(* Both read the resources and then write what they read, one await at a   *)
(* time, under one lock; the user writes the same resources without it.    *)
(* Lovelace's collection is external, and so is Home Assistant's list of   *)
(* entries, from which an entry goes after its removal was handled.        *)
(***************************************************************************)
EXTENDS Naturals, FiniteSets, FiniteSetsExt

CONSTANTS
    Home,         \* config entries
    NoHome,       \* the resource lock is free
    MaxCards,     \* bound on card resources ever made
    MaxAttempts   \* _RECONCILE_ATTEMPTS

ASSUME CardConstants == /\ NoHome \notin Home
                        /\ MaxCards \in Nat
                        /\ MaxAttempts \in Nat \ {0}

VARIABLES
    cards,       \* resource id -> the URL of the card it has, if it is there
    lastCard,    \* the id last given: later items come later in the list
    listed,      \* the entries Home Assistant lists
    ready,       \* those whose set-up had its card ensured, since the start
    cardPc,      \* entry -> the await of its set-up or removal
    snapshot,    \* entry -> the ids it still has to write, from one read
    attempt,     \* entry -> reconciliations begun
    cardLock,    \* _RESOURCE_LOCK
    touched,     \* what the user did that no read, or write, of ours has dealt with
    overlapped   \* two entries were removed at once

cardVars == <<cards, lastCard, listed, ready, cardPc, snapshot, attempt, cardLock,
              touched, overlapped>>

CardId == 1..MaxCards
CardAwaits == {"idle", "lock", "read", "create", "update", "dedupe",
               "rmlock", "rmread", "rmdelete", "hooked"}
Removing == {"rmlock", "rmread", "rmdelete", "hooked"}

CardTypeOK ==
    /\ cards \in [CardId -> {"none", "old", "new"}]
    /\ lastCard \in 0..MaxCards
    /\ listed \subseteq Home
    /\ ready \subseteq listed
    /\ cardPc \in [Home -> CardAwaits]
    /\ snapshot \in [Home -> SUBSET CardId]
    /\ attempt \in [Home -> 0..MaxAttempts]
    /\ cardLock \in Home \cup {NoHome}
    /\ touched \subseteq {"added", "deleted"}
    /\ overlapped \in BOOLEAN

\* Up to two resources are there, of another version, or put in by hand.
CardInit ==
    /\ lastCard \in 0..(IF MaxCards < 2 THEN MaxCards ELSE 2)
    /\ cards \in [CardId -> {"none", "old"}]
    /\ \A i \in CardId : cards[i] = "old" <=> i <= lastCard
    /\ listed = {} /\ ready = {}
    /\ cardPc = [e \in Home |-> "idle"]
    /\ snapshot = [e \in Home |-> {}]
    /\ attempt = [e \in Home |-> 0]
    /\ cardLock = NoHome
    /\ touched = {"added"}
    /\ overlapped = FALSE

GoCard(e, where) == cardPc' = [cardPc EXCEPT ![e] = where]

\* async_items, narrowed to the card's (_is_card).
Ours == {i \in CardId : cards[i] # "none"}

\* Bug: an entry's reading and writing may overlap another's.
MutCardFree == TRUE

CardFree == cardLock = NoHome

-----------------------------------------------------------------------------
(* async_ensure_card_resource, in a set-up. *)

\* An entry is added, or a set-up is tried again, or the entry is reloaded.
SetUpHome(e) ==
    /\ cardPc[e] = "idle"
    /\ listed' = listed \cup {e}
    /\ ready' = ready \ {e}
    /\ GoCard(e, "lock")
    /\ UNCHANGED <<cards, lastCard, snapshot, attempt, cardLock, touched, overlapped>>

\* It has the lock, and waits for the collection to be loaded.
EnsureCard(e) ==
    /\ cardPc[e] = "lock" /\ CardFree
    /\ cardLock' = e
    /\ attempt' = [attempt EXCEPT ![e] = 1]
    /\ GoCard(e, "read")
    /\ UNCHANGED <<cards, lastCard, listed, ready, snapshot, touched, overlapped>>

\* The lock is let go; the set-up goes on, or has failed.
Release(e, where) ==
    /\ cardLock' = NoHome
    /\ attempt' = [attempt EXCEPT ![e] = 0]
    /\ snapshot' = [snapshot EXCEPT ![e] = {}]
    /\ GoCard(e, where)

EnsureDone(e) == Release(e, "idle") /\ ready' = ready \cup {e}

\* All but the first.
Duplicates(found) == found \ {Min(found)}

\* _async_reconcile reads the resources, and awaits the first of its writes.
Reconcile(e) ==
    /\ cardPc[e] = "read"
    /\ CASE Ours = {} ->
              /\ GoCard(e, "create")
              /\ UNCHANGED <<ready, snapshot, attempt, cardLock>>
         [] Ours # {} /\ cards[Min(Ours)] = "old" ->
              /\ snapshot' = [snapshot EXCEPT ![e] = Ours]
              /\ GoCard(e, "update")
              /\ UNCHANGED <<ready, attempt, cardLock>>
         [] Ours # {} /\ cards[Min(Ours)] = "new" /\ Duplicates(Ours) # {} ->
              /\ snapshot' = [snapshot EXCEPT ![e] = Duplicates(Ours)]
              /\ GoCard(e, "dedupe")
              /\ UNCHANGED <<ready, attempt, cardLock>>
         [] OTHER -> EnsureDone(e)
    /\ touched' = {}
    /\ UNCHANGED <<cards, lastCard, listed, overlapped>>

CreateCard(e) ==
    /\ cardPc[e] = "create" /\ lastCard < MaxCards
    /\ lastCard' = lastCard + 1
    /\ cards' = [cards EXCEPT ![lastCard + 1] = "new"]
    /\ touched' = touched \ {"deleted"}
    /\ EnsureDone(e)
    /\ UNCHANGED <<listed, overlapped>>

\* The first is brought to this version. If the user deleted it since the
\* read, the resources are read again; the last attempt fails the set-up.
UpdateCard(e) ==
    LET first == Min(snapshot[e])
        duplicates == Duplicates(snapshot[e])
    IN  /\ cardPc[e] = "update"
        /\ \/ /\ cards[first] # "none"
              /\ cards' = [cards EXCEPT ![first] = "new"]
              /\ touched' = touched \ {"deleted"}
              /\ IF duplicates = {} THEN EnsureDone(e)
                 ELSE /\ snapshot' = [snapshot EXCEPT ![e] = duplicates]
                      /\ GoCard(e, "dedupe")
                      /\ UNCHANGED <<ready, attempt, cardLock>>
           \/ /\ cards[first] = "none" /\ attempt[e] < MaxAttempts
              /\ attempt' = [attempt EXCEPT ![e] = @ + 1]
              /\ snapshot' = [snapshot EXCEPT ![e] = {}]
              /\ GoCard(e, "read")
              /\ UNCHANGED <<cards, touched, ready, cardLock>>
           \/ /\ cards[first] = "none" /\ attempt[e] = MaxAttempts
              /\ Release(e, "idle")
              /\ touched' = {"added", "deleted"}
              /\ UNCHANGED <<cards, ready>>
        /\ UNCHANGED <<lastCard, listed, overlapped>>

\* _async_delete takes the next one; one that is gone needs nothing.
DeleteNext(e) ==
    /\ cards' = [cards EXCEPT ![Min(snapshot[e])] = "none"]
    /\ IF Cardinality(snapshot[e]) > 1
       THEN /\ snapshot' = [snapshot EXCEPT ![e] = @ \ {Min(@)}]
            /\ UNCHANGED <<ready, cardPc, attempt, cardLock>>
       ELSE IF cardPc[e] = "dedupe" THEN EnsureDone(e)
            ELSE Release(e, "hooked") /\ UNCHANGED ready

Dedupe(e) ==
    /\ cardPc[e] = "dedupe"
    /\ DeleteNext(e)
    /\ UNCHANGED <<lastCard, listed, touched, overlapped>>

-----------------------------------------------------------------------------
(* async_remove_card_resource, in a removal (async_remove_entry). *)

RemoveHome(e) ==
    /\ cardPc[e] = "idle" /\ e \in listed
    /\ GoCard(e, "rmlock")
    /\ ready' = ready \ {e}
    /\ overlapped' = (overlapped \/ \E o \in Home : cardPc[o] \in Removing)
    /\ UNCHANGED <<cards, lastCard, listed, snapshot, attempt, cardLock, touched>>

\* Bug: the entry that goes counts as one that stays.
MutRemaining(e) == listed

Remaining(e) == listed \ {e}

\* With other entries the card stays; else the collection is loaded.
RemoveCard(e) ==
    /\ cardPc[e] = "rmlock" /\ CardFree
    /\ IF Remaining(e) # {} THEN GoCard(e, "hooked") /\ UNCHANGED cardLock
       ELSE GoCard(e, "rmread") /\ cardLock' = e
    /\ UNCHANGED <<cards, lastCard, listed, ready, snapshot, attempt, touched, overlapped>>

RemoveAll(e) ==
    /\ \/ /\ cardPc[e] = "rmread"
          /\ touched' = {}
          /\ IF Ours = {} THEN Release(e, "hooked")
             ELSE /\ snapshot' = [snapshot EXCEPT ![e] = Ours]
                  /\ GoCard(e, "rmdelete")
                  /\ UNCHANGED <<attempt, cardLock>>
          /\ UNCHANGED <<cards, ready>>
       \/ /\ cardPc[e] = "rmdelete"
          /\ DeleteNext(e)
          /\ UNCHANGED touched
    /\ UNCHANGED <<lastCard, listed, overlapped>>

\* Home Assistant takes the entry off its list.
Unlist(e) ==
    /\ cardPc[e] = "hooked"
    /\ GoCard(e, "idle")
    /\ listed' = listed \ {e}
    /\ UNCHANGED <<cards, lastCard, ready, snapshot, attempt, cardLock, touched, overlapped>>

-----------------------------------------------------------------------------
(* The user, and a new version. *)

UserCard ==
    /\ \/ /\ lastCard < MaxCards
          /\ lastCard' = lastCard + 1
          /\ cards' = [cards EXCEPT ![lastCard + 1] = "old"]
          /\ touched' = touched \cup {"added"}
       \/ /\ \E i \in Ours : cards' = [cards EXCEPT ![i] = "none"]
          /\ touched' = touched \cup {"deleted"}
          /\ UNCHANGED lastCard
    /\ UNCHANGED <<listed, ready, cardPc, snapshot, attempt, cardLock, overlapped>>

\* Home Assistant restarts with a new version of the integration: what was
\* under way is gone, and every URL is of another version.
Upgrade ==
    /\ cards' = [i \in CardId |-> IF cards[i] = "new" THEN "old" ELSE cards[i]]
    /\ ready' = {}
    /\ cardPc' = [e \in Home |-> "idle"]
    /\ snapshot' = [e \in Home |-> {}]
    /\ attempt' = [e \in Home |-> 0]
    /\ cardLock' = NoHome
    /\ UNCHANGED <<lastCard, listed, touched, overlapped>>

CardNext ==
    \/ \E e \in Home :
         \/ SetUpHome(e) \/ EnsureCard(e) \/ Reconcile(e) \/ CreateCard(e)
         \/ UpdateCard(e) \/ Dedupe(e)
         \/ RemoveHome(e) \/ RemoveCard(e) \/ RemoveAll(e) \/ Unlist(e)
    \/ UserCard \/ Upgrade

CardSpec == CardInit /\ [][CardNext]_cardVars

-----------------------------------------------------------------------------
(* Properties. *)

\* While an entry is set up and nothing is under way, there is one resource, at
\* this version: none at all only if the user deleted it after it was written,
\* more only if the user added some after they were read, unless a later set-up
\* has failed over what the user did (async_ensure_card_resource) ...
OneWhileSetUp ==
    ready # {} /\ cardLock = NoHome =>
        /\ "deleted" \notin touched => \E i \in Ours : cards[i] = "new"
        /\ "added" \notin touched => Cardinality(Ours) <= 1

\* ... and when the last entry has gone no resource is left but what the user
\* added since (async_remove_card_resource). Two entries removed at once each
\* take the other for one that stays, and leave it.
OneCard ==
    /\ OneWhileSetUp
    /\ listed = {} /\ ~overlapped /\ "added" \notin touched => Ours = {}
=============================================================================
