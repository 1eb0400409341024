------------------------------ MODULE MCAsking ------------------------------
(* Asking on small sets of calls and entries. *)
EXTENDS Asking, TLC

\* Calls differ in nothing but their identity, entries too.
AskingSymmetry == Permutations(Call) \cup Permutations(Entry)

Made == {c \in Call : call[c] # Free}
FromCard == {c \in Made : call[c].from = "card"}
FromAction == {c \in Made : call[c].from = "action"}
CardIsIdle == target = NoEntry /\ generation = 0 /\ FromCard = {}
OnlyTheCard == now = 0 /\ Made \ FromCard = {}

\* Card and notifications share only the entries and the pool of calls.  So
\* each is run alone beside changes of its entries, both together beside two
\* entries that stay, and changing apps beside two calls of one entry.
AppsStay == \A e \in Entry : app[e] = "ours" /\ polled[e]
Known == {e \in Entry : entries[e] # "new"}
Confirmed == \A c \in FromAction : call[c].notify /\ call[c].named # NoEntry

NotificationsAlone ==
    /\ AppsStay /\ CardIsIdle /\ Confirmed
    /\ Cardinality(Known) = 1 /\ Cardinality(FromAction) <= 2
CardAlone == AppsStay /\ OnlyTheCard
Together ==
    /\ AppsStay /\ Confirmed
    /\ \A e \in Entry : entries[e] = "loaded"
    /\ now = 0 /\ generation <= 1 /\ Cardinality(FromAction) <= 1
AppsChange ==
    /\ CardIsIdle /\ now = 0
    /\ Cardinality(Known) = 1 /\ Cardinality(Made) <= 2
    /\ \A e \in Entry \ Known : app[e] = "ours" /\ polled[e]
    /\ \A c \in FromAction :
          /\ call[c].named # NoEntry /\ call[c].caller = NoUser
          /\ call[c].mode = "read" => call[c].notify

Scope == NotificationsAlone \/ CardAlone \/ Together \/ AppsChange
=============================================================================
