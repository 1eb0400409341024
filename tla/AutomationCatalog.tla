------------------------- MODULE AutomationCatalog -------------------------
(***************************************************************************)
(* What automation_commit.py promises of automations.yaml when it is the   *)
(* only one to write it: requests change the catalogue one at a time, each *)
(* changes the automation it names and no other, and what it changed stays *)
(* or is taken back entirely before the next request begins.               *)
(***************************************************************************)
CONSTANTS Id, Content, Gone

VARIABLES
    items,   \* the catalogue: id -> content, or Gone
    before,  \* the catalogue before the request being carried out
    target   \* that request's id, or Gone between requests

vars == <<items, before, target>>

Init ==
    /\ items \in [Id -> Content \cup {Gone}]
    /\ before = items
    /\ target = Gone

Change(id, content) ==
    /\ target = Gone
    /\ target' = id
    /\ before' = items
    /\ items' = [items EXCEPT ![id] = content]

Keep ==
    /\ target # Gone
    /\ target' = Gone
    /\ before' = items
    /\ UNCHANGED items

TakeBack ==
    /\ target # Gone
    /\ target' = Gone
    /\ items' = before
    /\ UNCHANGED before

Next ==
    \/ \E id \in Id, content \in Content \cup {Gone} : Change(id, content)
    \/ Keep
    \/ TakeBack

Spec == Init /\ [][Next]_vars
=============================================================================
