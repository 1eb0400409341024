--------------------------- MODULE MCChatConfirm ---------------------------
(* ChatConfirm on small sets of turns, conversations and callers. *)
EXTENDS ChatConfirm, TLC

\* Turns differ in nothing but their identity.
TurnSymmetry == Permutations(Turn)

\* Three turns that ask for all there is and differ in who asks, and where, are
\* too many: either one user asks one entry for anything, or anybody asks
\* anywhere for a deletion, which is asked about at once, or says yes.
Scope ==
    LET received == {t \in Turn : pc[t] # "idle"}
        one == CHOOSE r \in Requests : r.caller # NoUser
    IN  \/ \A t \in received : req[t].caller = one.caller /\ req[t].entry = one.entry
        \/ \A t \in received : req[t].text \in {"yes", "delete"}
=============================================================================
