---------------------------- MODULE ProposalLife ----------------------------
(***************************************************************************)
(* What every way of confirming a proposal promises, in the chat           *)
(* (conversation.py), by a notification (confirm.py) and on the card       *)
(* (claude-chat-card.js): a proposal waits for one answer; only one that   *)
(* was approved runs, and not twice; one that was rejected, replaced,      *)
(* dropped or lost is gone.  A benign one may be run without being asked   *)
(* about, and is asked about if it did not run.                            *)
(***************************************************************************)
CONSTANT Proposal

VARIABLE stage  \* proposal -> what has become of it

Stages == {"new", "open", "unasked", "approved", "ran", "gone"}

\* What may become of a proposal next: one that ran or is gone stays so.
After == [new |-> {"open", "unasked", "gone"},
          open |-> {"approved", "gone"},
          unasked |-> {"ran", "open", "gone"},
          approved |-> {"ran", "gone"},
          ran |-> {},
          gone |-> {}]

Init == stage = [p \in Proposal |-> "new"]

\* One step may drop several proposals (a restart) or put one in place of
\* another, but approves one at most.
Moves(was, is) ==
    LET changed == {p \in Proposal : is[p] # was[p]}
    IN  /\ was \in [Proposal -> Stages] /\ is \in [Proposal -> Stages]
        /\ \A p \in changed : is[p] \in After[was[p]]
        /\ \A p, q \in changed : is[p] = "approved" /\ is[q] = "approved" => p = q

\* The quantifiers name the two values, so that TLC computes each of them once.
Next == \E was \in {stage}, is \in {stage'} : Moves(was, is)

Spec == Init /\ [][Next]_stage
=============================================================================
