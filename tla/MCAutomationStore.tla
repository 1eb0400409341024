------------------------- MODULE MCAutomationStore -------------------------
(* AutomationStore on small sets of requests and automations. *)
EXTENDS AutomationStore, TLC

\* Requests differ in nothing but their identity.
WriterSymmetry == Permutations(Writer)
=============================================================================
