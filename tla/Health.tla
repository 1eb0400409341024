-------------------------------- MODULE Health --------------------------------
(***************************************************************************)
(* The health repairs (custom_components/claude_ha/health.py) as functions *)
(* of the app's last status and of how often it said the same.             *)
(*                                                                         *)
(* A status is "fine", "flap" (the app cannot reach Home Assistant's MCP   *)
(* server, which is loaded) or "bad": any other of the problems, all of    *)
(* which are raised at once.                                               *)
(***************************************************************************)
EXTENDS Naturals

CONSTANT Threshold   \* MCP_UNREACHABLE_DEBOUNCE_POLLS

ASSUME HealthConstants == Threshold \in Nat \ {0}

Statuses == {"fine", "flap", "bad"}

\* The repairs of _ISSUES; one problem at a time is the active one.
HealthIssues == {"mcp_unreachable", "other_problem"}

\* evaluate.
Problem(status) ==
    CASE status = "fine" -> {}
      [] status = "flap" -> {"mcp_unreachable"}
      [] status = "bad" -> {"other_problem"}

\* Bug: the count has no cap.
MutStreak(status, streak) == IF status = "flap" THEN streak + 1 ELSE 0

\* debounce_mcp_unreachable: the new count of flappy polls in a row ...
Streak(status, streak) ==
    IF status = "flap" /\ streak < Threshold THEN streak + 1
    ELSE IF status = "flap" THEN Threshold
    ELSE 0

\* ... and the problem that is left of the report.
Confirmed(status, newStreak) ==
    IF status = "flap" /\ newStreak < Threshold THEN {} ELSE Problem(status)

\* Bug: the repairs of the other problems are left.
MutApply(issues, status, newStreak) == issues \cup Confirmed(status, newStreak)

\* async_apply: the active repair is raised and the others are cleared.
Apply(issues, status, newStreak) ==
    (issues \ HealthIssues) \cup Confirmed(status, newStreak)
=============================================================================
