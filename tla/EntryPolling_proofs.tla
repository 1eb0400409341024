-------------------------- MODULE EntryPolling_proofs --------------------------
(***************************************************************************)
(* Proofs about EntryPolling, for any number of pollers, any grace time    *)
(* and any debounce.                                                       *)
(***************************************************************************)
EXTENDS EntryPolling, TLAPS

\* What names a state or a place is no time.
USE WatchConstants, HealthConstants

-----------------------------------------------------------------------------
(* The watch. *)

\* The part of the state that the watch's timing depends on.
timeVars == <<downFor, reported, quietFor>>

Forgotten ==
    /\ downFor' = NoTime
    /\ reported' = FALSE
    /\ UNCHANGED quietFor

\* No step does anything to the watch's times but what its methods and the
\* clock do.
LEMMA WatchSteps ==
    ASSUME [Next]_vars
    PROVE  UNCHANGED timeVars \/ Down \/ Reachable \/ TickWatch \/ Forgotten
<1>1. ASSUME SetUpStep
      PROVE  UNCHANGED timeVars \/ Down
  BY <1>1 DEF SetUpStep, CheckApp, SupervisorAnswers, AppChecked, watchVars,
              timeVars
<1>2. ASSUME NEW p \in Poller, PollStep(p)
      PROVE  UNCHANGED timeVars \/ Down \/ Reachable
  BY <1>2 DEF PollStep, Poll, AppAnswers, SupervisorAnswers, Answered, Refused,
              Unanswered, watchVars, timeVars
<1>3. CASE \/ Installed \/ AppChanges \/ SupervisorChanges
           \/ Reload \/ Disable \/ Enable
  BY <1>3 DEF Installed, AppChanges, SupervisorChanges, Reload, Disable, Enable, Unload,
              watchVars, timeVars
<1>4. CASE Remove
  BY <1>4 DEF Remove, Forgotten
<1>5. CASE Tick
  BY <1>5 DEF Tick
<1>6. CASE UNCHANGED vars
  BY <1>6 DEF vars, watchVars, timeVars
<1> QED BY <1>1, <1>2, <1>3, <1>4, <1>5, <1>6 DEF Next

TimesOK ==
    /\ downFor \in 0..Grace \cup {NoTime}
    /\ reported \in BOOLEAN
    /\ quietFor \in 0..Grace

\* A window never began before the last poll that was answered.
WindowAfterData == downFor # NoTime => downFor <= quietFor

\* What is reported is over the grace time.
ReportedIsOld == reported = FALSE \/ downFor = Grace

WatchInv == TimesOK /\ WindowAfterData /\ ReportedIsOld

\* Every step keeps the watch's invariant.
LEMMA WatchStep ==
    ASSUME WatchInv, [Next]_vars
    PROVE  WatchInv'
<1>1. CASE UNCHANGED timeVars
  BY <1>1 DEF WatchInv, TimesOK, WindowAfterData, ReportedIsOld, timeVars
<1>2. CASE Down
  BY <1>2 DEF Down, WatchInv, TimesOK, WindowAfterData, ReportedIsOld
<1>3. CASE Reachable
  <2>1. quietFor' \in 0..Grace
    BY <1>3 DEF Reachable
  <2> QED
    BY <1>3, <2>1 DEF Reachable, WatchInv, TimesOK, WindowAfterData, ReportedIsOld
<1>4. CASE TickWatch
  <2>1. quietFor \in 0..Grace /\ quietFor # NoTime
    BY DEF WatchInv, TimesOK
  <2>2. quietFor' \in 0..Grace
    BY <1>4, <2>1 DEF TickWatch, Older
  <2>3. CASE downFor = NoTime
    <3>1. downFor' = NoTime /\ reported' = FALSE
      BY <1>4, <2>3 DEF TickWatch, Older, WatchInv, ReportedIsOld
    <3> QED BY <2>2, <3>1 DEF WatchInv, TimesOK, WindowAfterData, ReportedIsOld
  <2>4. CASE downFor # NoTime
    <3>1. downFor \in 0..Grace /\ downFor <= quietFor
      BY <2>4 DEF WatchInv, TimesOK, WindowAfterData
    <3>2. downFor' \in 0..Grace /\ downFor' <= quietFor'
      BY <1>4, <2>1, <3>1 DEF TickWatch, Older
    <3>3. reported = FALSE \/ downFor' = Grace
      BY <1>4, <2>4 DEF TickWatch, Older, WatchInv, ReportedIsOld
    <3> QED
      BY <1>4, <2>2, <3>2, <3>3
      DEF TickWatch, WatchInv, TimesOK, WindowAfterData, ReportedIsOld
  <2> QED BY <2>3, <2>4
<1>5. CASE Forgotten
  BY <1>5 DEF Forgotten, WatchInv, TimesOK, WindowAfterData, ReportedIsOld
<1> QED BY <1>1, <1>2, <1>3, <1>4, <1>5, WatchSteps

\* A new watch satisfies it.
LEMMA InitWatch == Init => WatchInv
<1>1. ASSUME Init PROVE quietFor \in 0..Grace
  BY <1>1 DEF Init, WatchInit
<1> QED
  BY <1>1 DEF Init, WatchInit, WatchInv, TimesOK, WindowAfterData, ReportedIsOld

\* The watch's invariant holds in every reachable state.
LEMMA WatchAlways == Spec => []WatchInv
BY InitWatch, WatchStep, PTL DEF Spec

\* An outage is reported only when no poll was answered with data for the whole
\* grace time, however the answers of the app and of the Supervisor to any
\* number of pollers are delayed and ordered.
THEOREM NoAlarmWithinGrace == Spec => NoFalseAlarm
<1>1. ASSUME WatchInv, [Next]_vars, ~reported, reported'
      PROVE  quietFor = Grace
  <2>1. Down
    BY <1>1, WatchSteps DEF timeVars, Reachable, TickWatch, Forgotten
  <2>2. downFor = Grace
    BY <1>1, <2>1 DEF Down
  <2> QED BY <1>1, <2>2 DEF WatchInv, TimesOK, WindowAfterData
<1>2. WatchInv /\ [Next]_vars => [~reported /\ reported' => quietFor = Grace]_vars
  BY <1>1
<1> QED BY <1>2, WatchAlways, PTL DEF Spec, NoFalseAlarm

-----------------------------------------------------------------------------
(* Types. *)

\* The debounce counts up to its threshold and the repairs stay repairs; only
\* the health repairs are touched.
LEMMA HealthShape ==
    ASSUME NEW data \in Statuses, NEW n \in 0..Threshold,
           NEW repairs \in SUBSET Issues
    PROVE  /\ Streak(data, n) \in 0..Threshold
           /\ \A m : /\ Apply(repairs, data, m) \in SUBSET Issues
                     /\ Apply(repairs, data, m) \ HealthIssues = repairs \ HealthIssues
<1>1. Streak(data, n) \in 0..Threshold
  BY DEF Streak
<1>2. \A m : Confirmed(data, m) \subseteq HealthIssues
  BY DEF Confirmed, Problem, HealthIssues, Statuses
<1>3. HealthIssues \subseteq Issues
  BY DEF HealthIssues, Issues
<1> QED BY <1>1, <1>2, <1>3 DEF Apply

\* What the watch makes of the repairs are repairs.
LEMMA WatchIssuesShape ==
    ASSUME NEW repairs \in SUBSET Issues
    PROVE  /\ ReachableIssues(repairs) \in SUBSET Issues
           /\ ReachableIssues(repairs) \subseteq repairs
           /\ \A state : /\ DownIssues(state, repairs) \in SUBSET Issues
                         /\ DownIssues(state, repairs) \subseteq
                              repairs \cup {"addon_not_running"}
BY DEF ReachableIssues, DownIssues, Issues

\* A caller that goes from one await to another stays a caller.
LEMMA WaitShape ==
    ASSUME TypeOK, NEW c \in Caller, NEW where \in Places, NEW answer \in Results,
           Wait(c, where, answer)
    PROVE  /\ at' \in [Caller -> Places]
           /\ result' \in [Caller -> Results]
           /\ at'[c] = where
           /\ \A d \in Caller \ {c} : at'[d] = at[d]
BY DEF Wait, TypeOK

\* The end of a refresh, whatever it brought.
LEMMA FinishShape ==
    ASSUME TypeOK, NEW p \in Poller, NEW success \in BOOLEAN, NEW data \in Statuses,
           NEW repairs \in SUBSET Issues, Finish(p, success, data, repairs)
    PROVE  /\ phase' \in {"out", "refresh", "loaded"}
           /\ phase \in {"refresh", "loaded"}
           /\ first' \subseteq Poller
           /\ at' \in [Caller -> Places]
           /\ result' \in [Caller -> Results]
           /\ at'[SetUp] = at[SetUp]
           /\ status' \in Statuses
           /\ polled' \in BOOLEAN
           /\ streak' \in 0..Threshold
           /\ issues' \in SUBSET Issues
           /\ issues' \ HealthIssues = repairs \ HealthIssues
           /\ phase' # "loaded" => issues' = repairs /\ phase # "loaded"
<1>1. Wait(p, "idle", "none") /\ status' = data
      /\ polled' = IF p = Status THEN success ELSE polled
  BY DEF Finish
<1>2. p \in Caller /\ SetUp \in Caller /\ SetUp # p
      /\ "idle" \in Places /\ "none" \in Results
  BY PollerConstants DEF Caller, Places, Results
<1>3. /\ at' \in [Caller -> Places]
      /\ result' \in [Caller -> Results]
      /\ at'[SetUp] = at[SetUp]
  BY <1>1, <1>2, WaitShape
<1>4. status' \in Statuses /\ polled' \in BOOLEAN
  BY <1>1 DEF TypeOK
<1>5. /\ streak \in 0..Threshold
      /\ first \subseteq Poller
  BY DEF TypeOK
<1>6. Listener(data, repairs) =>
        /\ streak' \in 0..Threshold
        /\ issues' \in SUBSET Issues
        /\ issues' \ HealthIssues = repairs \ HealthIssues
  BY <1>5, HealthShape DEF Listener
<1>7. CASE phase = "refresh" /\ phase' = "out" /\ issues' = repairs
           /\ UNCHANGED <<first, streak>>
  BY <1>3, <1>4, <1>5, <1>7
<1>8. CASE /\ phase = "refresh"
           /\ first' = first \cup {p}
           /\ IF first' = Poller
              THEN phase' = "loaded" /\ Listener(data, repairs)
              ELSE phase' = phase /\ issues' = repairs /\ UNCHANGED streak
  BY <1>3, <1>4, <1>5, <1>6, <1>8
<1>9. CASE phase = "loaded" /\ Listener(data, repairs) /\ UNCHANGED entryVars
  BY <1>3, <1>4, <1>5, <1>6, <1>9 DEF entryVars
<1>10. CASE phase = "loaded" /\ issues' = repairs /\ UNCHANGED <<entryVars, streak>>
  BY <1>3, <1>4, <1>5, <1>10 DEF entryVars
<1> QED BY <1>7, <1>8, <1>9, <1>10 DEF Finish

\* The end of a poll: what it made of the repairs before health looks at them.
LEMMA PollEnds ==
    ASSUME TypeOK, NEW p \in Poller, Answered(p) \/ Refused(p) \/ Unanswered(p)
    PROVE  \E success \in BOOLEAN, data \in Statuses, repairs \in SUBSET Issues :
             /\ Finish(p, success, data, repairs)
             /\ repairs \subseteq issues \cup {"engine_mismatch", "addon_not_running"}
             /\ UNCHANGED envVars
             /\ \/ /\ Reachable
                   /\ repairs \subseteq ReachableIssues(issues)
                \/ /\ UNCHANGED timeVars
                   /\ repairs \subseteq issues \cup {"engine_mismatch"}
                \/ /\ Down
                   /\ repairs = DownIssues(result[p], issues)
<1>1. issues \in SUBSET Issues /\ status \in Statuses
  BY DEF TypeOK, WatchTypeOK
<1>2. CASE Answered(p)
  <2> DEFINE data == IF p = Status THEN result[p] ELSE status
             seen == IF p = Status THEN issues \ {"engine_mismatch"} ELSE issues
             repairs == ReachableIssues(seen)
  <2>1. data \in Statuses /\ seen \in SUBSET Issues /\ seen \subseteq issues
    BY <1>1, <1>2 DEF Answered
  <2>2. repairs \in SUBSET Issues /\ repairs \subseteq ReachableIssues(issues)
        /\ repairs \subseteq issues
    BY <1>1, <2>1 DEF ReachableIssues
  <2>3. Finish(p, TRUE, data, repairs) /\ Reachable /\ UNCHANGED envVars
    BY <1>2 DEF Answered
  <2> HIDE DEF data, repairs
  <2> QED BY <2>1, <2>2, <2>3
<1>3. CASE Refused(p)
  <2> DEFINE repairs == IF result[p] = "mismatch" THEN issues \cup {"engine_mismatch"}
                                                  ELSE issues
  <2>1. repairs \in SUBSET Issues /\ repairs \subseteq issues \cup {"engine_mismatch"}
    BY <1>1 DEF Issues
  <2>2. Finish(p, FALSE, status, repairs) /\ UNCHANGED timeVars /\ UNCHANGED envVars
    BY <1>3 DEF Refused, timeVars
  <2> HIDE DEF repairs
  <2> QED BY <1>1, <2>1, <2>2
<1>4. CASE Unanswered(p)
  <2>1. CASE /\ Down
             /\ Finish(p, FALSE, status, DownIssues(result[p], issues))
    BY <1>1, <1>4, <2>1, WatchIssuesShape DEF Unanswered
  <2>2. CASE /\ UNCHANGED <<downFor, reported, quietFor>>
             /\ Finish(p, FALSE, status, issues)
    BY <1>1, <1>4, <2>2 DEF Unanswered, timeVars
  <2> QED BY <1>4, <2>1, <2>2 DEF Unanswered
<1> QED BY <1>2, <1>3, <1>4

\* Every step keeps the types.
LEMMA TypeStep ==
    ASSUME TypeOK, WatchInv, [Next]_vars
    PROVE  TypeOK'
<1>1. TimesOK'
  BY WatchStep DEF WatchInv
<1>2. ASSUME issues' \in SUBSET Issues
      PROVE  WatchTypeOK'
  BY <1>1, <1>2 DEF TimesOK, WatchTypeOK
<1>3. ASSUME NEW c \in Caller, SupervisorAnswers(c)
      PROVE  TypeOK'
  <2>1. Wait(c, "told", IF supervisor THEN app ELSE "unreadable")
        /\ "told" \in Places
        /\ (IF supervisor THEN app ELSE "unreadable") \in Results
    BY <1>3 DEF SupervisorAnswers, Places, Results, TypeOK
  <2>2. at' \in [Caller -> Places] /\ result' \in [Caller -> Results]
    BY <2>1, WaitShape
  <2> QED
    BY <1>2, <1>3, <2>2 DEF SupervisorAnswers, TypeOK, WatchTypeOK, watchVars,
                            entryVars, healthVars, envVars
<1>4. CASE CheckApp
  <2>1. at' \in [Caller -> Places] /\ result' \in [Caller -> Results]
    BY <1>4, WaitShape DEF CheckApp, Caller, Places, Results
  <2> QED BY <1>4, <2>1 DEF CheckApp, TypeOK, WatchTypeOK, watchVars, entryVars,
                            healthVars, envVars
<1>5. CASE AppChecked
  <2>1. at' \in [Caller -> Places] /\ result' \in [Caller -> Results]
    BY <1>5, WaitShape DEF AppChecked, Caller, Places, Results
  <2>2. issues' \in SUBSET Issues
    <3>1. issues \in SUBSET Issues /\ "addon_not_installed" \in Issues
      BY DEF TypeOK, WatchTypeOK, Issues
    <3>2. \/ issues' = issues
          \/ issues' = issues \cup {"addon_not_installed"}
          \/ issues' = DownIssues(result[SetUp], issues)
          \/ issues' = issues \ AddonIssues
      BY <1>5 DEF AppChecked, watchVars
    <3> QED BY <3>1, <3>2, WatchIssuesShape
  <2>3. /\ phase' \in {"out", "refresh", "loaded", "disabled", "removed"}
        /\ first' \subseteq Poller
        /\ status' \in Statuses
        /\ polled' \in BOOLEAN
        /\ app' \in AppStates
    BY <1>5 DEF AppChecked, TypeOK, entryVars, healthVars, Statuses, AppStates
  <2>4. streak' \in 0..Threshold
    BY <1>5 DEF AppChecked, TypeOK, healthVars
  <2>5. api' \in Api /\ supervisor' \in BOOLEAN
    BY <1>5 DEF AppChecked, TypeOK
  <2> QED BY <1>2, <2>1, <2>2, <2>3, <2>4, <2>5 DEF TypeOK
<1>6. ASSUME NEW p \in Poller, Poll(p)
      PROVE  TypeOK'
  <2>1. at' \in [Caller -> Places] /\ result' \in [Caller -> Results]
    BY <1>6, WaitShape DEF Poll, Caller, Places, Results
  <2> QED BY <1>6, <2>1 DEF Poll, TypeOK, WatchTypeOK, watchVars, entryVars,
                            healthVars, envVars
<1>7. ASSUME NEW p \in Poller, AppAnswers(p)
      PROVE  TypeOK'
  <2>1. /\ p \in Caller
        /\ {"supervisor", "answered"} \subseteq Places
        /\ {"none", "fine", "error"} \subseteq Results
        /\ api # "silent" => api \in Results
    BY DEF Caller, Places, Results, PollResults, Statuses, TypeOK, Api
  <2>2. at' \in [Caller -> Places] /\ result' \in [Caller -> Results]
    BY <1>7, <2>1, WaitShape DEF AppAnswers
  <2> QED BY <1>7, <2>2 DEF AppAnswers, TypeOK, WatchTypeOK, watchVars, entryVars,
                            healthVars, envVars
<1>8. ASSUME NEW p \in Poller, Answered(p) \/ Refused(p) \/ Unanswered(p)
      PROVE  TypeOK'
  <2>1. PICK success \in BOOLEAN, data \in Statuses, repairs \in SUBSET Issues :
          Finish(p, success, data, repairs) /\ UNCHANGED envVars
    BY <1>8, PollEnds
  <2> QED BY <1>2, <2>1, FinishShape DEF TypeOK, envVars
<1>9. CASE Installed \/ AppChanges \/ SupervisorChanges
  <2>1. app' \in AppStates /\ api' \in Api /\ supervisor' \in BOOLEAN
    BY <1>9 DEF Installed, AppChanges, SupervisorChanges, TypeOK, AppStates
  <2>2. UNCHANGED <<watchVars, entryVars, callVars, healthVars>>
    BY <1>9 DEF Installed, AppChanges, SupervisorChanges
  <2> QED BY <2>1, <2>2 DEF TypeOK, WatchTypeOK, watchVars, entryVars, callVars, healthVars
<1>10. CASE Unload /\ phase' \in {"out", "disabled"}
  <2>1. at' \in [Caller -> Places] /\ result' \in [Caller -> Results]
    BY <1>10 DEF Unload, Places, Results
  <2> QED BY <1>2, <1>10, <2>1 DEF Unload, TypeOK, WatchTypeOK, healthVars, envVars
<1>11. CASE /\ phase' \in {"out", "disabled"}
            /\ UNCHANGED <<watchVars, first, callVars, healthVars, envVars>>
  BY <1>2, <1>11 DEF TypeOK, WatchTypeOK, watchVars, callVars, healthVars, envVars
<1>12. CASE Reload \/ Disable \/ Enable
  BY <1>10, <1>11, <1>12 DEF Reload, Disable, Enable
<1>13. CASE Remove
  BY <1>2, <1>13 DEF Remove, TypeOK, callVars, healthVars, envVars
<1>14. CASE Tick
  BY <1>2, <1>14 DEF Tick, TickWatch, TypeOK, WatchTypeOK, entryVars, callVars,
                     healthVars, envVars
<1>15. CASE UNCHANGED vars
  BY <1>15 DEF vars, TypeOK, WatchTypeOK, watchVars, entryVars, callVars,
               healthVars, envVars
<1> QED
  BY <1>3, <1>4, <1>5, <1>6, <1>7, <1>8, <1>9, <1>12, <1>13, <1>14, <1>15
  DEF Next, SetUpStep, PollStep, Caller

\* The state the integration starts with is well typed.
LEMMA InitTypes == Init => TypeOK
<1> SUFFICES ASSUME Init PROVE TypeOK
  OBVIOUS
<1>1. WatchTypeOK
  BY InitWatch DEF WatchInv, TimesOK, WatchTypeOK, Init, WatchInit
<1>2. at \in [Caller -> Places] /\ result \in [Caller -> Results]
  BY DEF Init, Places, Results
<1>3. streak \in 0..Threshold
  BY DEF Init
<1> QED BY <1>1, <1>2, <1>3 DEF Init, TypeOK, Statuses

\* The entry, its pollers, its watch and its repairs keep their types in every
\* reachable state.
THEOREM TypeCorrect == Spec => []TypeOK
<1>1. TypeOK /\ WatchInv /\ [Next]_vars => (TypeOK /\ WatchInv)'
  BY TypeStep, WatchStep
<1> QED BY <1>1, InitTypes, InitWatch, PTL DEF Spec

-----------------------------------------------------------------------------
(* The repairs. *)

\* The set-up looks at the app only while the entry is out.
CheckedOut == at[SetUp] # "idle" => phase = "out"

\* A set-up that goes on has cleared the request for an installation.
NoInstallRepair ==
    phase \in {"refresh", "loaded"} => "addon_not_installed" \notin issues

\* The offer to start the app is there only in an outage that was reported.
OfferReported == "addon_not_running" \in issues => reported # FALSE

\* Health repairs are those of a loaded entry.
HealthLoaded == phase # "loaded" => issues \cap HealthIssues = {}

RepairInv == CheckedOut /\ NoInstallRepair /\ OfferReported /\ HealthLoaded

\* Only a health repair is one of health's.
LEMMA RepairNames ==
    /\ {"addon_not_running", "addon_not_installed", "engine_mismatch"}
         \cap HealthIssues = {}
    /\ AddonIssues \cap HealthIssues = {}
BY DEF HealthIssues, AddonIssues

\* A failure that raises the offer reports the outage, and what was reported
\* stays so.
LEMMA DownOffers ==
    ASSUME TypeOK, OfferReported, Down, NEW state
    PROVE  "addon_not_running" \in DownIssues(state, issues) => reported' # FALSE
<1>1. reported \in BOOLEAN
  BY DEF TypeOK, WatchTypeOK
<1>2. (reported # FALSE \/ downFor = Grace) => reported' # FALSE
  BY <1>1, Zenon DEF Down
<1>3. "addon_not_running" \in DownIssues(state, issues)
        => "addon_not_running" \in issues \/ downFor = Grace
  BY DEF DownIssues
<1> QED BY <1>2, <1>3 DEF OfferReported

\* After an answer there is no offer.
LEMMA ReachableOffers ==
    ASSUME TypeOK, OfferReported
    PROVE  "addon_not_running" \notin ReachableIssues(issues)
<1>1. CASE reported = FALSE
  BY <1>1 DEF ReachableIssues, OfferReported
<1>2. CASE reported = TRUE
  BY <1>2 DEF ReachableIssues, AddonIssues
<1> QED BY <1>1, <1>2 DEF TypeOK, WatchTypeOK

\* The end of a poll keeps the invariant of the repairs.
LEMMA PollEndKeeps ==
    ASSUME TypeOK, WatchInv, RepairInv, NEW p \in Poller,
           Answered(p) \/ Refused(p) \/ Unanswered(p)
    PROVE  RepairInv'
<1>1. PICK success \in BOOLEAN, data \in Statuses, repairs \in SUBSET Issues :
        /\ Finish(p, success, data, repairs)
        /\ repairs \subseteq issues \cup {"engine_mismatch", "addon_not_running"}
        /\ \/ /\ Reachable
              /\ repairs \subseteq ReachableIssues(issues)
           \/ /\ UNCHANGED timeVars
              /\ repairs \subseteq issues \cup {"engine_mismatch"}
           \/ /\ Down
              /\ repairs = DownIssues(result[p], issues)
  BY PollEnds
<1>2. /\ phase \in {"refresh", "loaded"}
      /\ at'[SetUp] = at[SetUp]
      /\ issues' \ HealthIssues = repairs \ HealthIssues
      /\ phase' # "loaded" => issues' = repairs /\ phase # "loaded"
  BY <1>1, FinishShape
<1>3. \A x \in {"addon_not_running", "addon_not_installed"} :
        x \in issues' => x \in repairs
  BY <1>2, RepairNames
<1>4. CheckedOut'
  BY <1>2 DEF RepairInv, CheckedOut
<1>5. NoInstallRepair'
  BY <1>1, <1>2, <1>3 DEF RepairInv, NoInstallRepair
<1>6. HealthLoaded'
  BY <1>1, <1>2, RepairNames DEF RepairInv, HealthLoaded
<1>7. OfferReported'
  <2>1. CASE Reachable /\ repairs \subseteq ReachableIssues(issues)
    BY <1>3, <2>1, ReachableOffers DEF RepairInv, OfferReported
  <2>2. CASE UNCHANGED timeVars /\ repairs \subseteq issues \cup {"engine_mismatch"}
    BY <1>3, <2>2 DEF RepairInv, OfferReported, timeVars
  <2>3. CASE Down /\ repairs = DownIssues(result[p], issues)
    BY <1>3, <2>3, DownOffers DEF RepairInv, OfferReported
  <2> QED BY <1>1, <2>1, <2>2, <2>3
<1> QED BY <1>4, <1>5, <1>6, <1>7 DEF RepairInv

\* Every step keeps the invariant of the repairs.
LEMMA RepairStep ==
    ASSUME TypeOK, WatchInv, RepairInv, [Next]_vars
    PROVE  RepairInv'
<1>1. ASSUME NEW c \in Caller, NEW where \in Places, NEW answer \in Results,
             Wait(c, where, answer), UNCHANGED <<watchVars, entryVars>>,
             c = SetUp /\ where # "idle" => phase = "out"
      PROVE  RepairInv'
  <2>1. at'[SetUp] = at[SetUp] \/ (c = SetUp /\ at'[SetUp] = where)
    BY <1>1, WaitShape DEF Caller
  <2> QED BY <1>1, <2>1 DEF RepairInv, CheckedOut, NoInstallRepair, OfferReported,
                            HealthLoaded, watchVars, entryVars
<1>2. CASE CheckApp
  BY <1>1, <1>2 DEF CheckApp, Caller, Places, Results
<1>3. ASSUME NEW c \in Caller, SupervisorAnswers(c)
      PROVE  RepairInv'
  <2>1. "told" \in Places /\ (IF supervisor THEN app ELSE "unreadable") \in Results
    BY DEF Places, Results, TypeOK
  <2>2. c = SetUp => phase = "out"
    BY <1>3 DEF SupervisorAnswers, RepairInv, CheckedOut
  <2> QED BY <1>1, <1>3, <2>1, <2>2 DEF SupervisorAnswers
<1>4. CASE AppChecked
  <2>1. at'[SetUp] = "idle" /\ phase = "out"
    BY <1>4 DEF AppChecked, Wait, TypeOK, Caller, RepairInv, CheckedOut
  <2>2. CASE UNCHANGED <<watchVars, entryVars>>
    BY <2>1, <2>2 DEF RepairInv, CheckedOut, NoInstallRepair, OfferReported,
                      HealthLoaded, watchVars, entryVars
  <2>3. CASE /\ issues' = issues \cup {"addon_not_installed"}
             /\ UNCHANGED <<downFor, reported, quietFor, entryVars>>
    BY <2>1, <2>3, RepairNames
    DEF RepairInv, CheckedOut, NoInstallRepair, OfferReported, HealthLoaded, entryVars
  <2>4. CASE /\ Down /\ issues' = DownIssues(result[SetUp], issues)
             /\ UNCHANGED entryVars
    <3>1. OfferReported'
      BY <2>4, DownOffers DEF RepairInv, OfferReported
    <3>2. HealthLoaded'
      BY <2>4, RepairNames DEF RepairInv, HealthLoaded, DownIssues, entryVars
    <3> QED
      BY <2>1, <2>4, <3>1, <3>2 DEF RepairInv, CheckedOut, NoInstallRepair, entryVars
  <2>5. CASE /\ issues' = issues \ AddonIssues
             /\ phase' = "refresh"
             /\ UNCHANGED <<downFor, reported, quietFor>>
    BY <2>1, <2>5 DEF RepairInv, CheckedOut, NoInstallRepair, OfferReported,
                      HealthLoaded, AddonIssues
  <2> QED BY <1>4, <2>2, <2>3, <2>4, <2>5 DEF AppChecked
<1>5. ASSUME NEW p \in Poller, Poll(p)
      PROVE  RepairInv'
  <2>1. p \in Caller /\ p # SetUp /\ "app" \in Places /\ "none" \in Results
    BY PollerConstants DEF Caller, Places, Results
  <2> QED BY <1>1, <1>5, <2>1 DEF Poll
<1>6. ASSUME NEW p \in Poller, AppAnswers(p)
      PROVE  RepairInv'
  <2>1. /\ p \in Caller /\ p # SetUp
        /\ {"supervisor", "answered"} \subseteq Places
        /\ {"none", "fine", "error"} \subseteq Results
        /\ api # "silent" => api \in Results
    BY PollerConstants
    DEF Caller, Places, Results, PollResults, Statuses, TypeOK, Api
  <2> QED BY <1>1, <1>6, <2>1 DEF AppAnswers
<1>7. ASSUME NEW p \in Poller, Answered(p) \/ Refused(p) \/ Unanswered(p)
      PROVE  RepairInv'
  BY <1>7, PollEndKeeps
<1>8. CASE Reload \/ Disable \/ Enable
  <2>1. CASE Unload /\ phase' \in {"out", "disabled"}
    BY <2>1 DEF Unload, RepairInv, CheckedOut, NoInstallRepair, OfferReported,
                HealthLoaded, Caller
  <2>2. CASE /\ phase \in {"out", "disabled"} /\ phase' \in {"out", "disabled"}
             /\ at[SetUp] = "idle"
             /\ UNCHANGED <<watchVars, first, callVars, healthVars, envVars>>
    BY <2>2 DEF RepairInv, CheckedOut, NoInstallRepair, OfferReported, HealthLoaded,
                watchVars, callVars
  <2>3. phase = "disabled" => at[SetUp] = "idle"
    BY DEF RepairInv, CheckedOut
  <2> QED
    BY <1>8, <2>1, <2>2, <2>3 DEF Reload, Disable, Enable
<1>9. CASE Remove
  BY <1>9 DEF Remove, RepairInv, CheckedOut, NoInstallRepair, OfferReported,
              HealthLoaded, callVars
<1>10. CASE Installed \/ AppChanges \/ SupervisorChanges \/ Tick \/ UNCHANGED vars
  BY <1>10 DEF Installed, AppChanges, SupervisorChanges, Tick, TickWatch, vars,
               watchVars, entryVars, callVars, RepairInv, CheckedOut,
               NoInstallRepair, OfferReported, HealthLoaded
<1> QED
  BY <1>2, <1>3, <1>4, <1>5, <1>6, <1>7, <1>8, <1>9, <1>10
  DEF Next, SetUpStep, PollStep, Caller

\* The invariant of the repairs holds in every reachable state.
LEMMA RepairAlways == Spec => [](TypeOK /\ WatchInv /\ RepairInv)
<1>1. Init => RepairInv
  BY DEF Init, WatchInit, RepairInv, CheckedOut, NoInstallRepair, OfferReported,
         HealthLoaded, Caller
<1>2. TypeOK /\ WatchInv /\ RepairInv /\ [Next]_vars
        => (TypeOK /\ WatchInv /\ RepairInv)'
  BY TypeStep, WatchStep, RepairStep
<1> QED BY <1>1, <1>2, InitTypes, InitWatch, PTL DEF Spec

\* The offer to start the app is there only in a reported outage, and a loaded
\* entry does not ask for an installation.
THEOREM RepairsAreTheApps == Spec => []RepairsFollowTheApp
<1>1. WatchInv /\ RepairInv => RepairsFollowTheApp
  BY DEF WatchInv, ReportedIsOld, TimesOK, RepairInv, NoInstallRepair, OfferReported,
         RepairsFollowTheApp
<1> QED BY <1>1, RepairAlways, PTL

\* No health repair of an entry that is not loaded.
THEOREM HealthIsOfLoadedEntries == Spec => []UnloadedIsQuiet
<1>1. RepairInv => UnloadedIsQuiet
  BY DEF RepairInv, HealthLoaded, UnloadedIsQuiet
<1> QED BY <1>1, RepairAlways, PTL
=============================================================================
