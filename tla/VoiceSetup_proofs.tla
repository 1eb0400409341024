-------------------------- MODULE VoiceSetup_proofs --------------------------
(***************************************************************************)
(* Proofs about VoiceSetup, for any number of calls of the action, of      *)
(* Wyoming discoveries and entries, and of pipelines made.                 *)
(***************************************************************************)
EXTENDS VoiceSetup, FiniteSetTheorems, TLAPS

USE VoiceConstants

-----------------------------------------------------------------------------
(* What is known of the runs and their confirmations. *)

Inside == Subscribed \cup {"failed", "gather", "pipeline", "remember"}

\* A run has the lock exactly while it is inside it.
LockOK == \A r \in Run : voiceLock = r <=> voicePc[r] \in Inside

\* Confirmations are under way only in a run that has yet to gather them, and
\* only of discoveries that it has seen.
TasksOK ==
    /\ (\A r \in Run : voicePc[r] \notin Subscribed \cup {"gather", "failed"}) => Gathered
    /\ \A w \in Wiring : task[w] # "none" => w \in seen /\ wiring[w].is # "free"

IsWired(w) == wiring[w].is \in {"entry", "disabled"}

\* What is discovered is under the app's host name, and so is what the action
\* confirmed.
WiringOK ==
    \A w \in Wiring :
        /\ wiring[w].is \in {"free", "pending"} => ~wiring[w].byIp
        /\ w \in confirmed => ~wiring[w].byIp /\ wiring[w].is \notin {"free", "pending"}

\* One confirmation of an app is under way at a time, and none where the action
\* has wired the app.
ClaimsOK ==
    \A w \in Wiring : task[w] = "configure" =>
        /\ wiring[w].app \in claimed
        /\ \A v \in Wiring : task[v] = "configure" /\ wiring[v].app = wiring[w].app => v = w
        /\ \A v \in confirmed : wiring[v].app = wiring[w].app => ~IsWired(v)

\* There is no pipeline but the one that is remembered, or is about to be.
PipelinesOK ==
    /\ \A r \in Run : voiceLock = r => wanted[r] = remembered
    /\ \A r \in Run : voicePc[r] = "remember" => pipelines \subseteq {made[r]}
    /\ (\A r \in Run : voicePc[r] # "remember") => pipelines \subseteq {remembered}

-----------------------------------------------------------------------------
(* The variables keep to their types. *)

Wirings == [Wiring -> [app : VoiceApps, is : WiringStates, byIp : BOOLEAN, engine : BOOLEAN]]
Tasks == [Wiring -> {"none", "hosts", "configure"}]
Stages == [Run -> RunStages]

\* The discoveries and entries at the start are well formed, and none is both
\* pending and under the app's IP address.
LEMMA WiringAtInit ==
    ASSUME VoiceInit
    PROVE  /\ wiring \in Wirings
           /\ \A w \in Wiring : wiring[w].is \in {"free", "pending"} => ~wiring[w].byIp
<1> DEFINE Rec == [app : VoiceApps, is : WiringStates, byIp : BOOLEAN, engine : BOOLEAN]
           Good == {x \in Rec : x.is \in {"free", "pending"} => ~x.byIp}
<1>1. FALSE \in BOOLEAN /\ TRUE \in BOOLEAN
  BY Zenon
<1>2. NoWiring \in Good
  <2>1. NoWiring \in Rec /\ NoWiring.byIp = FALSE
    BY <1>1 DEF NoWiring, WiringStates, VoiceApps
  <2> QED
    BY <2>1
<1>3. \A s \in VoiceApps : Prompt(s) \in Good
  <2> TAKE s \in VoiceApps
  <2>1. Prompt(s) \in Rec /\ Prompt(s).byIp = FALSE
    BY <1>1 DEF Prompt, NoWiring, WiringStates, VoiceApps
  <2> QED
    BY <2>1
<1>4. UsersEntry \in Good
  <2>1. UsersEntry \in Rec /\ UsersEntry.is = "entry"
    BY <1>1 DEF UsersEntry, NoWiring, WiringStates, VoiceApps
  <2> QED
    BY <2>1
<1>5. wiring \in [Wiring -> Good]
  <2> HIDE DEF Good
  <2> QED
    BY <1>2, <1>3, <1>4 DEF VoiceInit, Before
<1> QED
  BY <1>5 DEF Wirings

\* Tasks are started only for flows that were not seen.
LEMMA StartedEffect ==
    ASSUME VoiceTypeOK, NEW flows \in SUBSET Wiring, Started(flows)
    PROVE  /\ seen' = seen \cup flows
           /\ task' \in Tasks
           /\ \A w \in Wiring :
                \/ task'[w] = task[w]
                \/ w \in flows /\ w \notin seen /\ task'[w] = "hosts"
BY DEF Started, VoiceTypeOK, Tasks

\* A discovery is made of a wiring that was free, and a task is started for it
\* while a run listens.
LEMMA DiscoverEffect ==
    ASSUME VoiceTypeOK, NEW w \in Wiring, Discover(w)
    PROVE  /\ wiring[w].is = "free"
           /\ wiring' \in Wirings
           /\ wiring'[w].is = "pending" /\ wiring'[w].byIp = wiring[w].byIp
           /\ \A x \in Wiring \ {w} : wiring'[x] = wiring[x]
           /\ \/ Listening /\ Started({w})
              \/ UNCHANGED <<seen, task>>
           /\ UNCHANGED <<addon, confirmed, claimed, runVars, pipelineVars>>
<1>1. PICK s \in VoiceApps :
        wiring' = [wiring EXCEPT ![w].app = s, ![w].is = "pending"]
  BY DEF Discover
<1>2. wiring \in Wirings
  BY DEF VoiceTypeOK, Wirings
<1>3. wiring' = [wiring EXCEPT ![w] = [wiring[w] EXCEPT !.app = s, !.is = "pending"]]
  BY <1>1, <1>2 DEF Wirings
<1>4. wiring' \in Wirings
  BY <1>2, <1>3 DEF Wirings, WiringStates
<1>5. /\ wiring'[w].is = "pending" /\ wiring'[w].byIp = wiring[w].byIp
      /\ \A x \in Wiring \ {w} : wiring'[x] = wiring[x]
  BY <1>2, <1>3 DEF Wirings
<1>6. \/ Listening /\ Started({w})
      \/ UNCHANGED <<seen, task>>
  BY DEF Discover
<1> QED
  BY <1>4, <1>5, <1>6 DEF Discover

\* An engine that registers changes nothing else of its entry, and moves only
\* a run that waits.
LEMMA RegisterEffect ==
    ASSUME VoiceTypeOK, NEW w \in Wiring, Register(w)
    PROVE  /\ wiring' \in Wirings
           /\ \A x \in Wiring : /\ wiring'[x].app = wiring[x].app
                                /\ wiring'[x].is = wiring[x].is
                                /\ wiring'[x].byIp = wiring[x].byIp
           /\ voicePc' \in Stages
           /\ \A r \in Run : \/ voicePc'[r] = voicePc[r]
                             \/ voicePc[r] = "wait" /\ voicePc'[r] = "appeared"
           /\ UNCHANGED <<addon, confirmed, task, seen, claimed, current, knowsIp, engines,
                          wanted, made, voiceLock, pipelineVars>>
<1>1. wiring \in Wirings
  BY DEF VoiceTypeOK, Wirings
<1>2. wiring' = [wiring EXCEPT ![w] = [wiring[w] EXCEPT !.engine = TRUE]]
  BY <1>1 DEF Register, Wirings
<1>3. wiring' \in Wirings
  BY <1>1, <1>2 DEF Wirings
<1>4. \A x \in Wiring : /\ wiring'[x].app = wiring[x].app
                        /\ wiring'[x].is = wiring[x].is
                        /\ wiring'[x].byIp = wiring[x].byIp
  BY <1>1, <1>2 DEF Wirings
<1>5. /\ voicePc' \in Stages
      /\ \A r \in Run : \/ voicePc'[r] = voicePc[r]
                        \/ voicePc[r] = "wait" /\ voicePc'[r] = "appeared"
  BY DEF Register, VoiceTypeOK, Stages, RunStages, Subscribed
<1> QED
  BY <1>3, <1>4, <1>5 DEF Register

\* What the user does to a discovery or an entry.
LEMMA UserEffect ==
    ASSUME VoiceTypeOK, NEW w \in Wiring, UserWires(w)
    PROVE  /\ wiring' \in Wirings
           /\ \/ wiring[w].is = "pending" /\ wiring'[w].is \in {"entry", "gone"}
              \/ wiring[w].is = "entry" /\ wiring'[w].is \in {"disabled", "gone"}
           /\ wiring'[w].app = wiring[w].app /\ wiring'[w].byIp = wiring[w].byIp
           /\ \A x \in Wiring \ {w} : wiring'[x] = wiring[x]
           /\ UNCHANGED <<addon, confirmed, task, seen, claimed, runVars, pipelineVars>>
<1>1. wiring \in Wirings
  BY DEF VoiceTypeOK, Wirings
<1>2. \E is \in WiringStates, e \in BOOLEAN :
        /\ wiring' = [wiring EXCEPT ![w] = [wiring[w] EXCEPT !.is = is, !.engine = e]]
        /\ \/ wiring[w].is = "pending" /\ is \in {"entry", "gone"}
           \/ wiring[w].is = "entry" /\ is \in {"disabled", "gone"}
  <2>1. CASE wiring[w].is = "pending"
    <3>1. PICK is \in {"entry", "gone"} : wiring' = [wiring EXCEPT ![w].is = is]
      BY <2>1 DEF UserWires
    <3>2. wiring' = [wiring EXCEPT ![w] = [wiring[w] EXCEPT !.is = is, !.engine = wiring[w].engine]]
      BY <3>1, <1>1 DEF Wirings
    <3> QED
      BY <2>1, <3>2, <1>1 DEF Wirings, WiringStates
  <2>2. CASE wiring[w].is = "entry"
    <3>1. PICK is \in {"disabled", "gone"} :
            wiring' = [wiring EXCEPT ![w].is = is, ![w].engine = FALSE]
      BY <2>2 DEF UserWires
    <3>2. wiring' = [wiring EXCEPT ![w] = [wiring[w] EXCEPT !.is = is, !.engine = FALSE]]
      BY <3>1, <1>1 DEF Wirings
    <3> QED
      BY <2>2, <3>2 DEF WiringStates
  <2> QED
    BY <2>1, <2>2 DEF UserWires
<1>3. PICK is \in WiringStates, e \in BOOLEAN :
        /\ wiring' = [wiring EXCEPT ![w] = [wiring[w] EXCEPT !.is = is, !.engine = e]]
        /\ \/ wiring[w].is = "pending" /\ is \in {"entry", "gone"}
           \/ wiring[w].is = "entry" /\ is \in {"disabled", "gone"}
  BY <1>2
<1>4. wiring' \in Wirings
  BY <1>1, <1>3 DEF Wirings
<1>5. /\ wiring'[w].is = is
      /\ wiring'[w].app = wiring[w].app /\ wiring'[w].byIp = wiring[w].byIp
      /\ \A x \in Wiring \ {w} : wiring'[x] = wiring[x]
  BY <1>1, <1>3 DEF Wirings
<1> QED
  BY <1>3, <1>4, <1>5 DEF UserWires

\* A discovery that the Supervisor has answered for is dismissed, left alone,
\* or claimed: claimed only if nobody has, and no entry is at the host name.
LEMMA ClaimEffect ==
    ASSUME VoiceTypeOK, NEW w \in Wiring, Claim(w)
    PROVE  /\ task[w] = "hosts"
           /\ wiring' \in Wirings
           /\ task' \in Tasks
           /\ \A x \in Wiring \ {w} : wiring'[x] = wiring[x] /\ task'[x] = task[x]
           /\ wiring'[w].app = wiring[w].app /\ wiring'[w].byIp = wiring[w].byIp
           /\ \/ wiring'[w].is = wiring[w].is
              \/ wiring[w].is = "pending" /\ wiring'[w].is = "gone"
           /\ \/ task'[w] = "none" /\ UNCHANGED claimed
              \/ /\ task'[w] = "configure" /\ wiring[w].app \notin claimed
                 /\ claimed' = claimed \cup {wiring[w].app}
                 /\ \A v \in Wiring : wiring[v].app = wiring[w].app /\ IsWired(v) => wiring[v].byIp
           /\ UNCHANGED <<addon, confirmed, seen, runVars, pipelineVars>>
<1> DEFINE s == wiring[w].app
<1>1. wiring \in Wirings /\ task \in Tasks
  BY DEF VoiceTypeOK, Wirings, Tasks
<1>2. PICK ip \in IpAnswers(s) :
             \/ /\ AlreadyWired(s, ip)
                /\ wiring' = [wiring EXCEPT ![w].is = IF @ = "pending" THEN "gone" ELSE @]
                /\ TaskEnds(w)
                /\ UNCHANGED claimed
             \/ /\ ~AlreadyWired(s, ip)
                /\ IF s \in claimed
                   THEN TaskEnds(w) /\ UNCHANGED claimed
                   ELSE /\ claimed' = claimed \cup {s}
                        /\ task' = [task EXCEPT ![w] = "configure"]
                /\ UNCHANGED wiring
  BY DEF Claim
<1>3. CASE /\ wiring' = [wiring EXCEPT ![w].is = IF @ = "pending" THEN "gone" ELSE @]
           /\ TaskEnds(w) /\ UNCHANGED claimed
  <2>1. wiring' = [wiring EXCEPT ![w] =
                     [wiring[w] EXCEPT !.is = IF wiring[w].is = "pending" THEN "gone" ELSE wiring[w].is]]
    BY <1>1, <1>3 DEF Wirings
  <2>2. wiring' \in Wirings
    BY <1>1, <2>1 DEF Wirings, WiringStates
  <2>3. /\ wiring'[w].app = wiring[w].app /\ wiring'[w].byIp = wiring[w].byIp
        /\ wiring'[w].is = IF wiring[w].is = "pending" THEN "gone" ELSE wiring[w].is
        /\ \A x \in Wiring \ {w} : wiring'[x] = wiring[x]
    BY <1>1, <2>1 DEF Wirings
  <2>4. task' \in Tasks /\ task'[w] = "none" /\ \A x \in Wiring \ {w} : task'[x] = task[x]
    BY <1>1, <1>3 DEF Tasks, TaskEnds
  <2> QED
    BY <1>3, <2>2, <2>3, <2>4 DEF Claim
<1>4. CASE TaskEnds(w) /\ UNCHANGED <<claimed, wiring>>
  <2>1. task' \in Tasks /\ task'[w] = "none" /\ \A x \in Wiring \ {w} : task'[x] = task[x]
    BY <1>1, <1>4 DEF Tasks, TaskEnds
  <2> QED
    BY <1>1, <1>4, <2>1 DEF Claim
<1>5. CASE /\ ~AlreadyWired(s, ip) /\ s \notin claimed /\ claimed' = claimed \cup {s}
           /\ task' = [task EXCEPT ![w] = "configure"] /\ UNCHANGED wiring
  <2>1. task' \in Tasks /\ task'[w] = "configure" /\ \A x \in Wiring \ {w} : task'[x] = task[x]
    BY <1>1, <1>5 DEF Tasks
  <2>2. \A v \in Wiring : wiring[v].app = s /\ IsWired(v) => wiring[v].byIp
    BY <1>1, <1>5 DEF AlreadyWired, EntriesOf, IsWired, Wirings
  <2> QED
    BY <1>1, <1>5, <2>1, <2>2 DEF Claim
<1> QED
  BY <1>2, <1>3, <1>4, <1>5

\* A confirmation ends: it made the entry, or not, and the other prompts of the
\* app go only after an answer.
LEMMA ConfirmEffect ==
    ASSUME VoiceTypeOK, NEW w \in Wiring, Confirm(w)
    PROVE  /\ task[w] = "configure"
           /\ task' \in Tasks /\ task'[w] = "none"
           /\ \A x \in Wiring \ {w} : task'[x] = task[x]
           /\ wiring' \in Wirings
           /\ \A x \in Wiring : /\ wiring'[x].app = wiring[x].app
                                /\ wiring'[x].byIp = wiring[x].byIp
           /\ \A x \in Wiring : \/ wiring'[x].is = wiring[x].is
                                \/ /\ wiring[x].is = "pending"
                                   /\ wiring'[x].is = "gone" \/ (x = w /\ wiring'[x].is = "entry")
           /\ \/ UNCHANGED confirmed
              \/ /\ confirmed' = confirmed \cup {w}
                 /\ wiring[w].is = "pending" /\ wiring'[w].is = "entry"
           /\ \/ UNCHANGED claimed
              \/ /\ claimed' = claimed \ {wiring[w].app}
                 /\ \A x \in Wiring \ {w} : wiring'[x] = wiring[x]
           /\ UNCHANGED <<addon, seen, runVars, pipelineVars>>
<1> DEFINE s == wiring[w].app
<1>1. wiring \in Wirings /\ task \in Tasks
  BY DEF VoiceTypeOK, Wirings, Tasks
<1>2. PICK is \in {"entry", "gone", "pending"}, answered \in BOOLEAN :
             /\ IF wiring[w].is # "pending" THEN is = "gone" /\ ~answered
                ELSE is = "entry" => answered
             /\ wiring' = [x \in Wiring |->
                  IF x = w THEN IF wiring[w].is = "pending"
                                THEN [wiring[w] EXCEPT !.is = is] ELSE wiring[w]
                  ELSE IF x \in Pending(s) /\ Others(w, answered)
                  THEN [wiring[x] EXCEPT !.is = "gone"] ELSE wiring[x]]
             /\ confirmed' = IF is = "entry" THEN confirmed \cup {w} ELSE confirmed
             /\ claimed' = IF answered THEN claimed ELSE claimed \ {s}
  BY DEF Confirm
<1>3. \A x \in Wiring \ {w} :
        wiring'[x] = IF x \in Pending(s) /\ answered
                     THEN [wiring[x] EXCEPT !.is = "gone"] ELSE wiring[x]
  BY <1>2 DEF Others
<1>4. wiring'[w] = IF wiring[w].is = "pending" THEN [wiring[w] EXCEPT !.is = is] ELSE wiring[w]
  BY <1>2
<1>5. wiring' \in Wirings
  <2> DEFINE Rec == [app : VoiceApps, is : WiringStates, byIp : BOOLEAN, engine : BOOLEAN]
  <2>1. \A x \in Wiring : wiring[x] \in Rec /\ [wiring[x] EXCEPT !.is = "gone"] \in Rec
    BY <1>1 DEF Wirings, WiringStates
  <2>2. wiring'[w] \in Rec
    BY <1>1, <1>4 DEF Wirings, WiringStates
  <2> QED
    <3>1. \A x \in Wiring : wiring'[x] \in Rec
      BY <1>3, <2>1, <2>2
    <3> QED
      BY <1>2, <3>1 DEF Wirings
<1>6. \A x \in Wiring \ {w} : /\ wiring'[x].app = wiring[x].app
                              /\ wiring'[x].byIp = wiring[x].byIp
                              /\ \/ wiring'[x].is = wiring[x].is
                                 \/ wiring[x].is = "pending" /\ wiring'[x].is = "gone"
  <2> SUFFICES ASSUME NEW x \in Wiring \ {w}
               PROVE  /\ wiring'[x].app = wiring[x].app
                      /\ wiring'[x].byIp = wiring[x].byIp
                      /\ \/ wiring'[x].is = wiring[x].is
                         \/ wiring[x].is = "pending" /\ wiring'[x].is = "gone"
    OBVIOUS
  <2>1. CASE wiring'[x] = wiring[x]
    BY <2>1
  <2>2. CASE x \in Pending(s) /\ wiring'[x] = [wiring[x] EXCEPT !.is = "gone"]
    <3>1. wiring[x].is = "pending"
      BY <2>2 DEF Pending
    <3> QED
      BY <1>1, <2>2, <3>1 DEF Wirings
  <2> QED
    BY <1>3, <2>1, <2>2
<1>7. /\ wiring'[w].app = wiring[w].app /\ wiring'[w].byIp = wiring[w].byIp
      /\ \/ wiring'[w].is = wiring[w].is
         \/ wiring[w].is = "pending" /\ wiring'[w].is \in {"gone", "entry"}
  BY <1>1, <1>2, <1>4 DEF Wirings
<1>8. is = "entry" => wiring[w].is = "pending" /\ wiring'[w].is = "entry"
  BY <1>1, <1>2, <1>4 DEF Wirings
<1>9. task[w] = "configure" /\ task' \in Tasks /\ task'[w] = "none"
      /\ \A x \in Wiring \ {w} : task'[x] = task[x]
  BY <1>1 DEF Confirm, TaskEnds, Tasks
<1>10. \/ UNCHANGED confirmed
       \/ /\ confirmed' = confirmed \cup {w}
          /\ wiring[w].is = "pending" /\ wiring'[w].is = "entry"
  BY <1>2, <1>8
<1>11. \/ UNCHANGED claimed
       \/ /\ claimed' = claimed \ {s}
          /\ \A x \in Wiring \ {w} : wiring'[x] = wiring[x]
  BY <1>2, <1>3
<1>12. UNCHANGED <<addon, seen, runVars, pipelineVars>>
  BY DEF Confirm
<1>13. \A x \in Wiring : /\ wiring'[x].app = wiring[x].app
                         /\ wiring'[x].byIp = wiring[x].byIp
  BY <1>6, <1>7
<1>14. \A x \in Wiring : \/ wiring'[x].is = wiring[x].is
                         \/ /\ wiring[x].is = "pending"
                            /\ wiring'[x].is = "gone" \/ (x = w /\ wiring'[x].is = "entry")
  BY <1>6, <1>7
<1> QED
  BY <1>5, <1>9, <1>10, <1>11, <1>12, <1>13, <1>14

\* A step of a run between its first await and the gathering of its tasks.
Stays(r) ==
    /\ voicePc[r] \in Subscribed
    /\ \E where \in Subscribed \cup {"gather", "failed"} : GoVoice(r, where)
    /\ \/ UNCHANGED <<seen, task>>
       \/ Started(Pending("whisper") \cup Pending("piper"))
    /\ UNCHANGED <<wiring, confirmed, claimed, wanted, made, voiceLock, pipelineVars>>

\* The variables that only such a step changes.
LookTypeOK ==
    /\ addon \in [VoiceApps -> {"absent", "stopped", "running"}]
    /\ current \in [Run -> VoiceApps]
    /\ knowsIp \in [Run -> BOOLEAN]
    /\ engines \in [Run -> SUBSET VoiceApps]

\* The step after an app's last, from any await at which it is set up.
LEMMA EnsuredEffect ==
    ASSUME VoiceTypeOK, NEW r \in Run, Ensured(r)
    PROVE  /\ \E where \in Subscribed : GoVoice(r, where)
           /\ current' \in [Run -> VoiceApps]
           /\ \/ UNCHANGED <<seen, task>>
              \/ Started(Pending("whisper") \cup Pending("piper"))
<1>1. CASE current[r] = "whisper"
  BY <1>1 DEF Ensured, VoiceTypeOK, Subscribed, Ensuring, VoiceApps
<1>2. CASE current[r] # "whisper"
  BY <1>2 DEF Ensured, VoiceTypeOK, Subscribed, VoiceApps
<1> QED
  BY <1>1, <1>2

\* Setting up an app is such a step.
LEMMA EnsureEffect ==
    ASSUME VoiceTypeOK, NEW r \in Run, Ensure(r) \/ EnsureFails(r)
    PROVE  Stays(r) /\ LookTypeOK'
<1> DEFINE s == current[r]
<1>1. s \in VoiceApps
  BY DEF VoiceTypeOK
<1>2. CASE EnsureFails(r)
  <2>1. Stays(r)
    BY <1>2 DEF EnsureFails, Stays, Subscribed, externalVars, taskVars
  <2> QED
    BY <1>2, <2>1 DEF EnsureFails, LookTypeOK, VoiceTypeOK, externalVars
<1>3. CASE Ensure(r)
  <2>1. UNCHANGED <<wiring, confirmed, claimed, knowsIp, engines, wanted, made,
                    voiceLock, pipelineVars>>
    BY <1>3 DEF Ensure
  <2>2. /\ voicePc[r] \in Ensuring
        /\ addon' \in [VoiceApps -> {"absent", "stopped", "running"}]
        /\ \/ \E where \in Ensuring : GoVoice(r, where) /\ UNCHANGED <<seen, task, current>>
           \/ Ensured(r)
    BY <1>1, <1>3 DEF Ensure, Ensuring, VoiceTypeOK
  <2>3. /\ \E where \in Subscribed : GoVoice(r, where)
        /\ current' \in [Run -> VoiceApps]
        /\ \/ UNCHANGED <<seen, task>>
           \/ Started(Pending("whisper") \cup Pending("piper"))
    <3>1. CASE Ensured(r)
      BY <3>1, EnsuredEffect
    <3>2. CASE \E where \in Ensuring : GoVoice(r, where) /\ UNCHANGED <<seen, task, current>>
      BY <3>2 DEF Subscribed, VoiceTypeOK
    <3> QED
      BY <2>2, <3>1, <3>2
  <2>4. Stays(r)
    BY <2>1, <2>2, <2>3 DEF Stays, Subscribed
  <2> QED
    BY <2>1, <2>2, <2>3, <2>4 DEF LookTypeOK, VoiceTypeOK
<1> QED
  BY <1>2, <1>3

\* The run goes on from an app's engine.
LEMMA NextEngineEffect ==
    ASSUME VoiceTypeOK, NEW r \in Run, NextEngine(r)
    PROVE  /\ \E where \in Subscribed \cup {"gather", "failed"} : GoVoice(r, where)
           /\ current' \in [Run -> VoiceApps]
<1>1. CASE current[r] = "whisper"
  BY <1>1 DEF NextEngine, VoiceTypeOK, Subscribed, VoiceApps
<1>2. CASE current[r] # "whisper"
  BY <1>2 DEF NextEngine, VoiceTypeOK
<1> QED
  BY <1>1, <1>2

\* So is the search for an app's engine.
LEMMA FindEffect ==
    ASSUME VoiceTypeOK, NEW r \in Run, FindEngine(r)
    PROVE  Stays(r) /\ LookTypeOK'
<1> DEFINE s == current[r]
           Moves(x) == GoVoice(r, x) /\ UNCHANGED <<current, engines>>
           Finds == engines' = [engines EXCEPT ![r] = @ \cup {s}] /\ NextEngine(r)
<1>1. s \in VoiceApps
  BY DEF VoiceTypeOK
<1>2. PICK ip \in IpAnswers(s) :
        /\ knowsIp' = [knowsIp EXCEPT ![r] = ip]
        /\ Moves("failed") \/ Finds \/ Moves("wait")
  BY DEF FindEngine
<1>3. ip \in BOOLEAN
  <2>1. FALSE \in BOOLEAN
    BY Zenon
  <2> QED
    BY <1>2, <2>1 DEF IpAnswers
<1>4. /\ voicePc[r] = "hosts"
      /\ UNCHANGED <<externalVars, taskVars, wanted, made, voiceLock, pipelineVars>>
  BY DEF FindEngine
<1>5. knowsIp' \in [Run -> BOOLEAN]
  BY <1>2, <1>3 DEF VoiceTypeOK
<1>6. /\ \E where \in Subscribed \cup {"gather", "failed"} : GoVoice(r, where)
      /\ current' \in [Run -> VoiceApps]
      /\ engines' \in [Run -> SUBSET VoiceApps]
  <2>1. CASE Finds
    <3>1. engines' \in [Run -> SUBSET VoiceApps]
      BY <1>1, <2>1 DEF VoiceTypeOK
    <3> QED
      BY <2>1, <3>1, NextEngineEffect
  <2>2. CASE Moves("failed")
    BY <2>2 DEF VoiceTypeOK
  <2>3. CASE Moves("wait")
    BY <2>3 DEF VoiceTypeOK, Subscribed
  <2> QED
    BY <1>2, <2>1, <2>2, <2>3
<1>7. Stays(r)
  BY <1>4, <1>6 DEF Stays, Subscribed, externalVars, taskVars
<1> QED
  BY <1>4, <1>5, <1>6, <1>7 DEF LookTypeOK, VoiceTypeOK, externalVars

\* So is the end of the wait for one.
LEMMA WaitEffect ==
    ASSUME VoiceTypeOK, NEW r \in Run, WaitEnds(r)
    PROVE  Stays(r) /\ LookTypeOK'
<1>1. current[r] \in VoiceApps
  BY DEF VoiceTypeOK
<1>2. /\ voicePc[r] \in {"wait", "appeared"}
      /\ UNCHANGED <<externalVars, taskVars, knowsIp, wanted, made, voiceLock, pipelineVars>>
  BY DEF WaitEnds
<1>3. /\ engines' = engines \/ engines' = [engines EXCEPT ![r] = @ \cup {current[r]}]
      /\ NextEngine(r) \/ (GoVoice(r, "failed") /\ UNCHANGED current)
  BY DEF WaitEnds
<1>4. engines' \in [Run -> SUBSET VoiceApps]
  BY <1>1, <1>3 DEF VoiceTypeOK
<1>5. /\ \E where \in Subscribed \cup {"gather", "failed"} : GoVoice(r, where)
      /\ current' \in [Run -> VoiceApps]
  <2>1. CASE NextEngine(r)
    BY <2>1, NextEngineEffect
  <2>2. CASE GoVoice(r, "failed") /\ UNCHANGED current
    BY <2>2 DEF VoiceTypeOK
  <2> QED
    BY <1>3, <2>1, <2>2
<1>6. Stays(r)
  BY <1>2, <1>5 DEF Stays, Subscribed, externalVars, taskVars
<1> QED
  BY <1>2, <1>4, <1>5, <1>6 DEF LookTypeOK, VoiceTypeOK, externalVars

\* The end of a run lets the lock go and forgets its flows and claims.
LEMMA EndsEffect ==
    ASSUME VoiceTypeOK, NEW r \in Run, Ends(r)
    PROVE  /\ voicePc' = [voicePc EXCEPT ![r] = "done"] /\ voicePc' \in Stages
           /\ voiceLock' = NoRun
           /\ current' \in [Run -> VoiceApps]
           /\ knowsIp' \in [Run -> BOOLEAN]
           /\ engines' \in [Run -> SUBSET VoiceApps]
           /\ wanted' \in [Run -> 0..MaxPipelines]
           /\ made' \in [Run -> 0..MaxPipelines]
           /\ seen' = {} /\ claimed' = {}
<1>1. voicePc' = [voicePc EXCEPT ![r] = "done"] /\ voicePc' \in Stages
  BY DEF Ends, GoVoice, VoiceTypeOK, Stages, RunStages
<1>2. voiceLock' = NoRun /\ seen' = {} /\ claimed' = {}
  BY DEF Ends, HolderAfter
<1>3. current' \in [Run -> VoiceApps]
  BY DEF Ends, VoiceTypeOK, VoiceApps
<1>4. knowsIp' \in [Run -> BOOLEAN]
  <2>1. FALSE \in BOOLEAN
    BY Zenon
  <2>2. knowsIp \in [Run -> BOOLEAN] /\ knowsIp' = [knowsIp EXCEPT ![r] = FALSE]
    BY DEF Ends, VoiceTypeOK
  <2> QED
    BY <2>1, <2>2
<1>5. engines' \in [Run -> SUBSET VoiceApps]
  BY DEF Ends, VoiceTypeOK
<1>6. wanted' \in [Run -> 0..MaxPipelines] /\ made' \in [Run -> 0..MaxPipelines]
  BY DEF Ends, VoiceTypeOK
<1> QED
  BY <1>1, <1>2, <1>3, <1>4, <1>5, <1>6

\* A run that has gathered its confirmations goes on to the pipeline, or ends.
LEMMA GatherEffect ==
    ASSUME VoiceTypeOK, NEW r \in Run, Gather(r)
    PROVE  /\ voicePc[r] \in {"gather", "failed"} /\ Gathered
           /\ \/ Ends(r)
              \/ /\ GoVoice(r, "pipeline")
                 /\ UNCHANGED <<seen, claimed, current, knowsIp, engines, wanted, made, voiceLock>>
           /\ UNCHANGED <<externalVars, task, pipelineVars>>
BY DEF Gather

\* The steps of the system, those in which a run stays among its discoveries
\* taken together.
LEMMA Steps ==
    ASSUME VoiceTypeOK, [VoiceNext]_voiceVars
    PROVE  \/ \E r \in Run : \/ CallVoice(r) \/ Acquire(r)
                             \/ Stays(r) /\ LookTypeOK'
                             \/ Gather(r) \/ Pipeline(r) \/ Remember(r)
           \/ \E w \in Wiring : \/ Claim(w) \/ Confirm(w)
                                \/ Discover(w) \/ Register(w) \/ UserWires(w)
           \/ DeletePipeline
           \/ UNCHANGED voiceVars
<1>1. CASE \E r \in Run : VoiceRun(r)
  BY <1>1, EnsureEffect, FindEffect, WaitEffect DEF VoiceRun
<1>2. CASE ~\E r \in Run : VoiceRun(r)
  BY <1>2 DEF VoiceNext, VoiceTask
<1> QED
  BY <1>1, <1>2

\* Every step keeps the types.
LEMMA TypeStep ==
    ASSUME VoiceTypeOK, [VoiceNext]_voiceVars
    PROVE  VoiceTypeOK'
<1>1. ASSUME NEW r \in Run, CallVoice(r)
      PROVE  VoiceTypeOK'
  <2>1. voicePc' \in Stages
    BY <1>1 DEF CallVoice, GoVoice, VoiceTypeOK, Stages, RunStages
  <2> QED
    BY <1>1, <2>1 DEF CallVoice, VoiceTypeOK, externalVars, taskVars, pipelineVars, Stages
<1>2. ASSUME NEW r \in Run, Acquire(r)
      PROVE  VoiceTypeOK'
  <2>1. voicePc' \in Stages
    BY <1>2 DEF Acquire, GoVoice, VoiceTypeOK, Stages, RunStages, Subscribed, Ensuring
  <2>2. wanted' \in [Run -> 0..MaxPipelines] /\ voiceLock' \in Run \cup {NoRun}
    BY <1>2 DEF Acquire, VoiceTypeOK
  <2> QED
    BY <1>2, <2>1, <2>2 DEF Acquire, VoiceTypeOK, externalVars, taskVars, pipelineVars, Stages
<1>3. ASSUME NEW r \in Run, Stays(r), LookTypeOK'
      PROVE  VoiceTypeOK'
  <2>1. voicePc' \in Stages
    BY <1>3 DEF Stays, GoVoice, VoiceTypeOK, Stages, RunStages
  <2>2. Pending("whisper") \cup Pending("piper") \in SUBSET Wiring
    BY DEF Pending
  <2>3. task' \in Tasks /\ seen' \subseteq Wiring
    <3>1. CASE UNCHANGED <<seen, task>>
      BY <3>1 DEF VoiceTypeOK, Tasks
    <3>2. CASE Started(Pending("whisper") \cup Pending("piper"))
      BY <2>2, <3>2, StartedEffect DEF VoiceTypeOK
    <3> QED
      BY <1>3, <3>1, <3>2 DEF Stays
  <2> QED
    BY <1>3, <2>1, <2>3 DEF Stays, LookTypeOK, VoiceTypeOK, pipelineVars, Stages, Tasks
<1>4. ASSUME NEW r \in Run, Gather(r)
      PROVE  VoiceTypeOK'
  <2>1. CASE Ends(r)
    <3>1. UNCHANGED <<externalVars, task, pipelineVars>>
      BY <1>4 DEF Gather
    <3> QED
      BY <2>1, <3>1, EndsEffect DEF VoiceTypeOK, externalVars, pipelineVars, Stages
  <2>2. CASE ~Ends(r)
    <3>1. voicePc' \in Stages
      BY <1>4, <2>2 DEF Gather, GoVoice, VoiceTypeOK, Stages, RunStages
    <3> QED
      BY <1>4, <2>2, <3>1 DEF Gather, VoiceTypeOK, externalVars, pipelineVars, Stages
  <2> QED
    BY <2>1, <2>2
<1>5. ASSUME NEW r \in Run, Pipeline(r)
      PROVE  VoiceTypeOK'
  <2>1. UNCHANGED <<externalVars, task, remembered>>
    BY <1>5 DEF Pipeline
  <2>2. CASE Ends(r) /\ UNCHANGED <<pipelines, count>>
    BY <2>1, <2>2, EndsEffect DEF VoiceTypeOK, externalVars, Stages
  <2>3. CASE ~(Ends(r) /\ UNCHANGED <<pipelines, count>>)
    <3>1. voicePc' \in Stages
      BY <1>5, <2>3 DEF Pipeline, GoVoice, VoiceTypeOK, Stages, RunStages
    <3>2. /\ made' \in [Run -> 0..MaxPipelines]
          /\ pipelines' \subseteq 1..MaxPipelines /\ count' \in 0..MaxPipelines
      <4>1. CASE wanted[r] \in pipelines /\ made' = [made EXCEPT ![r] = wanted[r]]
                 /\ UNCHANGED <<pipelines, count>>
        BY <4>1 DEF VoiceTypeOK
      <4>2. CASE /\ count < MaxPipelines /\ count' = count + 1
                 /\ pipelines' = pipelines \cup {count + 1}
                 /\ made' = [made EXCEPT ![r] = count + 1]
        <5>1. count + 1 \in 1..MaxPipelines /\ count + 1 \in 0..MaxPipelines
          BY <4>2 DEF VoiceTypeOK
        <5> QED
          BY <4>2, <5>1 DEF VoiceTypeOK
      <4> QED
        BY <1>5, <2>3, <4>1, <4>2 DEF Pipeline
    <3> QED
      BY <1>5, <2>1, <2>3, <3>1, <3>2 DEF Pipeline, VoiceTypeOK, externalVars, Stages
  <2> QED
    BY <2>2, <2>3
<1>6. ASSUME NEW r \in Run, Remember(r)
      PROVE  VoiceTypeOK'
  <2>1. /\ UNCHANGED <<externalVars, task, pipelines, count>> /\ Ends(r)
        /\ remembered' \in 0..MaxPipelines
    BY <1>6 DEF Remember, VoiceTypeOK
  <2> QED
    BY <2>1, EndsEffect DEF VoiceTypeOK, externalVars, Stages
<1>7. ASSUME NEW w \in Wiring, Claim(w)
      PROVE  VoiceTypeOK'
  <2>1. claimed' \subseteq VoiceApps
    <3>1. wiring[w].app \in VoiceApps /\ claimed \subseteq VoiceApps
      BY DEF VoiceTypeOK
    <3>2. claimed' = claimed \/ claimed' = claimed \cup {wiring[w].app}
      BY <1>7, ClaimEffect
    <3> QED
      BY <3>1, <3>2
  <2> QED
    <3>1. /\ wiring' \in Wirings /\ task' \in Tasks
          /\ UNCHANGED <<addon, confirmed, seen, runVars, pipelineVars>>
      BY <1>7, ClaimEffect
    <3> QED
      BY <2>1, <3>1 DEF VoiceTypeOK, runVars, pipelineVars, Wirings, Tasks
<1>8. ASSUME NEW w \in Wiring, Confirm(w)
      PROVE  VoiceTypeOK'
  <2>1. claimed' \subseteq VoiceApps /\ confirmed' \subseteq Wiring
    BY <1>8, ConfirmEffect DEF VoiceTypeOK
  <2> QED
    <3>1. /\ wiring' \in Wirings /\ task' \in Tasks
          /\ UNCHANGED <<addon, seen, runVars, pipelineVars>>
      BY <1>8, ConfirmEffect
    <3> QED
      BY <2>1, <3>1 DEF VoiceTypeOK, runVars, pipelineVars, Wirings, Tasks
<1>9. ASSUME NEW w \in Wiring, Discover(w)
      PROVE  VoiceTypeOK'
  <2>1. task' \in Tasks /\ seen' \subseteq Wiring
    <3>1. CASE UNCHANGED <<seen, task>>
      BY <3>1 DEF VoiceTypeOK, Tasks
    <3>2. CASE Started({w})
      BY <3>2, StartedEffect DEF VoiceTypeOK
    <3> QED
      BY <1>9, <3>1, <3>2, DiscoverEffect
  <2> QED
    BY <1>9, <2>1, DiscoverEffect DEF VoiceTypeOK, runVars, pipelineVars, Wirings, Tasks
<1>10. ASSUME NEW w \in Wiring, Register(w)
       PROVE  VoiceTypeOK'
  BY <1>10, RegisterEffect DEF VoiceTypeOK, pipelineVars, Wirings, Stages
<1>11. ASSUME NEW w \in Wiring, UserWires(w)
       PROVE  VoiceTypeOK'
  BY <1>11, UserEffect DEF VoiceTypeOK, runVars, pipelineVars, Wirings
<1>12. CASE DeletePipeline
  BY <1>12 DEF DeletePipeline, VoiceTypeOK, externalVars, taskVars, runVars
<1>13. CASE UNCHANGED voiceVars
  BY <1>13 DEF voiceVars, VoiceTypeOK
<1> QED
  BY <1>1, <1>2, <1>3, <1>4, <1>5, <1>6, <1>7, <1>8, <1>9, <1>10, <1>11, <1>12, <1>13, Steps

\* The initial state is well formed.
LEMMA TypeAtInit == VoiceInit => VoiceTypeOK
<1> SUFFICES ASSUME VoiceInit
             PROVE  VoiceTypeOK
  OBVIOUS
<1>1. wiring \in Wirings
  BY WiringAtInit
<1>2. knowsIp \in [Run -> BOOLEAN]
  <2>1. FALSE \in BOOLEAN /\ knowsIp = [r \in Run |-> FALSE]
    BY Zenon DEF VoiceInit
  <2> QED
    BY <2>1
<1>3. engines \in [Run -> SUBSET VoiceApps]
  BY DEF VoiceInit
<1>4. /\ voicePc \in [Run -> RunStages]
      /\ current \in [Run -> VoiceApps]
      /\ wanted \in [Run -> 0..MaxPipelines]
      /\ made \in [Run -> 0..MaxPipelines]
      /\ task \in [Wiring -> {"none", "hosts", "configure"}]
  BY DEF VoiceInit, RunStages, VoiceApps
<1> QED
  BY <1>1, <1>2, <1>3, <1>4 DEF VoiceInit, VoiceTypeOK, Wirings

-----------------------------------------------------------------------------
(* The lock, and what it protects. *)

\* A run has the lock exactly while it is inside.
LEMMA LockStep ==
    ASSUME VoiceTypeOK, LockOK, [VoiceNext]_voiceVars
    PROVE  LockOK'
<1>1. ASSUME NEW r \in Run, CallVoice(r)
      PROVE  LockOK'
  <2>1. voicePc' = [voicePc EXCEPT ![r] = "lock"] /\ voicePc[r] = "idle" /\ UNCHANGED voiceLock
    BY <1>1 DEF CallVoice, GoVoice
  <2> QED
    BY <2>1 DEF LockOK, VoiceTypeOK, Inside, Subscribed, Ensuring
<1>2. ASSUME NEW r \in Run, Acquire(r)
      PROVE  LockOK'
  <2>1. /\ voicePc' = [voicePc EXCEPT ![r] = "info"]
        /\ voiceLock = NoRun /\ voiceLock' = r
    BY <1>2 DEF Acquire, GoVoice, MayEnter
  <2> QED
    BY <2>1 DEF LockOK, VoiceTypeOK, Inside, Subscribed, Ensuring
<1>3. ASSUME NEW r \in Run, Stays(r)
      PROVE  LockOK'
  <2>1. PICK where \in Subscribed \cup {"gather", "failed"} :
          voicePc' = [voicePc EXCEPT ![r] = where]
    BY <1>3 DEF Stays, GoVoice
  <2>2. voicePc[r] \in Inside /\ where \in Inside /\ UNCHANGED voiceLock
    BY <1>3, <2>1 DEF Stays, Inside
  <2> QED
    BY <2>1, <2>2 DEF LockOK, VoiceTypeOK
<1>4. ASSUME NEW r \in Run, Ends(r), voicePc[r] \in Inside
      PROVE  LockOK'
  <2>1. voicePc' = [voicePc EXCEPT ![r] = "done"] /\ voiceLock' = NoRun
    BY <1>4, EndsEffect
  <2>2. "done" \notin Inside
    BY DEF Inside, Subscribed, Ensuring
  <2> QED
    BY <1>4, <2>1, <2>2 DEF LockOK, VoiceTypeOK
<1>5. ASSUME NEW r \in Run, NEW where \in {"pipeline", "remember"}, GoVoice(r, where),
             voicePc[r] \in Inside, UNCHANGED voiceLock
      PROVE  LockOK'
  BY <1>5 DEF GoVoice, LockOK, VoiceTypeOK, Inside
<1>6. ASSUME NEW r \in Run, Gather(r)
      PROVE  LockOK'
  <2>1. voicePc[r] \in Inside
    BY <1>6, GatherEffect DEF Inside
  <2>2. Ends(r) \/ (GoVoice(r, "pipeline") /\ UNCHANGED voiceLock)
    BY <1>6, GatherEffect
  <2> QED
    BY <1>4, <1>5, <2>1, <2>2
<1>7. ASSUME NEW r \in Run, Pipeline(r)
      PROVE  LockOK'
  <2>1. voicePc[r] \in Inside
    BY <1>7 DEF Pipeline, Inside
  <2>2. Ends(r) \/ (GoVoice(r, "remember") /\ UNCHANGED voiceLock)
    BY <1>7 DEF Pipeline
  <2> QED
    BY <1>4, <1>5, <2>1, <2>2
<1>8. ASSUME NEW r \in Run, Remember(r)
      PROVE  LockOK'
  BY <1>4, <1>8 DEF Remember, Inside
<1>9. ASSUME NEW w \in Wiring, Register(w)
      PROVE  LockOK'
  <2>1. /\ UNCHANGED voiceLock
        /\ \A r \in Run : \/ voicePc'[r] = voicePc[r]
                          \/ voicePc[r] = "wait" /\ voicePc'[r] = "appeared"
    BY <1>9, RegisterEffect
  <2>2. "wait" \in Inside /\ "appeared" \in Inside
    BY DEF Inside, Subscribed
  <2> QED
    BY <2>1, <2>2 DEF LockOK
<1>10. ASSUME UNCHANGED <<voicePc, voiceLock>>
       PROVE  LockOK'
  BY <1>10 DEF LockOK
<1>11. ASSUME NEW w \in Wiring, Claim(w) \/ Confirm(w) \/ Discover(w) \/ UserWires(w)
       PROVE  UNCHANGED <<voicePc, voiceLock>>
  BY <1>11 DEF Claim, Confirm, Discover, UserWires, runVars
<1>12. DeletePipeline \/ UNCHANGED voiceVars => UNCHANGED <<voicePc, voiceLock>>
  BY DEF DeletePipeline, runVars, voiceVars
<1> QED
  BY <1>1, <1>2, <1>3, <1>6, <1>7, <1>8, <1>9, <1>10, <1>11, <1>12, Steps

\* There is no pipeline but the one remembered, or about to be: it is remembered
\* by the run that made it before another looks.
LEMMA PipelinesStep ==
    ASSUME VoiceTypeOK, LockOK, PipelinesOK, [VoiceNext]_voiceVars
    PROVE  PipelinesOK'
<1>1. ASSUME NEW r \in Run, CallVoice(r)
      PROVE  PipelinesOK'
  <2>1. /\ voicePc' = [voicePc EXCEPT ![r] = "lock"] /\ voicePc[r] = "idle"
        /\ UNCHANGED <<voiceLock, wanted, made, pipelines, remembered>>
    BY <1>1 DEF CallVoice, GoVoice, pipelineVars
  <2> QED
    BY <2>1 DEF PipelinesOK, VoiceTypeOK
<1>2. ASSUME NEW r \in Run, Acquire(r)
      PROVE  PipelinesOK'
  <2>1. /\ voicePc' = [voicePc EXCEPT ![r] = "info"] /\ voicePc[r] = "lock"
        /\ voiceLock' = r /\ wanted' = [wanted EXCEPT ![r] = remembered]
        /\ UNCHANGED <<made, pipelines, remembered>>
    BY <1>2 DEF Acquire, GoVoice, pipelineVars
  <2> QED
    BY <2>1 DEF PipelinesOK, VoiceTypeOK
<1>3. ASSUME NEW r \in Run, Stays(r)
      PROVE  PipelinesOK'
  <2>1. PICK where \in Subscribed \cup {"gather", "failed"} :
          voicePc' = [voicePc EXCEPT ![r] = where]
    BY <1>3 DEF Stays, GoVoice
  <2>2. where # "remember" /\ voicePc[r] # "remember"
    BY <1>3, <2>1 DEF Stays, Subscribed, Ensuring
  <2>3. UNCHANGED <<voiceLock, wanted, made, pipelines, remembered>>
    BY <1>3 DEF Stays, pipelineVars
  <2> QED
    BY <2>1, <2>2, <2>3 DEF PipelinesOK, VoiceTypeOK
<1>4. ASSUME NEW r \in Run, voicePc[r] \in Inside
      PROVE  \A o \in Run \ {r} : voicePc[o] \notin Inside
  BY <1>4 DEF LockOK
<1>5. ASSUME NEW r \in Run, Ends(r), voicePc[r] \in Inside, pipelines \subseteq {remembered'},
             UNCHANGED pipelines
      PROVE  PipelinesOK'
  <2>1. /\ voicePc' = [voicePc EXCEPT ![r] = "done"] /\ voiceLock' = NoRun
    BY <1>5, EndsEffect
  <2>2. \A o \in Run : voicePc'[o] # "remember"
    BY <1>4, <1>5, <2>1 DEF Inside, VoiceTypeOK
  <2> QED
    BY <1>5, <2>1, <2>2 DEF PipelinesOK
<1>6. ASSUME NEW r \in Run, voicePc[r] \in Inside, voicePc[r] # "remember"
      PROVE  pipelines \subseteq {remembered} /\ wanted[r] = remembered
  <2>1. \A o \in Run : voicePc[o] # "remember"
    BY <1>4, <1>6 DEF Inside
  <2> QED
    BY <1>6, <2>1 DEF PipelinesOK, LockOK
<1>7. ASSUME NEW r \in Run, Gather(r)
      PROVE  PipelinesOK'
  <2>1. voicePc[r] \in Inside /\ voicePc[r] # "remember" /\ UNCHANGED <<pipelines, remembered>>
    BY <1>7 DEF Gather, Inside, pipelineVars
  <2>2. CASE Ends(r)
    BY <1>5, <1>6, <2>1, <2>2
  <2>3. CASE GoVoice(r, "pipeline") /\ UNCHANGED <<wanted, made, voiceLock>>
    BY <2>1, <2>3 DEF GoVoice, PipelinesOK, VoiceTypeOK
  <2> QED
    BY <1>7, <2>2, <2>3, GatherEffect
<1>8. ASSUME NEW r \in Run, Pipeline(r)
      PROVE  PipelinesOK'
  <2>1. voicePc[r] \in Inside /\ voicePc[r] # "remember" /\ UNCHANGED remembered
    BY <1>8 DEF Pipeline, Inside
  <2>2. pipelines \subseteq {remembered} /\ wanted[r] = remembered
    BY <1>6, <2>1
  <2>3. CASE Ends(r) /\ UNCHANGED <<pipelines, count>>
    BY <1>5, <2>1, <2>2, <2>3
  <2>4. CASE ~(Ends(r) /\ UNCHANGED <<pipelines, count>>)
    <3>1. /\ voicePc' = [voicePc EXCEPT ![r] = "remember"]
          /\ UNCHANGED <<wanted, voiceLock>>
      BY <1>8, <2>4 DEF Pipeline, GoVoice
    <3>2. pipelines' \subseteq {made'[r]}
      <4>1. CASE wanted[r] \in pipelines /\ made' = [made EXCEPT ![r] = wanted[r]]
                 /\ UNCHANGED <<pipelines, count>>
        BY <2>2, <4>1 DEF VoiceTypeOK
      <4>2. CASE /\ wanted[r] \notin pipelines
                 /\ pipelines' = pipelines \cup {count + 1}
                 /\ made' = [made EXCEPT ![r] = count + 1]
        <5>1. pipelines = {}
          BY <2>2, <4>2
        <5> QED
          BY <4>2, <5>1 DEF VoiceTypeOK
      <4> QED
        BY <1>8, <2>4, <4>1, <4>2 DEF Pipeline
    <3>3. \A o \in Run : voicePc'[o] = "remember" => o = r
      BY <1>4, <2>1, <3>1 DEF Inside, VoiceTypeOK
    <3>4. voicePc'[r] = "remember"
      BY <3>1 DEF VoiceTypeOK
    <3> QED
      BY <2>1, <3>1, <3>2, <3>3, <3>4 DEF PipelinesOK
  <2> QED
    BY <2>3, <2>4
<1>9. ASSUME NEW r \in Run, Remember(r)
      PROVE  PipelinesOK'
  <2>1. voicePc[r] = "remember" /\ Ends(r) /\ remembered' = made[r] /\ UNCHANGED pipelines
    BY <1>9 DEF Remember
  <2>2. pipelines \subseteq {remembered'} /\ voicePc[r] \in Inside
    BY <2>1 DEF PipelinesOK, Inside
  <2> QED
    BY <1>5, <2>1, <2>2
<1>10. ASSUME NEW w \in Wiring, Register(w)
       PROVE  PipelinesOK'
  <2>1. \A r \in Run : voicePc'[r] = "remember" <=> voicePc[r] = "remember"
    BY <1>10, RegisterEffect
  <2>2. UNCHANGED <<voiceLock, wanted, made, pipelines, remembered>>
    BY <1>10 DEF Register, pipelineVars
  <2> QED
    BY <2>1, <2>2 DEF PipelinesOK
<1>11. CASE DeletePipeline
  <2>1. pipelines' \subseteq pipelines /\ UNCHANGED <<voicePc, voiceLock, wanted, made, remembered>>
    BY <1>11 DEF DeletePipeline, runVars
  <2> QED
    BY <2>1 DEF PipelinesOK
<1>12. ASSUME UNCHANGED <<voicePc, voiceLock, wanted, made, pipelines, remembered>>
       PROVE  PipelinesOK'
  BY <1>12 DEF PipelinesOK
<1>13. ASSUME NEW w \in Wiring, Claim(w) \/ Confirm(w) \/ Discover(w) \/ UserWires(w)
       PROVE  UNCHANGED <<voicePc, voiceLock, wanted, made, pipelines, remembered>>
  BY <1>13 DEF Claim, Confirm, Discover, UserWires, runVars, pipelineVars
<1>14. UNCHANGED voiceVars => UNCHANGED <<voicePc, voiceLock, wanted, made, pipelines, remembered>>
  BY DEF voiceVars
<1> QED
  BY <1>1, <1>2, <1>3, <1>7, <1>8, <1>9, <1>10, <1>11, <1>12, <1>13, <1>14, Steps

-----------------------------------------------------------------------------
(* The confirmations. *)

\* A run that is through with its confirmations, or lets them all go, has
\* gathered them.
LEMMA RunGathered ==
    ASSUME VoiceTypeOK, LockOK, TasksOK, NEW r \in Run,
           voicePc[r] \in {"pipeline", "remember"}
    PROVE  Gathered
<1>1. voiceLock = r
  BY DEF LockOK, Inside
<1>2. \A o \in Run : voicePc[o] \notin Subscribed \cup {"gather", "failed"}
  BY <1>1 DEF LockOK, Inside, Subscribed, Ensuring
<1> QED
  BY <1>2 DEF TasksOK

\* The steps of the runs, as far as the confirmations go: tasks are started for
\* pending discoveries, or flows and claims are forgotten when none is under way.
RunLeaves ==
    /\ UNCHANGED <<wiring, confirmed>>
    /\ \/ /\ UNCHANGED <<task, seen, claimed>>
          /\ \/ Gathered
             \/ (\E r \in Run : voicePc[r] \in Subscribed \cup {"gather", "failed"})
                => \E r \in Run : voicePc'[r] \in Subscribed \cup {"gather", "failed"}
       \/ /\ \E r \in Run : voicePc'[r] \in Subscribed \cup {"gather", "failed"}
          /\ UNCHANGED claimed
          /\ Started(Pending("whisper") \cup Pending("piper"))
       \/ Gathered /\ UNCHANGED task /\ claimed' = {} /\ seen' = {}

\* Every step of a run is of that kind.
LEMMA RunLeavesThem ==
    ASSUME VoiceTypeOK, LockOK, TasksOK, NEW r \in Run,
           \/ CallVoice(r) \/ Acquire(r) \/ Stays(r)
           \/ Gather(r) \/ Pipeline(r) \/ Remember(r)
    PROVE  RunLeaves
<1> DEFINE Among == Subscribed \cup {"gather", "failed"}
<1>1. CASE CallVoice(r)
  <2>1. /\ UNCHANGED <<wiring, confirmed, task, seen, claimed>>
        /\ voicePc[r] = "idle" /\ \A o \in Run \ {r} : voicePc'[o] = voicePc[o]
    BY <1>1 DEF CallVoice, GoVoice, externalVars, taskVars, VoiceTypeOK
  <2>2. "idle" \notin Among
    BY DEF Subscribed, Ensuring
  <2> QED
    BY <2>1, <2>2 DEF RunLeaves
<1>2. CASE Acquire(r)
  <2>1. /\ UNCHANGED <<wiring, confirmed, task, seen, claimed>>
        /\ voicePc'[r] \in Among
    BY <1>2 DEF Acquire, GoVoice, externalVars, taskVars, VoiceTypeOK, Subscribed, Ensuring
  <2> QED
    BY <2>1 DEF RunLeaves
<1>3. CASE Stays(r)
  <2>1. voicePc'[r] \in Among
    BY <1>3 DEF Stays, GoVoice, VoiceTypeOK
  <2> QED
    BY <1>3, <2>1 DEF RunLeaves, Stays
<1>4. CASE Gather(r)
  <2>1. Gathered /\ UNCHANGED <<wiring, confirmed, task>>
    BY <1>4 DEF Gather, externalVars
  <2>2. UNCHANGED <<seen, claimed>> \/ (seen' = {} /\ claimed' = {})
    BY <1>4, GatherEffect, EndsEffect
  <2> QED
    BY <2>1, <2>2 DEF RunLeaves
<1>5. CASE Pipeline(r)
  <2>1. Gathered /\ UNCHANGED <<wiring, confirmed, task>>
    BY <1>5, RunGathered DEF Pipeline, externalVars
  <2>2. UNCHANGED <<seen, claimed>> \/ (seen' = {} /\ claimed' = {})
    BY <1>5, EndsEffect DEF Pipeline
  <2> QED
    BY <2>1, <2>2 DEF RunLeaves
<1>6. CASE Remember(r)
  <2>1. Gathered /\ UNCHANGED <<wiring, confirmed, task>>
    BY <1>6, RunGathered DEF Remember, externalVars
  <2>2. seen' = {} /\ claimed' = {}
    BY <1>6, EndsEffect DEF Remember
  <2> QED
    BY <2>1, <2>2 DEF RunLeaves
<1> QED
  BY <1>1, <1>2, <1>3, <1>4, <1>5, <1>6

\* The steps of the system, as far as the confirmations go.
LEMMA TaskSteps ==
    ASSUME VoiceTypeOK, LockOK, TasksOK, [VoiceNext]_voiceVars
    PROVE  \/ RunLeaves
           \/ \E w \in Wiring : \/ Claim(w) \/ Confirm(w)
                                \/ Discover(w) \/ Register(w) \/ UserWires(w)
<1>1. DeletePipeline \/ UNCHANGED voiceVars => RunLeaves
  BY DEF DeletePipeline, voiceVars, externalVars, taskVars, runVars, RunLeaves
<1> QED
  BY <1>1, RunLeavesThem, Steps

\* A pending discovery is not free.
LEMMA PendingIsNot ==
    ASSUME NEW w \in Pending("whisper") \cup Pending("piper")
    PROVE  w \in Wiring /\ wiring[w].is = "pending"
BY DEF Pending

\* Tasks are under way only where they will be gathered, and of flows seen.
LEMMA TasksStep ==
    ASSUME VoiceTypeOK, LockOK, TasksOK, [VoiceNext]_voiceVars
    PROVE  TasksOK'
<1> DEFINE Among == Subscribed \cup {"gather", "failed"}
           Kept(w) == w \in seen /\ wiring[w].is # "free"
<1>1. CASE RunLeaves
  <2>1. CASE UNCHANGED <<task, seen, claimed>>
    BY <1>1, <2>1 DEF RunLeaves, TasksOK, Gathered
  <2>2. CASE /\ \E r \in Run : voicePc'[r] \in Among
             /\ Started(Pending("whisper") \cup Pending("piper"))
    <3>1. \A w \in Wiring : task'[w] # "none" => w \in seen' /\ wiring[w].is # "free"
      <4> SUFFICES ASSUME NEW w \in Wiring, task'[w] # "none"
                   PROVE  w \in seen' /\ wiring[w].is # "free"
        OBVIOUS
      <4>1. Pending("whisper") \cup Pending("piper") \in SUBSET Wiring
        BY DEF Pending
      <4>2. /\ seen' = seen \cup (Pending("whisper") \cup Pending("piper"))
            /\ task'[w] = task[w] \/ w \in Pending("whisper") \cup Pending("piper")
        BY <2>2, <4>1, StartedEffect
      <4> QED
        BY <4>2, PendingIsNot DEF TasksOK
    <3> QED
      BY <1>1, <2>2, <3>1 DEF RunLeaves, TasksOK
  <2>3. CASE Gathered /\ UNCHANGED task /\ seen' = {}
    BY <2>3 DEF TasksOK, Gathered
  <2> QED
    BY <1>1, <2>1, <2>2, <2>3 DEF RunLeaves
<1>2. ASSUME NEW w \in Wiring, task[w] # "none", UNCHANGED voicePc, UNCHANGED seen,
             \A x \in Wiring : wiring'[x].is = "free" => wiring[x].is = "free",
             \A x \in Wiring : task[x] = "none" => task'[x] = "none"
      PROVE  TasksOK'
  <2>1. \E r \in Run : voicePc[r] \in Among
    BY <1>2 DEF TasksOK, Gathered
  <2> QED
    BY <1>2, <2>1 DEF TasksOK
<1>3. ASSUME NEW w \in Wiring, Claim(w)
      PROVE  TasksOK'
  <2>1. /\ task[w] # "none" /\ UNCHANGED <<voicePc, seen>>
        /\ \A x \in Wiring : wiring'[x].is = "free" => wiring[x].is = "free"
        /\ \A x \in Wiring : task[x] = "none" => task'[x] = "none"
    BY <1>3, ClaimEffect DEF runVars
  <2> QED
    BY <1>2, <2>1
<1>4. ASSUME NEW w \in Wiring, Confirm(w)
      PROVE  TasksOK'
  <2>1. /\ task[w] = "configure" /\ UNCHANGED <<voicePc, seen>>
        /\ task'[w] = "none"
        /\ \A x \in Wiring \ {w} : task'[x] = task[x]
        /\ \A x \in Wiring : \/ wiring'[x].is = wiring[x].is
                             \/ wiring'[x].is \in {"gone", "entry"}
    BY <1>4, ConfirmEffect DEF runVars
  <2>2. /\ \A x \in Wiring : wiring'[x].is = "free" => wiring[x].is = "free"
        /\ \A x \in Wiring : task[x] = "none" => task'[x] = "none"
    BY <2>1
  <2> QED
    BY <1>2, <2>1, <2>2
<1>5. ASSUME NEW w \in Wiring, Discover(w)
      PROVE  TasksOK'
  <2>1. /\ \A x \in Wiring : wiring'[x].is = "free" => wiring[x].is = "free"
        /\ wiring'[w].is # "free" /\ UNCHANGED voicePc
    BY <1>5, DiscoverEffect DEF runVars
  <2>2. CASE UNCHANGED <<seen, task>>
    BY <2>1, <2>2 DEF TasksOK, Gathered
  <2>3. CASE Listening /\ Started({w})
    <3>1. \E r \in Run : voicePc'[r] \in Among
      BY <2>1, <2>3 DEF Listening
    <3>2. /\ seen' = seen \cup {w}
          /\ \A x \in Wiring : task'[x] = task[x] \/ x = w
      BY <2>3, StartedEffect
    <3> QED
      BY <2>1, <3>1, <3>2 DEF TasksOK
  <2> QED
    BY <1>5, <2>2, <2>3, DiscoverEffect
<1>6. ASSUME NEW w \in Wiring, Register(w)
      PROVE  TasksOK'
  <2>1. /\ \A x \in Wiring : wiring'[x].is = wiring[x].is
        /\ UNCHANGED <<task, seen>>
        /\ \A r \in Run : \/ voicePc'[r] = voicePc[r]
                          \/ voicePc[r] = "wait" /\ voicePc'[r] = "appeared"
    BY <1>6, RegisterEffect
  <2>2. \A r \in Run : voicePc[r] \in Among => voicePc'[r] \in Among
    BY <2>1 DEF Subscribed
  <2> QED
    BY <2>1, <2>2 DEF TasksOK, Gathered
<1>7. ASSUME NEW w \in Wiring, UserWires(w)
      PROVE  TasksOK'
  <2>1. /\ \A x \in Wiring : wiring'[x].is = "free" => wiring[x].is = "free"
        /\ UNCHANGED <<task, seen, voicePc>>
    BY <1>7, UserEffect DEF runVars
  <2> QED
    BY <2>1 DEF TasksOK, Gathered
<1> QED
  BY <1>1, <1>3, <1>4, <1>5, <1>6, <1>7, TaskSteps

\* What the action confirmed is under the app's host name, and was pending.
LEMMA WiringStep ==
    ASSUME VoiceTypeOK, LockOK, TasksOK, WiringOK, [VoiceNext]_voiceVars
    PROVE  WiringOK'
<1>1. CASE RunLeaves
  BY <1>1 DEF RunLeaves, WiringOK
<1>2. ASSUME NEW w \in Wiring, Claim(w)
      PROVE  WiringOK'
  <2>1. /\ \A x \in Wiring \ {w} : wiring'[x] = wiring[x]
        /\ wiring'[w].byIp = wiring[w].byIp
        /\ wiring'[w].is = wiring[w].is \/ wiring'[w].is = "gone"
        /\ UNCHANGED confirmed
    BY <1>2, ClaimEffect
  <2> QED
    BY <2>1 DEF WiringOK
<1>3. ASSUME NEW w \in Wiring, Confirm(w)
      PROVE  WiringOK'
  <2>1. /\ \A x \in Wiring : wiring'[x].byIp = wiring[x].byIp
        /\ \A x \in Wiring : \/ wiring'[x].is = wiring[x].is
                             \/ wiring'[x].is \in {"gone", "entry"}
    BY <1>3, ConfirmEffect
  <2>2. \/ UNCHANGED confirmed
        \/ /\ confirmed' = confirmed \cup {w}
           /\ wiring[w].is = "pending" /\ wiring'[w].is = "entry"
    BY <1>3, ConfirmEffect
  <2> QED
    BY <2>1, <2>2 DEF WiringOK
<1>4. ASSUME NEW w \in Wiring, Discover(w)
      PROVE  WiringOK'
  <2>1. /\ wiring[w].is = "free"
        /\ \A x \in Wiring \ {w} : wiring'[x] = wiring[x]
        /\ wiring'[w].byIp = wiring[w].byIp
        /\ UNCHANGED confirmed
    BY <1>4, DiscoverEffect
  <2>2. w \notin confirmed /\ ~wiring[w].byIp
    BY <2>1 DEF WiringOK
  <2> QED
    BY <2>1, <2>2 DEF WiringOK
<1>5. ASSUME NEW w \in Wiring, Register(w)
      PROVE  WiringOK'
  BY <1>5, RegisterEffect DEF WiringOK
<1>6. ASSUME NEW w \in Wiring, UserWires(w)
      PROVE  WiringOK'
  <2>1. /\ wiring'[w].is \in {"entry", "disabled", "gone"}
        /\ wiring'[w].byIp = wiring[w].byIp
        /\ \A x \in Wiring \ {w} : wiring'[x] = wiring[x]
        /\ UNCHANGED confirmed
    BY <1>6, UserEffect
  <2> QED
    BY <2>1 DEF WiringOK
<1> QED
  BY <1>1, <1>2, <1>3, <1>4, <1>5, <1>6, TaskSteps

\* One confirmation of an app is under way at a time, and none where the action
\* has wired the app.
LEMMA ClaimsStep ==
    ASSUME VoiceTypeOK, LockOK, TasksOK, WiringOK, ClaimsOK, [VoiceNext]_voiceVars
    PROVE  ClaimsOK'
<1>1. CASE RunLeaves
  <2>1. CASE Gathered /\ UNCHANGED task
    BY <2>1 DEF ClaimsOK, Gathered
  <2>2. CASE UNCHANGED <<task, seen, claimed>>
    BY <1>1, <2>2 DEF RunLeaves, ClaimsOK, IsWired
  <2>3. CASE Started(Pending("whisper") \cup Pending("piper")) /\ UNCHANGED claimed
    <3>1. Pending("whisper") \cup Pending("piper") \in SUBSET Wiring
      BY DEF Pending
    <3>2. \A w \in Wiring : task'[w] = "configure" => task[w] = "configure"
      BY <2>3, <3>1, StartedEffect
    <3> QED
      BY <1>1, <2>3, <3>2 DEF RunLeaves, ClaimsOK, IsWired
  <2> QED
    BY <1>1, <2>1, <2>2, <2>3 DEF RunLeaves
<1>2. ASSUME NEW w \in Wiring, Claim(w)
      PROVE  ClaimsOK'
  <2>1. /\ \A x \in Wiring : wiring'[x].app = wiring[x].app
        /\ \A x \in Wiring : IsWired(x)' => IsWired(x)
        /\ \A x \in Wiring \ {w} : task'[x] = task[x]
        /\ UNCHANGED confirmed
    BY <1>2, ClaimEffect DEF IsWired
  <2>2. CASE task'[w] = "none" /\ UNCHANGED claimed
    BY <2>1, <2>2 DEF ClaimsOK, VoiceTypeOK
  <2>3. CASE /\ wiring[w].app \notin claimed
             /\ claimed' = claimed \cup {wiring[w].app}
             /\ \A v \in Wiring : wiring[v].app = wiring[w].app /\ IsWired(v) => wiring[v].byIp
    <3>1. \A v \in confirmed : wiring[v].app = wiring[w].app => ~IsWired(v)
      BY <2>3 DEF WiringOK, VoiceTypeOK
    <3>2. \A v \in Wiring : task[v] = "configure" => wiring[v].app # wiring[w].app
      BY <2>3 DEF ClaimsOK
    <3>3. confirmed \subseteq Wiring
      BY DEF VoiceTypeOK
    <3> SUFFICES ASSUME NEW x \in Wiring, task'[x] = "configure"
                 PROVE  /\ wiring'[x].app \in claimed'
                        /\ \A v \in Wiring : task'[v] = "configure" /\ wiring'[v].app = wiring'[x].app
                                             => v = x
                        /\ \A v \in confirmed' : wiring'[v].app = wiring'[x].app => ~IsWired(v)'
      BY DEF ClaimsOK
    <3>4. CASE x = w
      BY <2>1, <2>3, <3>1, <3>2, <3>3, <3>4
    <3>5. CASE x # w
      <4>1. task[x] = "configure"
        BY <2>1, <3>5
      <4>2. wiring[x].app \in claimed
        BY <4>1 DEF ClaimsOK
      <4>3. \A v \in Wiring : task[v] = "configure" /\ wiring[v].app = wiring[x].app => v = x
        BY <4>1 DEF ClaimsOK
      <4>4. \A v \in confirmed : wiring[v].app = wiring[x].app => ~IsWired(v)
        BY <4>1 DEF ClaimsOK
      <4> QED
        BY <2>1, <2>3, <3>3, <4>2, <4>3, <4>4
    <3> QED
      BY <3>4, <3>5
  <2> QED
    BY <1>2, <2>2, <2>3, ClaimEffect
<1>3. ASSUME NEW w \in Wiring, Confirm(w)
      PROVE  ClaimsOK'
  <2>1. /\ task[w] = "configure" /\ task'[w] = "none"
        /\ \A x \in Wiring \ {w} : task'[x] = task[x]
    BY <1>3, ConfirmEffect
  <2>2. /\ \A x \in Wiring : wiring'[x].app = wiring[x].app
        /\ \A x \in Wiring \ {w} : IsWired(x)' => IsWired(x)
    BY <1>3, ConfirmEffect DEF IsWired
  <2>3. confirmed' \subseteq confirmed \cup {w} /\ claimed \ {wiring[w].app} \subseteq claimed'
    BY <1>3, ConfirmEffect
  <2> SUFFICES ASSUME NEW x \in Wiring, task'[x] = "configure"
               PROVE  /\ wiring'[x].app \in claimed'
                      /\ \A v \in Wiring : task'[v] = "configure" /\ wiring'[v].app = wiring'[x].app
                                           => v = x
                      /\ \A v \in confirmed' : wiring'[v].app = wiring'[x].app => ~IsWired(v)'
    BY DEF ClaimsOK
  <2>4. task[x] = "configure" /\ x # w
    BY <2>1
  <2>5. /\ wiring[x].app \in claimed
        /\ \A v \in Wiring : task[v] = "configure" /\ wiring[v].app = wiring[x].app => v = x
        /\ \A v \in confirmed : wiring[v].app = wiring[x].app => ~IsWired(v)
    BY <2>4 DEF ClaimsOK
  <2>6. wiring[w].app # wiring[x].app
    BY <2>1, <2>4, <2>5
  <2>7. confirmed \subseteq Wiring
    BY DEF VoiceTypeOK
  <2> QED
    BY <2>1, <2>2, <2>3, <2>5, <2>6, <2>7
<1>4. ASSUME NEW w \in Wiring, Discover(w)
      PROVE  ClaimsOK'
  <2>1. /\ wiring[w].is = "free"
        /\ \A x \in Wiring \ {w} : wiring'[x] = wiring[x]
        /\ UNCHANGED <<claimed, confirmed>>
    BY <1>4, DiscoverEffect
  <2>2. w \notin confirmed /\ task[w] = "none" /\ confirmed \subseteq Wiring
    BY <2>1 DEF WiringOK, TasksOK, VoiceTypeOK
  <2>3. \A x \in Wiring : task'[x] = "configure" => task[x] = "configure" /\ x # w
    <3>1. CASE UNCHANGED <<seen, task>>
      BY <2>2, <3>1
    <3>2. CASE Started({w})
      BY <2>2, <3>2, StartedEffect
    <3> QED
      BY <1>4, <3>1, <3>2, DiscoverEffect
  <2> QED
    BY <2>1, <2>2, <2>3 DEF ClaimsOK, IsWired
<1>5. ASSUME NEW w \in Wiring, Register(w)
      PROVE  ClaimsOK'
  <2>1. /\ \A x \in Wiring : wiring'[x].app = wiring[x].app /\ wiring'[x].is = wiring[x].is
        /\ UNCHANGED <<task, claimed, confirmed>>
    BY <1>5, RegisterEffect
  <2> QED
    BY <2>1 DEF ClaimsOK, IsWired, VoiceTypeOK
<1>6. ASSUME NEW w \in Wiring, UserWires(w)
      PROVE  ClaimsOK'
  <2>1. /\ \A x \in Wiring : wiring'[x].app = wiring[x].app
        /\ \A x \in Wiring \ {w} : wiring'[x].is = wiring[x].is
        /\ UNCHANGED <<task, claimed, confirmed>>
    BY <1>6, UserEffect
  <2>2. w \in confirmed => (IsWired(w)' => IsWired(w))
    BY <1>6, UserEffect DEF WiringOK, IsWired
  <2>3. \A v \in confirmed : IsWired(v)' => IsWired(v)
    BY <2>1, <2>2 DEF IsWired, VoiceTypeOK
  <2>4. confirmed \subseteq Wiring
    BY DEF VoiceTypeOK
  <2> QED
    BY <2>1, <2>3, <2>4 DEF ClaimsOK
<1> QED
  BY <1>1, <1>2, <1>3, <1>4, <1>5, <1>6, TaskSteps

\* No app is wired twice: what is confirmed was claimed, while no entry that
\* the action made was there.
LEMMA WiredStep ==
    ASSUME VoiceTypeOK, LockOK, TasksOK, WiringOK, ClaimsOK, WiredOnce, [VoiceNext]_voiceVars
    PROVE  WiredOnce'
<1> DEFINE NoneIsNew == /\ UNCHANGED confirmed
                        /\ \A x \in confirmed : /\ wiring'[x].app = wiring[x].app
                                                /\ IsWired(x)' => IsWired(x)
<1>1. ASSUME NoneIsNew
      PROVE  WiredOnce'
  BY <1>1 DEF WiredOnce, IsWired
<1>2. confirmed \subseteq Wiring
  BY DEF VoiceTypeOK
<1>3. RunLeaves => NoneIsNew
  BY DEF RunLeaves, IsWired
<1>4. ASSUME NEW w \in Wiring, Claim(w)
      PROVE  NoneIsNew
  BY <1>2, <1>4, ClaimEffect DEF IsWired
<1>5. ASSUME NEW w \in Wiring, Discover(w)
      PROVE  NoneIsNew
  <2>1. /\ wiring[w].is = "free" /\ UNCHANGED confirmed
        /\ \A x \in Wiring \ {w} : wiring'[x] = wiring[x]
    BY <1>5, DiscoverEffect
  <2>2. w \notin confirmed
    BY <2>1 DEF WiringOK
  <2> QED
    BY <1>2, <2>1, <2>2 DEF IsWired
<1>6. ASSUME NEW w \in Wiring, Register(w)
      PROVE  NoneIsNew
  BY <1>2, <1>6, RegisterEffect DEF IsWired
<1>7. ASSUME NEW w \in Wiring, UserWires(w)
      PROVE  NoneIsNew
  <2>1. /\ wiring'[w].app = wiring[w].app /\ UNCHANGED confirmed
        /\ \A x \in Wiring \ {w} : wiring'[x] = wiring[x]
    BY <1>7, UserEffect
  <2>2. w \in confirmed => (IsWired(w)' => IsWired(w))
    BY <1>7, UserEffect DEF WiringOK, IsWired
  <2> QED
    BY <1>2, <2>1, <2>2 DEF IsWired
<1>8. ASSUME NEW w \in Wiring, Confirm(w)
      PROVE  WiredOnce'
  <2>1. /\ \A x \in Wiring : wiring'[x].app = wiring[x].app
        /\ \A x \in Wiring \ {w} : IsWired(x)' => IsWired(x)
    BY <1>8, ConfirmEffect DEF IsWired
  <2>2. CASE UNCHANGED confirmed
    <3>1. w \in confirmed => (IsWired(w)' => IsWired(w))
      BY <1>8, ConfirmEffect DEF WiringOK, IsWired
    <3> QED
      BY <1>1, <1>2, <2>1, <2>2, <3>1
  <2>3. CASE confirmed' = confirmed \cup {w} /\ wiring[w].is = "pending"
    <3>1. \A v \in confirmed : wiring[v].app = wiring[w].app => ~IsWired(v)
      BY <1>8, ConfirmEffect DEF ClaimsOK
    <3>2. w \notin confirmed
      BY <2>3 DEF WiringOK
    <3>3. \A v \in confirmed : wiring'[v].app = wiring'[w].app => ~IsWired(v)'
      BY <1>2, <2>1, <3>1, <3>2
    <3>4. \A v, x \in confirmed : /\ wiring'[v].app = wiring'[x].app
                                  /\ IsWired(v)' /\ IsWired(x)'
                                  => v = x
      BY <1>2, <2>1, <3>2 DEF WiredOnce, IsWired
    <3>5. \A v, x \in confirmed' : /\ wiring'[v].app = wiring'[x].app
                                   /\ IsWired(v)' /\ IsWired(x)'
                                   => v = x
      BY <2>3, <3>3, <3>4
    <3> QED
      BY <3>5 DEF WiredOnce, IsWired
  <2> QED
    BY <1>8, <2>2, <2>3, ConfirmEffect
<1> QED
  BY <1>1, <1>3, <1>4, <1>5, <1>6, <1>7, <1>8, TaskSteps

-----------------------------------------------------------------------------
(* The theorems. *)

VoiceInv == VoiceTypeOK /\ LockOK /\ TasksOK /\ WiringOK /\ ClaimsOK /\ PipelinesOK /\ WiredOnce

\* The initial states are safe.
LEMMA InvAtInit == VoiceInit => VoiceInv
<1> SUFFICES ASSUME VoiceInit
             PROVE  VoiceInv
  OBVIOUS
<1>1. VoiceTypeOK
  BY TypeAtInit
<1>2. LockOK
  BY DEF VoiceInit, LockOK, Inside, Subscribed, Ensuring
<1>3. TasksOK
  BY DEF VoiceInit, TasksOK, Gathered
<1>4. WiringOK
  BY WiringAtInit DEF VoiceInit, WiringOK
<1>5. ClaimsOK
  BY DEF VoiceInit, ClaimsOK
<1>6. PipelinesOK
  BY DEF VoiceInit, PipelinesOK
<1>7. WiredOnce
  BY DEF VoiceInit, WiredOnce
<1> QED
  BY <1>1, <1>2, <1>3, <1>4, <1>5, <1>6, <1>7 DEF VoiceInv

\* Every step keeps them so.
LEMMA InvStep == VoiceInv /\ [VoiceNext]_voiceVars => VoiceInv'
<1> SUFFICES ASSUME VoiceInv, [VoiceNext]_voiceVars
             PROVE  VoiceInv'
  OBVIOUS
<1> USE DEF VoiceInv
<1>1. VoiceTypeOK'
  BY TypeStep
<1>2. LockOK'
  BY LockStep
<1>3. TasksOK'
  BY TasksStep
<1>4. WiringOK'
  BY WiringStep
<1>5. ClaimsOK'
  BY ClaimsStep
<1>6. PipelinesOK'
  BY PipelinesStep
<1>7. WiredOnce'
  BY WiredStep
<1> QED
  BY <1>1, <1>2, <1>3, <1>4, <1>5, <1>6, <1>7

\* Every reachable state satisfies the invariant of the action.
LEMMA Invariance == VoiceSpec => []VoiceInv
BY InvAtInit, InvStep, PTL DEF VoiceSpec

\* The variables of the action keep to their types, whatever the calls, the
\* Supervisor, Wyoming and the user do.
THEOREM TypeCorrect == VoiceSpec => []VoiceTypeOK
<1>1. VoiceInv => VoiceTypeOK
  BY DEF VoiceInv
<1> QED
  BY <1>1, Invariance, PTL

\* Where the invariant holds there is at most one pipeline.
LEMMA OnePipeline ==
    ASSUME VoiceInv
    PROVE  Cardinality(pipelines) <= 1
<1>1. PICK p : pipelines \subseteq {p}
  BY DEF VoiceInv, PipelinesOK
<1>2. IsFiniteSet({p}) /\ Cardinality({p}) = 1
  BY FS_Singleton
<1>3. IsFiniteSet(pipelines) /\ Cardinality(pipelines) <= Cardinality({p})
  BY <1>1, <1>2, FS_Subset
<1> QED
  BY <1>2, <1>3

\* The action never wires an app a second time and never makes a second
\* pipeline, however many calls, discoveries and tasks are under way
\* (_async_confirm_discovery, _voice_lock, _async_create_pipeline).
THEOREM WiresOnce == VoiceSpec => []OneVoice
<1>1. VoiceInv => OneVoice
  BY OnePipeline DEF VoiceInv, OneVoice
<1> QED
  BY <1>1, Invariance, PTL

\* A confirmation that failed took only its own prompt.
LEMMA FailureStep ==
    ASSUME VoiceInv, [VoiceNext]_voiceVars, NEW w \in Wiring,
           task[w] = "configure", task'[w] = "none", wiring[w].app \notin claimed',
           NEW v \in Pending(wiring[w].app) \ {w}
    PROVE  wiring'[v].is = "pending"
<1> USE DEF VoiceInv
<1>1. ~RunLeaves
  <2>1. Pending("whisper") \cup Pending("piper") \in SUBSET Wiring
    BY DEF Pending
  <2>2. ~Started(Pending("whisper") \cup Pending("piper"))
    BY <2>1, StartedEffect
  <2> QED
    BY <2>2 DEF RunLeaves
<1>2. ASSUME NEW x \in Wiring, Claim(x)
      PROVE  FALSE
  BY <1>2, ClaimEffect
<1>3. ASSUME NEW x \in Wiring, Discover(x)
      PROVE  FALSE
  BY <1>3, DiscoverEffect, StartedEffect
<1>4. ASSUME NEW x \in Wiring, Register(x) \/ UserWires(x)
      PROVE  FALSE
  BY <1>4 DEF Register, UserWires
<1>5. PICK x \in Wiring : Confirm(x)
  BY <1>1, <1>2, <1>3, <1>4, TaskSteps
<1>6. x = w
  BY <1>5, ConfirmEffect
<1>7. wiring[w].app \in claimed
  BY DEF ClaimsOK
<1>8. \A y \in Wiring \ {w} : wiring'[y] = wiring[y]
  BY <1>5, <1>6, <1>7, ConfirmEffect
<1> QED
  BY <1>8 DEF Pending

\* A confirmation that raises leaves the app's other prompts to the user, who
\* can retry from them (_async_confirm_discovery).
THEOREM FailureTakesOnlyItsOwn == VoiceSpec => FailureLeavesPrompts
<1> DEFINE Leaves ==
      \A w \in Wiring :
         /\ task[w] = "configure" /\ task'[w] = "none"
         /\ wiring[w].app \notin claimed'
         => \A v \in Pending(wiring[w].app) \ {w} : wiring'[v].is = "pending"
<1>1. VoiceInv /\ [VoiceNext]_voiceVars => [Leaves]_voiceVars
  BY FailureStep
<1> QED
  BY <1>1, Invariance, PTL DEF VoiceSpec, FailureLeavesPrompts

=============================================================================
