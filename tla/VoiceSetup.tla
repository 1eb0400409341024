----------------------------- MODULE VoiceSetup -----------------------------
(***************************************************************************)
(* claude_ha.setup_voice (custom_components/claude_ha/voice.py, called by  *)
(* services.py): install and start Whisper and Piper, answer the Wyoming   *)
(* discoveries of the two, wait for their engines and wire them in one     *)
(* Assist pipeline.                                                        *)
(*                                                                         *)
(* Runs take turns under a lock; within a run, the confirmation of each    *)
(* discovery is a task of its own.  The Supervisor, Wyoming and its flows, *)
(* and what the user does to them meanwhile, are external.  A Wyoming flow *)
(* and the entry it becomes are one Wiring.                                *)
(***************************************************************************)
EXTENDS Naturals, FiniteSets

CONSTANTS
    Run,           \* calls of the action, each made once
    NoRun,         \* the lock is free
    Wiring,        \* Wyoming discovery flows and entries
    MaxPipelines   \* bound on pipelines made

ASSUME VoiceConstants == NoRun \notin Run /\ MaxPipelines \in Nat

\* The two apps, in the order in which they are set up.
VoiceApps == {"whisper", "piper"}

VARIABLES
    addon,       \* app -> what the Supervisor says of it
    wiring,      \* wiring -> its app, what it is now, its address, its engine
    confirmed,   \* the entries made by a confirmation of the action
    task,        \* wiring -> where its confirmation has got to
    seen,        \* the flows the run in the lock has started a task for
    claimed,     \* the apps whose discovery it is confirming, or has
    voicePc,     \* run -> the await it is at
    current,     \* run -> the app it is at
    knowsIp,     \* run -> the Supervisor told it that app's IP address
    engines,     \* run -> the apps whose engine it found
    wanted,      \* run -> the pipeline it was told to re-wire, or 0
    made,        \* run -> the pipeline it has, or 0
    voiceLock,   \* _voice_lock
    pipelines,   \* the pipelines of the action that are there
    remembered,  \* CONF_VOICE_PIPELINE_ID of the entry, or 0
    count        \* pipelines ever made

voiceVars == <<addon, wiring, confirmed, task, seen, claimed, voicePc, current,
               knowsIp, engines, wanted, made, voiceLock, pipelines, remembered, count>>
runVars == <<voicePc, current, knowsIp, engines, wanted, made, voiceLock>>
pipelineVars == <<pipelines, remembered, count>>

\* The awaits at which a run is subscribed to new flows.
Ensuring == {"info", "install", "start"}
Subscribed == Ensuring \cup {"hosts", "wait", "appeared"}
RunStages == Subscribed \cup {"idle", "lock", "failed", "gather", "pipeline",
                              "remember", "done"}
WiringStates == {"free", "pending", "entry", "disabled", "gone"}
NoWiring == [app |-> "whisper", is |-> "free", byIp |-> FALSE, engine |-> FALSE]

VoiceTypeOK ==
    /\ addon \in [VoiceApps -> {"absent", "stopped", "running"}]
    /\ wiring \in [Wiring -> [app : VoiceApps, is : WiringStates,
                              byIp : BOOLEAN, engine : BOOLEAN]]
    /\ confirmed \subseteq Wiring
    /\ task \in [Wiring -> {"none", "hosts", "configure"}]
    /\ seen \subseteq Wiring
    /\ claimed \subseteq VoiceApps
    /\ voicePc \in [Run -> RunStages]
    /\ current \in [Run -> VoiceApps]
    /\ knowsIp \in [Run -> BOOLEAN]
    /\ engines \in [Run -> SUBSET VoiceApps]
    /\ wanted \in [Run -> 0..MaxPipelines]
    /\ made \in [Run -> 0..MaxPipelines]
    /\ voiceLock \in Run \cup {NoRun}
    /\ pipelines \subseteq 1..MaxPipelines
    /\ remembered \in 0..MaxPipelines
    /\ count \in 0..MaxPipelines

\* What may be there from before: a discovery left by an earlier attempt, or
\* an entry the user made under the app's IP address.
Prompt(s) == [NoWiring EXCEPT !.is = "pending", !.app = s]
UsersEntry == [NoWiring EXCEPT !.is = "entry", !.byIp = TRUE, !.engine = TRUE]
Before == {Prompt(s) : s \in VoiceApps} \cup {UsersEntry}

VoiceInit ==
    /\ addon \in [VoiceApps -> {"absent", "running"}]
    /\ \/ wiring = [x \in Wiring |-> NoWiring]
       \/ \E w \in Wiring, old \in Before :
            wiring = [x \in Wiring |-> IF x = w THEN old ELSE NoWiring]
    /\ confirmed = {} /\ seen = {} /\ claimed = {}
    /\ task = [w \in Wiring |-> "none"]
    /\ voicePc = [r \in Run |-> "idle"]
    /\ current = [r \in Run |-> "whisper"]
    /\ knowsIp = [r \in Run |-> FALSE]
    /\ engines = [r \in Run |-> {}]
    /\ wanted = [r \in Run |-> 0] /\ made = [r \in Run |-> 0]
    /\ voiceLock = NoRun
    /\ pipelines = {} /\ remembered = 0 /\ count = 0

-----------------------------------------------------------------------------
(* Wyoming's flows and entries. *)

\* _own_discoveries: the pending discoveries of an app.
Pending(s) == {w \in Wiring : wiring[w].app = s /\ wiring[w].is = "pending"}

\* _wyoming_entries at an app's addresses, of which the IP may not be known.
EntriesOf(s, ip) ==
    {w \in Wiring : /\ wiring[w].app = s
                    /\ wiring[w].is \in {"entry", "disabled"}
                    /\ wiring[w].byIp => ip}

\* _wyoming_engine_ids.
EnginesOf(s, ip) == {w \in EntriesOf(s, ip) : wiring[w].engine}

\* _async_addon_hosts: whether the Supervisor tells the IP address; where no
\* entry is under it, that makes no difference.
IpAnswers(s) == IF \E w \in Wiring : wiring[w].app = s /\ wiring[w].byIp
                THEN BOOLEAN ELSE {FALSE}

\* The run that listens for new flows (_on_flow).
Listening == \E r \in Run : voicePc[r] \in Subscribed

\* The tasks started for flows that were not seen: each goes up to its await.
Started(flows) ==
    /\ seen' = seen \cup flows
    /\ task' = [w \in Wiring |-> IF w \in flows \ seen THEN "hosts" ELSE task[w]]

\* The Supervisor discovers a running app, again after a reinstallation.
Discover(w) ==
    /\ wiring[w].is = "free"
    /\ \E s \in VoiceApps :
         /\ addon[s] = "running"
         /\ wiring' = [wiring EXCEPT ![w].app = s, ![w].is = "pending"]
    /\ IF Listening THEN Started({w}) ELSE UNCHANGED <<seen, task>>
    /\ UNCHANGED <<addon, confirmed, claimed, runVars, pipelineVars>>

\* The engine of an entry registers, and wakes the run that waits for it.
Register(w) ==
    /\ wiring[w].is = "entry" /\ ~wiring[w].engine
    /\ wiring' = [wiring EXCEPT ![w].engine = TRUE]
    /\ voicePc' = [r \in Run |->
         IF /\ voicePc[r] = "wait" /\ current[r] = wiring[w].app
            /\ wiring[w].byIp => knowsIp[r]
         THEN "appeared" ELSE voicePc[r]]
    /\ UNCHANGED <<addon, confirmed, task, seen, claimed, current, knowsIp, engines,
                   wanted, made, voiceLock, pipelineVars>>

\* The user confirms or dismisses a discovery, disables or deletes an entry.
UserWires(w) ==
    /\ \/ /\ wiring[w].is = "pending"
          /\ \E is \in {"entry", "gone"} : wiring' = [wiring EXCEPT ![w].is = is]
       \/ /\ wiring[w].is = "entry"
          /\ \E is \in {"disabled", "gone"} :
               wiring' = [wiring EXCEPT ![w].is = is, ![w].engine = FALSE]
    /\ UNCHANGED <<addon, confirmed, task, seen, claimed, runVars, pipelineVars>>

-----------------------------------------------------------------------------
(* The confirmation of one discovery (_async_confirm_discovery). *)

TaskEnds(w) == task' = [task EXCEPT ![w] = "none"]

\* Bug: the app's entries are not looked up after the Supervisor has answered.
MutAlreadyWired(s, ip) == FALSE

\* The app has an entry, under an address it is known by.
AlreadyWired(s, ip) == EntriesOf(s, ip) # {}

\* The Supervisor has answered with the app's addresses, or not: the discovery
\* is dismissed, left alone, or claimed and confirmed.
Claim(w) ==
    LET s == wiring[w].app
    IN  /\ task[w] = "hosts"
        /\ \E ip \in IpAnswers(s) :
             \/ /\ AlreadyWired(s, ip)
                /\ wiring' = [wiring EXCEPT ![w].is = IF @ = "pending" THEN "gone" ELSE @]
                /\ TaskEnds(w)
                /\ UNCHANGED claimed
             \/ /\ ~AlreadyWired(s, ip)
                /\ IF s \in claimed
                   THEN TaskEnds(w) /\ UNCHANGED claimed
                   ELSE /\ claimed' = claimed \cup {s}
                        /\ task' = [task EXCEPT ![w] = "configure"]
                /\ UNCHANGED wiring
        /\ UNCHANGED <<addon, confirmed, seen, runVars, pipelineVars>>

\* Bug: the other prompts go before it is known how this one ends.
MutOthers(w, answered) == TRUE

\* The other prompts of the app go only after an answer without an error.
Others(w, answered) == answered

\* async_configure returns (with an entry, or an abort, or the form again), or
\* raises: the flow is unknown, or Wyoming failed.
Confirm(w) ==
    LET s == wiring[w].app
    IN  /\ task[w] = "configure"
        /\ \E is \in {"entry", "gone", "pending"}, answered \in BOOLEAN :
             /\ IF wiring[w].is # "pending" THEN is = "gone" /\ ~answered
                ELSE is = "entry" => answered
             /\ wiring' = [x \in Wiring |->
                  IF x = w THEN IF wiring[w].is = "pending"
                                THEN [wiring[w] EXCEPT !.is = is] ELSE wiring[w]
                  ELSE IF x \in Pending(s) /\ Others(w, answered)
                  THEN [wiring[x] EXCEPT !.is = "gone"] ELSE wiring[x]]
             /\ confirmed' = IF is = "entry" THEN confirmed \cup {w} ELSE confirmed
             /\ claimed' = IF answered THEN claimed ELSE claimed \ {s}
        /\ TaskEnds(w)
        /\ UNCHANGED <<addon, seen, runVars, pipelineVars>>

-----------------------------------------------------------------------------
(* A run of the action. *)

GoVoice(r, where) == voicePc' = [voicePc EXCEPT ![r] = where]
externalVars == <<addon, wiring, confirmed>>
taskVars == <<task, seen, claimed>>

CallVoice(r) ==
    /\ voicePc[r] = "idle"
    /\ GoVoice(r, "lock")
    /\ UNCHANGED <<externalVars, taskVars, current, knowsIp, engines, wanted, made,
                   voiceLock, pipelineVars>>

\* Bug: the discoveries are confirmed outside the lock.
MutMayEnter == TRUE

MayEnter == voiceLock = NoRun

Acquire(r) ==
    /\ voicePc[r] = "lock" /\ MayEnter
    /\ voiceLock' = r
    /\ GoVoice(r, "info")
    /\ wanted' = [wanted EXCEPT ![r] = remembered]
    /\ UNCHANGED <<externalVars, taskVars, current, knowsIp, engines, made, pipelineVars>>

\* The step after an app's last: the next app, or the engines; the prompts an
\* earlier attempt left are answered then.
Ensured(r) ==
    IF current[r] = "whisper"
    THEN /\ current' = [current EXCEPT ![r] = "piper"]
         /\ GoVoice(r, "info")
         /\ UNCHANGED <<seen, task>>
    ELSE /\ current' = [current EXCEPT ![r] = "whisper"]
         /\ GoVoice(r, "hosts")
         /\ Started(Pending("whisper") \cup Pending("piper"))

\* _async_ensure_addon: asked for its state, installed and started as that
\* requires; that its options are set on the way tells nothing apart.
Ensure(r) ==
    LET s == current[r]
    IN  /\ \/ /\ voicePc[r] = "info" /\ addon[s] # "running"
              /\ GoVoice(r, IF addon[s] = "absent" THEN "install" ELSE "start")
              /\ UNCHANGED <<addon, seen, task, current>>
           \/ /\ voicePc[r] = "install"
              /\ addon' = [addon EXCEPT ![s] = "stopped"]
              /\ GoVoice(r, "start")
              /\ UNCHANGED <<seen, task, current>>
           \/ /\ voicePc[r] = "info" /\ addon[s] = "running"
              /\ Ensured(r)
              /\ UNCHANGED addon
           \/ /\ voicePc[r] = "start"
              /\ addon' = [addon EXCEPT ![s] = "running"]
              /\ Ensured(r)
        /\ UNCHANGED <<wiring, confirmed, claimed, knowsIp, engines, wanted, made,
                       voiceLock, pipelineVars>>

\* The run goes on to the next app's engine, or is through.
NextEngine(r) ==
    IF current[r] = "whisper"
    THEN current' = [current EXCEPT ![r] = "piper"] /\ GoVoice(r, "hosts")
    ELSE UNCHANGED current /\ GoVoice(r, "gather")

Disabled(found) == found # {} /\ \A w \in found : wiring[w].is = "disabled"

\* _async_wait_for_engine: it is there, it never will be (the entry is
\* disabled), or the run waits.
FindEngine(r) ==
    LET s == current[r]
    IN  /\ voicePc[r] = "hosts"
        /\ \E ip \in IpAnswers(s) :
             LET found == EntriesOf(s, ip)
             IN  /\ knowsIp' = [knowsIp EXCEPT ![r] = ip]
                 /\ \/ /\ Disabled(found)
                       /\ GoVoice(r, "failed")
                       /\ UNCHANGED <<current, engines>>
                    \/ /\ ~Disabled(found) /\ EnginesOf(s, ip) # {}
                       /\ engines' = [engines EXCEPT ![r] = @ \cup {s}]
                       /\ NextEngine(r)
                    \/ /\ ~Disabled(found) /\ EnginesOf(s, ip) = {}
                       /\ GoVoice(r, "wait")
                       /\ UNCHANGED <<current, engines>>
        /\ UNCHANGED <<externalVars, taskVars, wanted, made, voiceLock, pipelineVars>>

\* The wait is over: an engine appeared, and is still there or not (the look at
\* the registry then raises), or ENGINE_DISCOVERY_TIMEOUT has passed.
WaitEnds(r) ==
    LET s == current[r]
    IN  /\ \/ /\ voicePc[r] = "appeared"
              /\ IF EnginesOf(s, knowsIp[r]) = {}
                 THEN GoVoice(r, "failed") /\ UNCHANGED <<current, engines>>
                 ELSE /\ engines' = [engines EXCEPT ![r] = @ \cup {s}]
                      /\ NextEngine(r)
           \/ /\ voicePc[r] = "wait"
              /\ NextEngine(r)
              /\ UNCHANGED engines
        /\ UNCHANGED <<externalVars, taskVars, knowsIp, wanted, made, voiceLock,
                       pipelineVars>>

\* The Supervisor refuses a step.
EnsureFails(r) ==
    /\ voicePc[r] \in Ensuring
    /\ GoVoice(r, "failed")
    /\ UNCHANGED <<externalVars, taskVars, current, knowsIp, engines, wanted, made,
                   voiceLock, pipelineVars>>

\* Bug: a run that fails does not let the lock go.
MutHolderAfter(r) == IF voicePc[r] = "failed" THEN r ELSE NoRun

\* async with: the lock is let go however the run ends.
HolderAfter(r) == NoRun

\* The run ends; what it kept in local variables is gone.
Ends(r) ==
    /\ GoVoice(r, "done")
    /\ voiceLock' = HolderAfter(r)
    /\ current' = [current EXCEPT ![r] = "whisper"]
    /\ knowsIp' = [knowsIp EXCEPT ![r] = FALSE]
    /\ engines' = [engines EXCEPT ![r] = {}]
    /\ wanted' = [wanted EXCEPT ![r] = 0]
    /\ made' = [made EXCEPT ![r] = 0]
    /\ seen' = {} /\ claimed' = {}

\* The finally: every confirmation has ended, however the run did.
Gathered == \A w \in Wiring : task[w] = "none"

Gather(r) ==
    /\ voicePc[r] \in {"gather", "failed"}
    /\ Gathered
    /\ IF voicePc[r] = "gather" /\ engines[r] = VoiceApps
       THEN /\ GoVoice(r, "pipeline")
            /\ UNCHANGED <<seen, claimed, current, knowsIp, engines, wanted, made, voiceLock>>
       ELSE Ends(r)
    /\ UNCHANGED <<externalVars, task, pipelineVars>>

\* _async_create_pipeline: ours is updated in place, else one is made; without
\* assist_pipeline, or if its store refuses, there is none.
Pipeline(r) ==
    /\ voicePc[r] = "pipeline"
    /\ \/ Ends(r) /\ UNCHANGED <<pipelines, count>>
       \/ /\ \/ /\ wanted[r] \in pipelines
                /\ made' = [made EXCEPT ![r] = wanted[r]]
                /\ UNCHANGED <<pipelines, count>>
             \/ /\ wanted[r] \notin pipelines /\ count < MaxPipelines
                /\ count' = count + 1
                /\ pipelines' = pipelines \cup {count + 1}
                /\ made' = [made EXCEPT ![r] = count + 1]
          /\ GoVoice(r, "remember")
          /\ UNCHANGED <<seen, claimed, current, knowsIp, engines, wanted, voiceLock>>
    /\ UNCHANGED <<externalVars, task, remembered>>

\* _async_handle_setup_voice: the entry remembers the pipeline, in the lock.
Remember(r) ==
    /\ voicePc[r] = "remember"
    /\ remembered' = made[r]
    /\ Ends(r)
    /\ UNCHANGED <<externalVars, task, pipelines, count>>

\* The user deletes the pipeline.
DeletePipeline ==
    /\ \E p \in pipelines : pipelines' = pipelines \ {p}
    /\ UNCHANGED <<externalVars, taskVars, runVars, remembered, count>>

-----------------------------------------------------------------------------

VoiceRun(r) ==
    \/ Acquire(r) \/ Ensure(r) \/ EnsureFails(r) \/ FindEngine(r) \/ WaitEnds(r)
    \/ Gather(r) \/ Pipeline(r) \/ Remember(r)

VoiceTask(w) == Claim(w) \/ Confirm(w)

VoiceNext ==
    \/ \E r \in Run : CallVoice(r) \/ VoiceRun(r)
    \/ \E w \in Wiring : VoiceTask(w) \/ Discover(w) \/ Register(w) \/ UserWires(w)
    \/ DeletePipeline

\* The event loop runs what can run: the Supervisor's and Wyoming's answers
\* and the timeout come, the lock is handed on. Nothing is said of whose turn
\* it is, and nothing of the user or of an engine that is to appear.
VoiceFairness ==
    /\ WF_voiceVars(\E r \in Run : VoiceRun(r))
    /\ WF_voiceVars(\E w \in Wiring : VoiceTask(w))

VoiceSpec == VoiceInit /\ [][VoiceNext]_voiceVars /\ VoiceFairness

-----------------------------------------------------------------------------
(* Properties. *)

\* However often the action runs, at once or one after the other, and fails in
\* between, it never wires an app twice: not by two discoveries of it confirmed
\* at once, nor by a stale one ("an app that already has an entry is never wired
\* a second time", _async_confirm_discovery) ...
WiredOnce ==
    \A v, w \in confirmed :
        /\ wiring[v].app = wiring[w].app
        /\ wiring[v].is \in {"entry", "disabled"}
        /\ wiring[w].is \in {"entry", "disabled"}
        => v = w

\* ... and there is one pipeline of its making (_voice_lock,
\* _async_create_pipeline).
OneVoice == WiredOnce /\ Cardinality(pipelines) <= 1

\* A confirmation that raises takes no prompt of the app away but its own: the
\* user can retry from the others (_async_confirm_discovery).
FailureLeavesPrompts ==
    [][\A w \in Wiring :
         /\ task[w] = "configure" /\ task'[w] = "none"
         /\ wiring[w].app \notin claimed'
         => \A v \in Pending(wiring[w].app) \ {w} : wiring'[v].is = "pending"]_voiceVars

\* However many calls there are, and whatever fails, vanishes or never appears,
\* the moment comes again when none of them waits for the lock or has it
\* (async_setup_voice_pipeline, its finally and its bounded waits).
EveryRunEnds == []<>(\A r \in Run : voicePc[r] \in {"idle", "done"})
=============================================================================
