------------------------------ MODULE ConfigFlow ------------------------------
(***************************************************************************)
(* Setting up an entry (custom_components/claude_ha/config_flow.py): flows *)
(* of the user and of Supervisor discovery, side by side, for one engine   *)
(* whose apps may come from several repositories.                          *)
(*                                                                         *)
(* An app hands out a token, a new one when it is installed anew, and      *)
(* announces it when it starts. The Supervisor's store, the app's answers  *)
(* and Home Assistant's flow manager are external: it ends the flows of an *)
(* app for which an entry is made, and drops what an ended flow returns.   *)
(***************************************************************************)
EXTENDS Naturals, FiniteSets

CONSTANTS
    Slug,      \* the slugs an app of the engine may have
    NoSlug,    \* a flow that has not settled on one
    Flow,      \* flows, each begun once
    MaxToken   \* bound on tokens handed out by one app

ASSUME FlowConstants == NoSlug \notin Slug /\ MaxToken \in Nat \ {0} /\ Slug \cap Flow = {}

\* Who an entry is of: a flow, or the one of an app from before.
Maker == Flow \cup Slug

VARIABLES
    known,      \* the apps of the store, with the engine's repository or without
    slugState,  \* slug -> "absent", "stopped" or "running"
    token,      \* slug -> the token the app takes now, 0 before it has one
    announced,  \* slug -> the token it announced last
    swallowed,  \* the apps whose last announcement came while a flow was at them
    flowPc,     \* flow -> the form it shows, or the await it is at
    flowSlug,   \* _addon_slug
    details,    \* _discovery: the token of it, or 0
    uniqueId,   \* the unique id the flow manager knows the flow by
    reply,      \* the app's answer to the test
    choices,    \* _addon_choices
    entryOf     \* flow -> the app and token of the entry it made, if any; and
                \* slug -> the entry that was there before

appVars == <<known, slugState, token, announced>>
flowVars == <<appVars, swallowed, flowPc, flowSlug, details, uniqueId, reply,
              choices, entryOf>>

Forms == {"engine", "add", "pick", "use", "confirm"}
FlowAwaits == {"resolve", "adding", "info", "install", "start", "details", "told", "test"}
NoEntry == [slug |-> NoSlug, token |-> 0]

FlowTypeOK ==
    /\ known \subseteq Slug
    /\ slugState \in [Slug -> {"absent", "stopped", "running"}]
    /\ token \in [Slug -> 0..MaxToken]
    /\ announced \in [Slug -> 0..MaxToken]
    /\ swallowed \subseteq Slug
    /\ flowPc \in [Flow -> Forms \cup FlowAwaits \cup {"free", "ended"}]
    /\ flowSlug \in [Flow -> Slug \cup {NoSlug}]
    /\ details \in [Flow -> 0..MaxToken]
    /\ uniqueId \in [Flow -> Slug \cup {NoSlug}]
    /\ reply \in [Flow -> {"none", "ok", "error"}]
    /\ choices \in [Flow -> SUBSET Slug]
    /\ entryOf \in [Maker -> [slug : Slug \cup {NoSlug}, token : 0..MaxToken]]

\* Apps may run, and those that do may have their entry.
FlowInit ==
    /\ known \in SUBSET Slug
    /\ slugState \in [Slug -> {"absent", "running"}]
    /\ \A s \in Slug : slugState[s] = "running" => s \in known
    /\ token = [s \in Slug |-> IF slugState[s] = "running" THEN 1 ELSE 0]
    /\ announced = token
    /\ swallowed = {}
    /\ flowPc = [f \in Flow |-> "free"]
    /\ flowSlug = [f \in Flow |-> NoSlug]
    /\ details = [f \in Flow |-> 0]
    /\ uniqueId = [f \in Flow |-> NoSlug]
    /\ reply = [f \in Flow |-> "none"]
    /\ choices = [f \in Flow |-> {}]
    /\ \E before \in SUBSET {s \in Slug : slugState[s] = "running"} :
         entryOf = [m \in Maker |-> IF m \in before THEN [slug |-> m, token |-> 1] ELSE NoEntry]

-----------------------------------------------------------------------------
(* The flow manager and the store. *)

Configured == {entryOf[m].slug : m \in Maker} \ {NoSlug}
InProgress(f) == flowPc[f] \notin {"free", "ended"}

\* async_find_addon_slugs: installed apps, or else those of the store.
Found == LET installed == {s \in Slug : slugState[s] # "absent"}
         IN  IF installed # {} THEN installed ELSE known

GoFlow(f, where) == flowPc' = [flowPc EXCEPT ![f] = where]

\* The flow ends: nothing of it is kept.
Dropped(f, record, nothing) == record' = [record EXCEPT ![f] = nothing]
EndFlow(f) ==
    /\ GoFlow(f, "ended")
    /\ Dropped(f, flowSlug, NoSlug) /\ Dropped(f, details, 0)
    /\ Dropped(f, uniqueId, NoSlug) /\ Dropped(f, reply, "none")
    /\ Dropped(f, choices, {})

\* The flow goes on with what it has.
KeepsAll == UNCHANGED <<flowSlug, details, uniqueId, reply, choices>>
Moves(f, where) == GoFlow(f, where) /\ KeepsAll

-----------------------------------------------------------------------------
(* A flow of the user. *)

\* async_step_user shows the engines.
UserFlow(f) ==
    /\ flowPc[f] = "free"
    /\ Moves(f, "engine")
    /\ UNCHANGED <<appVars, swallowed, entryOf>>

\* The engine is chosen: its apps are looked for.
ChooseEngine(f) ==
    /\ flowPc[f] = "engine"
    /\ Moves(f, "resolve")
    /\ UNCHANGED <<appVars, swallowed, entryOf>>

Settle(f, s) ==
    /\ flowSlug' = [flowSlug EXCEPT ![f] = s]
    /\ choices' = [choices EXCEPT ![f] = {}]
    /\ GoFlow(f, "use")
    /\ UNCHANGED <<details, uniqueId, reply>>

\* _async_resolve_slug, again after the repository was added: then no app at
\* all aborts the flow. Apps that have an entry are left out of a choice; if
\* none is left the flow ends, but after the repository was added the step
\* fails on that answer, which has no step_id, and the form stays.
Resolve(f) ==
    LET open == Found \ Configured
    IN  /\ flowPc[f] \in {"resolve", "adding"}
        /\ \/ Found = {} /\ IF flowPc[f] = "adding" THEN EndFlow(f) ELSE Moves(f, "add")
           \/ \E s \in Slug : Found = {s} /\ Settle(f, s)
           \/ /\ Cardinality(Found) > 1 /\ open = {}
              /\ IF flowPc[f] = "adding" THEN Moves(f, "add") ELSE EndFlow(f)
           \/ \E s \in Slug : Cardinality(Found) > 1 /\ open = {s} /\ Settle(f, s)
           \/ /\ Cardinality(open) > 1
              /\ choices' = [choices EXCEPT ![f] = open]
              /\ GoFlow(f, "pick")
              /\ UNCHANGED <<flowSlug, details, uniqueId, reply>>
        /\ UNCHANGED <<appVars, swallowed, entryOf>>

\* async_step_add_repository: refused, failed, or its apps are in the store.
AddRepository(f) ==
    /\ flowPc[f] = "add"
    /\ \/ EndFlow(f) /\ UNCHANGED known
       \/ \E apps \in SUBSET Slug : known' = known \cup apps /\ Moves(f, "adding")
    /\ UNCHANGED <<slugState, token, announced, swallowed, entryOf>>

Pick(f) ==
    /\ flowPc[f] = "pick"
    /\ \E s \in choices[f] : Settle(f, s)
    /\ UNCHANGED <<appVars, swallowed, entryOf>>

-----------------------------------------------------------------------------
(* A flow of discovery, and the step both go through. *)

\* Bug: the slug of the announcement is stored as its token.
MutUpdatedKey(record, t) == [record EXCEPT !.token = record.slug]

\* _abort_if_unique_id_configured(updates=...).
Updated(record, t) == [record EXCEPT !.token = t]

\* async_step_hassio: the announcement updates the entry of the app, is
\* dropped while a flow has the app's unique id, or becomes a flow.
Announce(s) ==
    /\ slugState[s] = "running" /\ token[s] > 0
    /\ announced' = [announced EXCEPT ![s] = token[s]]
    /\ IF \E f \in Flow : InProgress(f) /\ uniqueId[f] = s
       THEN /\ swallowed' = swallowed \cup {s}
            /\ UNCHANGED flowPc /\ UNCHANGED entryOf /\ KeepsAll
       ELSE IF s \in Configured
       THEN /\ entryOf' = [m \in Maker |-> IF entryOf[m].slug = s
                                           THEN Updated(entryOf[m], token[s])
                                           ELSE entryOf[m]]
            /\ swallowed' = swallowed \ {s}
            /\ UNCHANGED flowPc /\ KeepsAll
       ELSE /\ \E f \in Flow :
                 /\ flowPc[f] = "free"
                 /\ flowSlug' = [flowSlug EXCEPT ![f] = s]
                 /\ details' = [details EXCEPT ![f] = token[s]]
                 /\ uniqueId' = [uniqueId EXCEPT ![f] = s]
                 /\ GoFlow(f, "confirm")
            /\ swallowed' = swallowed \ {s}
            /\ UNCHANGED <<reply, choices, entryOf>>
    /\ UNCHANGED <<known, slugState, token>>

\* async_step_hassio_confirm, or async_step_on_supervisor with a yes or a no.
UseApp(f) ==
    /\ flowPc[f] \in {"confirm", "use"}
    /\ \/ Moves(f, "info")
       \/ flowPc[f] = "use" /\ EndFlow(f)
    /\ UNCHANGED <<appVars, swallowed, entryOf>>

\* The app's state is read, then it is installed and started; each may fail.
Prepare(f) ==
    LET s == flowSlug[f]
    IN  /\ \/ /\ flowPc[f] = "info"
              /\ Moves(f, CASE slugState[s] = "running" -> "details"
                            [] slugState[s] = "stopped" -> "start"
                            [] slugState[s] = "absent" -> "install")
              /\ UNCHANGED <<slugState, token>>
           \/ /\ flowPc[f] = "install" /\ s \in known
              /\ \/ /\ slugState[s] = "absent" /\ token[s] < MaxToken
                    /\ slugState' = [slugState EXCEPT ![s] = "stopped"]
                    /\ token' = [token EXCEPT ![s] = @ + 1]
                 \/ slugState[s] # "absent" /\ UNCHANGED <<slugState, token>>
              /\ Moves(f, "start")
           \/ /\ flowPc[f] = "start" /\ slugState[s] # "absent"
              /\ slugState' = [slugState EXCEPT ![s] = "running"]
              /\ Moves(f, "details")
              /\ UNCHANGED token
           \/ /\ flowPc[f] \in {"info", "install", "start"}
              /\ EndFlow(f)
              /\ UNCHANGED <<slugState, token>>
        /\ UNCHANGED <<known, announced, swallowed, entryOf>>

-----------------------------------------------------------------------------
(* async_step_finish. *)

\* The details come from discovery, or from the app's options; or the flow ends.
ReadDetails(f) ==
    LET s == flowSlug[f]
    IN  /\ flowPc[f] = "details"
        /\ \/ details[f] > 0 /\ Moves(f, "told")
           \/ /\ details[f] = 0
              /\ \E t \in {announced[s], token[s]} \ {0} : details' = [details EXCEPT ![f] = t]
              /\ GoFlow(f, "told")
              /\ UNCHANGED <<flowSlug, uniqueId, reply, choices>>
           \/ details[f] = 0 /\ EndFlow(f)
        /\ UNCHANGED <<appVars, swallowed, entryOf>>

\* Bug: the flow manager is not told which app the flow is for.
MutUniqueOf(f) == NoSlug

\* async_set_unique_id, whoever else is at the same app.
UniqueOf(f) == flowSlug[f]

\* Bug: the app's entry takes over the details of the flow that ends.
MutLeft(f) == [m \in Maker |-> IF entryOf[m].slug = flowSlug[f]
                               THEN [entryOf[m] EXCEPT !.token = details[f]]
                               ELSE entryOf[m]]

\* _abort_if_unique_id_configured: the app's entry stays as it is.
Left(f) == entryOf

\* The flow ends where the app has an entry by now; else the app is asked.
Identify(f) ==
    /\ flowPc[f] = "told"
    /\ \/ /\ UniqueOf(f) \in Configured
          /\ entryOf' = Left(f)
          /\ EndFlow(f)
       \/ /\ UniqueOf(f) \notin Configured
          /\ uniqueId' = [uniqueId EXCEPT ![f] = UniqueOf(f)]
          /\ GoFlow(f, "test")
          /\ UNCHANGED <<flowSlug, details, reply, choices, entryOf>>
    /\ UNCHANGED <<appVars, swallowed>>

\* The app answers the test: only where its token is known, or with an error
\* (no answer, another engine) at any time.
AppReplies(f) ==
    /\ flowPc[f] = "test" /\ reply[f] = "none"
    /\ \E r \in {"ok", "error"} :
         /\ r = "ok" => /\ slugState[flowSlug[f]] = "running"
                        /\ details[f] = token[flowSlug[f]]
         /\ reply' = [reply EXCEPT ![f] = r]
    /\ UNCHANGED <<appVars, swallowed, flowPc, flowSlug, details, uniqueId, choices,
                   entryOf>>

\* The entry is made, and other flows of the same unique id end; or none is.
CreateEntry(f) ==
    LET ended == {f} \cup {g \in Flow : /\ InProgress(g) /\ uniqueId[f] # NoSlug
                                        /\ uniqueId[g] = uniqueId[f]}
        without(record, nothing) == [g \in Flow |-> IF g \in ended THEN nothing ELSE record[g]]
    IN  /\ flowPc[f] = "test"
        /\ \/ /\ reply[f] = "ok"
              /\ entryOf' = [entryOf EXCEPT ![f] = [slug |-> flowSlug[f], token |-> details[f]]]
              /\ flowPc' = without(flowPc, "ended")
              /\ flowSlug' = without(flowSlug, NoSlug)
              /\ details' = without(details, 0)
              /\ uniqueId' = without(uniqueId, NoSlug)
              /\ reply' = without(reply, "none")
              /\ choices' = without(choices, {})
           \/ /\ reply[f] = "error"
              /\ EndFlow(f)
              /\ UNCHANGED entryOf
        /\ UNCHANGED <<appVars, swallowed>>

-----------------------------------------------------------------------------
(* The user. *)

\* The user closes a form.
CloseForm(f) ==
    /\ flowPc[f] \in Forms
    /\ EndFlow(f)
    /\ UNCHANGED <<appVars, swallowed, entryOf>>

\* The user removes an entry: an announcement after that makes a flow again.
RemoveEntry(m) ==
    /\ entryOf[m] # NoEntry
    /\ entryOf' = [entryOf EXCEPT ![m] = NoEntry]
    /\ swallowed' = swallowed \ {entryOf[m].slug}
    /\ UNCHANGED <<appVars, flowPc>> /\ KeepsAll

\* An app is given a new token, or is removed.
AppChanges(s) ==
    /\ \/ /\ slugState[s] = "running" /\ token[s] < MaxToken
          /\ token' = [token EXCEPT ![s] = @ + 1]
          /\ UNCHANGED slugState
       \/ /\ slugState[s] # "absent"
          /\ slugState' = [slugState EXCEPT ![s] = "absent"]
          /\ UNCHANGED token
    /\ UNCHANGED <<known, announced, swallowed, flowPc, entryOf>> /\ KeepsAll

FlowNext ==
    \/ \E f \in Flow :
         \/ UserFlow(f) \/ ChooseEngine(f) \/ Resolve(f) \/ AddRepository(f) \/ Pick(f)
         \/ UseApp(f) \/ Prepare(f) \/ ReadDetails(f) \/ Identify(f) \/ AppReplies(f)
         \/ CreateEntry(f) \/ CloseForm(f)
    \/ \E m \in Maker : RemoveEntry(m)
    \/ \E s \in Slug : Announce(s) \/ AppChanges(s)

FlowSpec == FlowInit /\ [][FlowNext]_flowVars

-----------------------------------------------------------------------------
(* Properties. *)

\* However many flows of the user and of discovery are at an app, it gets one
\* entry (_abort_if_unique_id_configured, async_step_finish).
OneEntryPerApp ==
    \A m, n \in Maker : entryOf[m].slug # NoSlug /\ entryOf[m].slug = entryOf[n].slug => m = n

\* What an app announced reaches its entry, and no flow that was under way puts
\* older details back (async_step_hassio). An announcement that came while a
\* flow had the app's unique id is lost to the entry that is made, until the app
\* announces itself again.
EntryFollowsTheApp ==
    \A m \in Maker :
        entryOf[m] # NoEntry /\ entryOf[m].slug \notin swallowed
        => entryOf[m].token >= announced[entryOf[m].slug]
=============================================================================
