----------------------------- MODULE Parts_proofs -----------------------------
(***************************************************************************)
(* Proofs about the parts that run on their own: ConfigFlow, for any       *)
(* number of flows, of apps and of tokens; Notices, for any number of      *)
(* losses of the history; AnswerStream, for any number of deltas of any    *)
(* length. The parts that MCParts puts side by side are then shown to be   *)
(* those the proofs are about.                                             *)
(***************************************************************************)
EXTENDS MCParts, VoiceSetup_proofs, CardResource_proofs, SequenceTheorems

USE FlowConstants, NoticeConstants, StreamConstants

-----------------------------------------------------------------------------
(* What is known of flows. *)

\* The stages at which a flow has settled on an app.
Settled == {"use", "confirm", "info", "install", "start", "details", "told", "test"}

\* A flow that has settled is at an app, and only one that tests has a reply.
StagesOK ==
    \A f \in Flow : /\ flowPc[f] \in Settled => flowSlug[f] \in Slug
                    /\ reply[f] # "none" => flowPc[f] = "test"

\* A flow that tests an app has its unique id, and the app has no entry.
TestsOK ==
    \A f \in Flow : flowPc[f] = "test" =>
        /\ uniqueId[f] = flowSlug[f]
        /\ \A m \in Maker : entryOf[m].slug # flowSlug[f]

\* An app announced no newer token than it takes, and none that a flow which
\* tested another would miss.
TokensOK ==
    /\ \A s \in Slug : announced[s] <= token[s]
    /\ \A f \in Flow : reply[f] = "ok" /\ flowSlug[f] \notin swallowed
                       => details[f] >= announced[flowSlug[f]]

\* An entry is of an app.
EntriesOK == \A m \in Maker : entryOf[m].slug = NoSlug => entryOf[m] = NoEntry

FlowInv ==
    /\ FlowTypeOK /\ StagesOK /\ TestsOK /\ TokensOK /\ EntriesOK
    /\ OneEntryPerApp /\ EntryFollowsTheApp

-----------------------------------------------------------------------------
(* How a flow moves. *)

FlowStages == Forms \cup FlowAwaits \cup {"free", "ended"}
Entries == [Maker -> [slug : Slug \cup {NoSlug}, token : 0..MaxToken]]

FlowsTypeOK ==
    /\ flowPc \in [Flow -> FlowStages]
    /\ flowSlug \in [Flow -> Slug \cup {NoSlug}]
    /\ details \in [Flow -> 0..MaxToken]
    /\ uniqueId \in [Flow -> Slug \cup {NoSlug}]
    /\ reply \in [Flow -> {"none", "ok", "error"}]
    /\ choices \in [Flow -> SUBSET Slug]

AppsTypeOK ==
    /\ known \subseteq Slug
    /\ slugState \in [Slug -> {"absent", "stopped", "running"}]
    /\ token \in [Slug -> 0..MaxToken]
    /\ announced \in [Slug -> 0..MaxToken]
    /\ swallowed \subseteq Slug

\* The other flows stay where they are.
OthersStay(f) ==
    \A g \in Flow \ {f} : /\ flowPc'[g] = flowPc[g]
                          /\ flowSlug'[g] = flowSlug[g]
                          /\ details'[g] = details[g]
                          /\ uniqueId'[g] = uniqueId[g]
                          /\ reply'[g] = reply[g]

\* A flow that does not test goes on, settled on an app if it has to be.
Elsewhere(f) ==
    /\ FlowsTypeOK'
    /\ OthersStay(f)
    /\ flowPc'[f] # "test" /\ reply'[f] = "none"
    /\ flowPc'[f] \in Settled => flowSlug'[f] \in Slug

\* The types are of the apps, of the flows and of the entries.
LEMMA TypeParts == FlowTypeOK <=> AppsTypeOK /\ FlowsTypeOK /\ entryOf \in Entries
BY DEF FlowTypeOK, AppsTypeOK, FlowsTypeOK, Entries, FlowStages

\* The same of the next state.
LEMMA TypePartsNext == FlowTypeOK' <=> AppsTypeOK' /\ FlowsTypeOK' /\ (entryOf \in Entries)'
BY TypeParts, PTL

\* A flow that ends is such a flow.
LEMMA EndEffect ==
    ASSUME FlowInv, NEW f \in Flow, EndFlow(f)
    PROVE  Elsewhere(f)
<1>1. FlowsTypeOK
  BY TypeParts DEF FlowInv
<1>2. flowPc' \in [Flow -> FlowStages] /\ flowPc'[f] = "ended"
      /\ \A g \in Flow \ {f} : flowPc'[g] = flowPc[g]
  BY <1>1 DEF EndFlow, GoFlow, FlowsTypeOK, FlowStages
<1>3. flowSlug' \in [Flow -> Slug \cup {NoSlug}]
      /\ \A g \in Flow \ {f} : flowSlug'[g] = flowSlug[g]
  BY <1>1 DEF EndFlow, Dropped, FlowsTypeOK
<1>4. details' \in [Flow -> 0..MaxToken]
      /\ \A g \in Flow \ {f} : details'[g] = details[g]
  BY <1>1 DEF EndFlow, Dropped, FlowsTypeOK
<1>5. uniqueId' \in [Flow -> Slug \cup {NoSlug}]
      /\ \A g \in Flow \ {f} : uniqueId'[g] = uniqueId[g]
  BY <1>1 DEF EndFlow, Dropped, FlowsTypeOK
<1>6. reply' \in [Flow -> {"none", "ok", "error"}] /\ reply'[f] = "none"
      /\ \A g \in Flow \ {f} : reply'[g] = reply[g]
  BY <1>1 DEF EndFlow, Dropped, FlowsTypeOK
<1>7. choices' \in [Flow -> SUBSET Slug]
  BY <1>1 DEF EndFlow, Dropped, FlowsTypeOK
<1> QED
  BY <1>2, <1>3, <1>4, <1>5, <1>6, <1>7 DEF Elsewhere, FlowsTypeOK, OthersStay, Settled

\* So is one that goes on with what it has, from where it had no reply.
LEMMA MovesEffect ==
    ASSUME FlowInv, NEW f \in Flow, NEW where \in FlowStages \ {"test"}, Moves(f, where),
           flowPc[f] # "test", where \in Settled => flowSlug[f] \in Slug
    PROVE  Elsewhere(f)
<1>1. FlowsTypeOK
  BY TypeParts DEF FlowInv
<1>2. reply[f] = "none"
  BY DEF FlowInv, StagesOK
<1>3. flowPc' \in [Flow -> FlowStages] /\ flowPc'[f] = where
      /\ \A g \in Flow \ {f} : flowPc'[g] = flowPc[g]
  BY <1>1 DEF Moves, GoFlow, FlowsTypeOK
<1> QED
  BY <1>1, <1>2, <1>3 DEF Elsewhere, FlowsTypeOK, OthersStay, Moves, KeepsAll

\* So is one that settles on an app.
LEMMA SettleEffect ==
    ASSUME FlowInv, NEW f \in Flow, NEW s \in Slug, Settle(f, s), flowPc[f] # "test"
    PROVE  Elsewhere(f)
<1>1. FlowsTypeOK
  BY TypeParts DEF FlowInv
<1>2. reply[f] = "none"
  BY DEF FlowInv, StagesOK
<1>3. flowPc' \in [Flow -> FlowStages] /\ flowPc'[f] = "use"
      /\ \A g \in Flow \ {f} : flowPc'[g] = flowPc[g]
  BY <1>1 DEF Settle, GoFlow, FlowsTypeOK, FlowStages, Forms
<1>4. flowSlug' \in [Flow -> Slug \cup {NoSlug}] /\ flowSlug'[f] = s
      /\ \A g \in Flow \ {f} : flowSlug'[g] = flowSlug[g]
  BY <1>1 DEF Settle, FlowsTypeOK
<1>5. choices' \in [Flow -> SUBSET Slug]
  BY <1>1 DEF Settle, FlowsTypeOK
<1> QED
  BY <1>1, <1>2, <1>3, <1>4, <1>5 DEF Elsewhere, FlowsTypeOK, OthersStay, Settle

\* While a flow goes on without a test, and tokens are only added, all that is
\* known of the entries stays known.
LEMMA ElsewhereStep ==
    ASSUME FlowInv, NEW f \in Flow, Elsewhere(f), AppsTypeOK',
           \A s \in Slug : token[s] <= token'[s],
           UNCHANGED <<announced, swallowed, entryOf>>
    PROVE  FlowInv'
<1>1. FlowTypeOK /\ AppsTypeOK /\ FlowsTypeOK /\ entryOf \in Entries
  BY TypeParts DEF FlowInv
<1>2. FlowTypeOK'
  BY <1>1, TypePartsNext DEF Elsewhere
<1>3. StagesOK'
  BY DEF FlowInv, StagesOK, Elsewhere, OthersStay
<1>4. TestsOK'
  BY DEF FlowInv, TestsOK, Elsewhere, OthersStay
<1>5. TokensOK'
  <2>1. \A s \in Slug : announced'[s] <= token'[s]
    BY <1>1 DEF FlowInv, TokensOK, AppsTypeOK
  <2>2. \A g \in Flow : reply'[g] = "ok" /\ flowSlug'[g] \notin swallowed'
                        => details'[g] >= announced'[flowSlug'[g]]
    BY DEF FlowInv, TokensOK, Elsewhere, OthersStay
  <2> QED
    BY <2>1, <2>2 DEF TokensOK
<1>6. EntriesOK' /\ OneEntryPerApp' /\ EntryFollowsTheApp'
  BY DEF FlowInv, EntriesOK, OneEntryPerApp, EntryFollowsTheApp
<1> QED
  BY <1>2, <1>3, <1>4, <1>5, <1>6 DEF FlowInv

\* The steps of a flow up to its test, each such a step.
LEMMA EarlySteps ==
    ASSUME FlowInv, NEW f \in Flow,
           \/ UserFlow(f) \/ ChooseEngine(f) \/ Resolve(f) \/ AddRepository(f) \/ Pick(f)
           \/ UseApp(f) \/ ReadDetails(f) \/ CloseForm(f)
    PROVE  FlowInv'
<1>1. FlowTypeOK /\ AppsTypeOK /\ FlowsTypeOK /\ entryOf \in Entries
  BY TypeParts DEF FlowInv
<1>2. \A s \in Slug : token[s] <= token[s]
  BY <1>1 DEF AppsTypeOK
<1>3. ASSUME Elsewhere(f), UNCHANGED <<appVars, swallowed, entryOf>>
      PROVE  FlowInv'
  <2>1. AppsTypeOK'
    BY <1>1, <1>3 DEF AppsTypeOK, appVars
  <2> QED
    BY <1>2, <1>3, <2>1, ElsewhereStep DEF appVars
<1>4. CASE UserFlow(f)
  <2>1. Elsewhere(f)
    BY <1>4, MovesEffect DEF UserFlow, FlowStages, Forms, Settled
  <2> QED
    BY <1>3, <1>4, <2>1 DEF UserFlow
<1>5. CASE ChooseEngine(f)
  <2>1. Elsewhere(f)
    BY <1>5, MovesEffect DEF ChooseEngine, FlowStages, FlowAwaits, Settled
  <2> QED
    BY <1>3, <1>5, <2>1 DEF ChooseEngine
<1>6. CASE Resolve(f)
  <2>1. flowPc[f] # "test" /\ flowPc[f] \in {"resolve", "adding"}
    BY <1>6 DEF Resolve
  <2>2. ASSUME Cardinality(Found \ Configured) > 1,
               choices' = [choices EXCEPT ![f] = Found \ Configured],
               GoFlow(f, "pick"), UNCHANGED <<flowSlug, details, uniqueId, reply>>
        PROVE  Elsewhere(f)
    <3>1. Found \subseteq Slug
      BY <1>1 DEF Found, AppsTypeOK
    <3>2. choices' \in [Flow -> SUBSET Slug]
      BY <1>1, <2>2, <3>1 DEF FlowsTypeOK
    <3>3. flowPc' \in [Flow -> FlowStages] /\ flowPc'[f] = "pick"
          /\ \A g \in Flow \ {f} : flowPc'[g] = flowPc[g]
      BY <1>1, <2>2 DEF GoFlow, FlowsTypeOK, FlowStages, Forms
    <3>4. reply[f] = "none"
      BY <2>1 DEF FlowInv, StagesOK
    <3> QED
      BY <1>1, <2>2, <3>2, <3>3, <3>4 DEF Elsewhere, FlowsTypeOK, OthersStay, Settled
  <2>3. ASSUME Moves(f, "add")
        PROVE  Elsewhere(f)
    BY <2>1, <2>3, MovesEffect DEF FlowStages, Forms, Settled
  <2>4. Elsewhere(f)
    BY <1>6, <2>1, <2>2, <2>3, EndEffect, SettleEffect DEF Resolve
  <2> QED
    BY <1>3, <1>6, <2>4 DEF Resolve
<1>7. CASE AddRepository(f)
  <2>1. Elsewhere(f)
    BY <1>7, MovesEffect, EndEffect DEF AddRepository, FlowStages, FlowAwaits, Settled
  <2>2. known' \subseteq Slug
    BY <1>1, <1>7 DEF AddRepository, AppsTypeOK
  <2>3. AppsTypeOK'
    BY <1>1, <1>7, <2>2 DEF AddRepository, AppsTypeOK
  <2> QED
    BY <1>2, <1>7, <2>1, <2>3, ElsewhereStep DEF AddRepository
<1>8. CASE Pick(f)
  <2>1. PICK s \in choices[f] : Settle(f, s)
    BY <1>8 DEF Pick
  <2>2. s \in Slug /\ flowPc[f] # "test"
    BY <1>1, <1>8 DEF Pick, FlowsTypeOK
  <2> QED
    BY <1>3, <1>8, <2>1, <2>2, SettleEffect DEF Pick
<1>9. CASE UseApp(f)
  <2>1. flowPc[f] \in Settled /\ flowPc[f] # "test"
    BY <1>9 DEF UseApp, Settled
  <2>2. flowSlug[f] \in Slug
    BY <2>1 DEF FlowInv, StagesOK
  <2>3. Elsewhere(f)
    BY <1>9, <2>1, <2>2, MovesEffect, EndEffect DEF UseApp, FlowStages, FlowAwaits
  <2> QED
    BY <1>3, <1>9, <2>3 DEF UseApp
<1>10. CASE ReadDetails(f)
  <2>1. flowPc[f] \in Settled /\ flowPc[f] # "test"
    BY <1>10 DEF ReadDetails, Settled
  <2>2. flowSlug[f] \in Slug /\ reply[f] = "none"
    BY <2>1 DEF FlowInv, StagesOK
  <2>3. ASSUME NEW t \in {announced[flowSlug[f]], token[flowSlug[f]]},
               details' = [details EXCEPT ![f] = t],
               GoFlow(f, "told"), UNCHANGED <<flowSlug, uniqueId, reply, choices>>
        PROVE  Elsewhere(f)
    <3>1. t \in 0..MaxToken
      BY <1>1, <2>2 DEF AppsTypeOK
    <3>2. details' \in [Flow -> 0..MaxToken] /\ \A g \in Flow \ {f} : details'[g] = details[g]
      BY <1>1, <2>3, <3>1 DEF FlowsTypeOK
    <3>3. flowPc' \in [Flow -> FlowStages] /\ flowPc'[f] = "told"
          /\ \A g \in Flow \ {f} : flowPc'[g] = flowPc[g]
      BY <1>1, <2>3 DEF GoFlow, FlowsTypeOK, FlowStages, FlowAwaits
    <3> QED
      BY <1>1, <2>2, <2>3, <3>2, <3>3 DEF Elsewhere, FlowsTypeOK, OthersStay
  <2>4. ASSUME Moves(f, "told")
        PROVE  Elsewhere(f)
    BY <2>1, <2>2, <2>4, MovesEffect DEF FlowStages, FlowAwaits
  <2>5. Elsewhere(f)
    BY <1>10, <2>3, <2>4, EndEffect DEF ReadDetails
  <2> QED
    BY <1>3, <1>10, <2>5 DEF ReadDetails
<1>11. CASE CloseForm(f)
  BY <1>3, <1>11, EndEffect DEF CloseForm
<1> QED
  BY <1>4, <1>5, <1>6, <1>7, <1>8, <1>9, <1>10, <1>11

\* The app of a flow is read, installed and started: tokens are only added.
LEMMA PrepareStep ==
    ASSUME FlowInv, NEW f \in Flow, Prepare(f)
    PROVE  FlowInv'
<1> DEFINE s == flowSlug[f]
<1>1. FlowTypeOK /\ AppsTypeOK /\ FlowsTypeOK /\ entryOf \in Entries
  BY TypeParts DEF FlowInv
<1>2. flowPc[f] \in {"info", "install", "start"} /\ flowPc[f] # "test"
  BY DEF Prepare
<1>3. s \in Slug
  BY <1>2 DEF FlowInv, StagesOK, Settled
<1>4. UNCHANGED <<known, announced, swallowed, entryOf>>
  BY DEF Prepare
<1>5. Elsewhere(f)
  <2>1. ASSUME NEW where \in {"details", "start", "install"}, Moves(f, where)
        PROVE  Elsewhere(f)
    BY <1>2, <1>3, <2>1, MovesEffect DEF FlowStages, FlowAwaits
  <2>2. \/ \E where \in {"details", "start", "install"} : Moves(f, where)
        \/ EndFlow(f)
    <3>1. CASE flowPc[f] = "info" /\ Moves(f, CASE slugState[s] = "running" -> "details"
                                                [] slugState[s] = "stopped" -> "start"
                                                [] slugState[s] = "absent" -> "install")
      <4>1. slugState[s] \in {"absent", "stopped", "running"}
        BY <1>1, <1>3 DEF AppsTypeOK
      <4> QED
        BY <3>1, <4>1
    <3>2. CASE Moves(f, "start") \/ Moves(f, "details") \/ EndFlow(f)
      BY <3>2
    <3> QED
      BY <3>1, <3>2 DEF Prepare
  <2> QED
    BY <2>1, <2>2, EndEffect
<1>6. slugState' \in [Slug -> {"absent", "stopped", "running"}]
  <2>1. \/ slugState' = slugState
        \/ slugState' = [slugState EXCEPT ![s] = "stopped"]
        \/ slugState' = [slugState EXCEPT ![s] = "running"]
    BY DEF Prepare
  <2> QED
    BY <1>1, <2>1 DEF AppsTypeOK
<1>7. token' \in [Slug -> 0..MaxToken] /\ \A a \in Slug : token[a] <= token'[a]
  <2>1. \/ token' = token
        \/ token[s] < MaxToken /\ token' = [token EXCEPT ![s] = @ + 1]
    BY DEF Prepare
  <2>2. CASE token' = token
    BY <1>1, <2>2 DEF AppsTypeOK
  <2>3. CASE token[s] < MaxToken /\ token' = [token EXCEPT ![s] = @ + 1]
    <3>1. token[s] + 1 \in 0..MaxToken
      BY <1>1, <1>3, <2>3 DEF AppsTypeOK
    <3> QED
      BY <1>1, <1>3, <2>3, <3>1 DEF AppsTypeOK
  <2> QED
    BY <2>1, <2>2, <2>3
<1>8. AppsTypeOK'
  BY <1>1, <1>4, <1>6, <1>7 DEF AppsTypeOK
<1> QED
  BY <1>4, <1>5, <1>7, <1>8, ElsewhereStep

\* An app has an entry, or none: as Configured says it.
LEMMA ConfiguredIs ==
    ASSUME NEW s \in Slug
    PROVE  s \in Configured <=> \E m \in Maker : entryOf[m].slug = s
BY DEF Configured

\* A flow tests an app only where the app has no entry, with its unique id.
LEMMA IdentifyStep ==
    ASSUME FlowInv, NEW f \in Flow, Identify(f)
    PROVE  FlowInv'
<1>1. FlowTypeOK /\ AppsTypeOK /\ FlowsTypeOK /\ entryOf \in Entries
  BY TypeParts DEF FlowInv
<1>2. flowPc[f] = "told" /\ flowSlug[f] \in Slug /\ reply[f] = "none"
  BY DEF Identify, FlowInv, StagesOK, Settled
<1>3. UNCHANGED <<appVars, swallowed, entryOf>>
  BY DEF Identify, Left
<1>4. AppsTypeOK'
  BY <1>1, <1>3 DEF AppsTypeOK, appVars
<1>5. \A s \in Slug : token[s] <= token'[s]
  BY <1>1, <1>3 DEF AppsTypeOK, appVars
<1>6. CASE EndFlow(f)
  BY <1>3, <1>4, <1>5, <1>6, EndEffect, ElsewhereStep DEF appVars
<1>7. CASE /\ UniqueOf(f) \notin Configured
           /\ uniqueId' = [uniqueId EXCEPT ![f] = UniqueOf(f)]
           /\ GoFlow(f, "test")
           /\ UNCHANGED <<flowSlug, details, reply, choices, entryOf>>
  <2>1. flowPc' \in [Flow -> FlowStages] /\ flowPc'[f] = "test"
        /\ \A g \in Flow \ {f} : flowPc'[g] = flowPc[g]
    BY <1>1, <1>7 DEF GoFlow, FlowsTypeOK, FlowStages, FlowAwaits
  <2>2. uniqueId' \in [Flow -> Slug \cup {NoSlug}] /\ uniqueId'[f] = flowSlug[f]
        /\ \A g \in Flow \ {f} : uniqueId'[g] = uniqueId[g]
    BY <1>1, <1>2, <1>7 DEF UniqueOf, FlowsTypeOK
  <2>3. FlowTypeOK'
    <3>1. FlowsTypeOK'
      BY <1>1, <1>7, <2>1, <2>2 DEF FlowsTypeOK
    <3> QED
      BY <1>1, <1>3, <1>4, <3>1, TypePartsNext
  <2>4. \A m \in Maker : entryOf[m].slug # flowSlug[f]
    BY <1>2, <1>7, ConfiguredIs DEF UniqueOf
  <2>5. StagesOK'
    BY <1>2, <1>7, <2>1 DEF FlowInv, StagesOK
  <2>6. TestsOK'
    BY <1>7, <2>1, <2>2, <2>4 DEF FlowInv, TestsOK
  <2>7. TokensOK'
    BY <1>3, <1>7 DEF FlowInv, TokensOK, appVars
  <2>8. EntriesOK' /\ OneEntryPerApp' /\ EntryFollowsTheApp'
    BY <1>3 DEF FlowInv, EntriesOK, OneEntryPerApp, EntryFollowsTheApp, appVars
  <2> QED
    BY <2>3, <2>5, <2>6, <2>7, <2>8 DEF FlowInv
<1> QED
  BY <1>6, <1>7 DEF Identify

\* A test is answered well only with the token the app takes.
LEMMA AppRepliesStep ==
    ASSUME FlowInv, NEW f \in Flow, AppReplies(f)
    PROVE  FlowInv'
<1>1. FlowTypeOK /\ AppsTypeOK /\ FlowsTypeOK /\ entryOf \in Entries
  BY TypeParts DEF FlowInv
<1>2. flowPc[f] = "test" /\ flowSlug[f] \in Slug
  BY DEF AppReplies, FlowInv, StagesOK, Settled
<1>3. UNCHANGED <<appVars, swallowed, flowPc, flowSlug, details, uniqueId, choices, entryOf>>
  BY DEF AppReplies
<1>4. reply' \in [Flow -> {"none", "ok", "error"}]
      /\ \A g \in Flow \ {f} : reply'[g] = reply[g]
  BY <1>1 DEF AppReplies, FlowsTypeOK
<1>5. reply'[f] = "ok" => details[f] = token[flowSlug[f]]
  <2>1. PICK r \in {"ok", "error"} :
           /\ r = "ok" => details[f] = token[flowSlug[f]]
           /\ reply' = [reply EXCEPT ![f] = r]
    BY DEF AppReplies
  <2>2. reply'[f] = r
    BY <1>1, <2>1 DEF FlowsTypeOK
  <2> QED
    BY <2>1, <2>2
<1>6. FlowTypeOK'
  <2>1. AppsTypeOK'
    BY <1>1, <1>3 DEF AppsTypeOK, appVars
  <2>2. FlowsTypeOK'
    BY <1>1, <1>3, <1>4 DEF FlowsTypeOK
  <2> QED
    BY <1>1, <1>3, <2>1, <2>2, TypePartsNext
<1>7. StagesOK'
  BY <1>2, <1>3, <1>4 DEF FlowInv, StagesOK
<1>8. TestsOK'
  BY <1>3 DEF FlowInv, TestsOK
<1>9. TokensOK'
  <2>1. \A s \in Slug : announced'[s] <= token'[s]
    BY <1>3 DEF FlowInv, TokensOK, appVars
  <2>2. ASSUME NEW g \in Flow, reply'[g] = "ok", flowSlug'[g] \notin swallowed'
        PROVE  details'[g] >= announced'[flowSlug'[g]]
    <3>1. CASE g = f
      <4>1. details[f] = token[flowSlug[f]] /\ announced[flowSlug[f]] <= token[flowSlug[f]]
        BY <1>2, <1>5, <2>2, <3>1 DEF FlowInv, TokensOK
      <4>2. announced[flowSlug[f]] \in Nat /\ token[flowSlug[f]] \in Nat
        BY <1>1, <1>2 DEF AppsTypeOK
      <4> QED
        BY <1>3, <3>1, <4>1, <4>2 DEF appVars
    <3>2. CASE g # f
      BY <1>3, <1>4, <2>2, <3>2 DEF FlowInv, TokensOK, appVars
    <3> QED
      BY <3>1, <3>2
  <2> QED
    BY <2>1, <2>2 DEF TokensOK
<1>10. EntriesOK' /\ OneEntryPerApp' /\ EntryFollowsTheApp'
  BY <1>3 DEF FlowInv, EntriesOK, OneEntryPerApp, EntryFollowsTheApp, appVars
<1> QED
  BY <1>6, <1>7, <1>8, <1>9, <1>10 DEF FlowInv

\* A removed entry leaves its app with none, and with what it announces next.
LEMMA RemoveEntryStep ==
    ASSUME FlowInv, NEW m \in Maker, RemoveEntry(m)
    PROVE  FlowInv'
<1>1. FlowTypeOK /\ AppsTypeOK /\ FlowsTypeOK /\ entryOf \in Entries
  BY TypeParts DEF FlowInv
<1>2. UNCHANGED <<known, slugState, token, announced, flowPc, flowSlug, details, uniqueId,
                  reply, choices>>
  BY DEF RemoveEntry, KeepsAll, appVars
<1>3. swallowed' = swallowed \ {entryOf[m].slug}
  BY DEF RemoveEntry
<1>4. entryOf' \in Entries /\ entryOf'[m] = NoEntry
      /\ \A n \in Maker \ {m} : entryOf'[n] = entryOf[n]
  <2>1. NoEntry \in [slug : Slug \cup {NoSlug}, token : 0..MaxToken]
    BY DEF NoEntry
  <2> QED
    BY <1>1, <2>1 DEF RemoveEntry, Entries
<1>5. FlowTypeOK'
  <2>1. AppsTypeOK'
    BY <1>1, <1>2, <1>3 DEF AppsTypeOK
  <2>2. FlowsTypeOK'
    BY <1>1, <1>2 DEF FlowsTypeOK
  <2> QED
    BY <1>4, <2>1, <2>2, TypePartsNext
<1>6. \A f \in Flow : flowPc[f] = "test" => flowSlug[f] \in Slug /\ flowSlug[f] # NoSlug
  BY DEF FlowInv, StagesOK, Settled
<1>7. StagesOK'
  BY <1>2 DEF FlowInv, StagesOK
<1>8. TestsOK'
  BY <1>2, <1>4, <1>6 DEF FlowInv, TestsOK, NoEntry
<1>9. TokensOK'
  <2>1. ASSUME NEW f \in Flow, reply[f] = "ok"
        PROVE  entryOf[m].slug # flowSlug[f]
    BY <2>1 DEF FlowInv, StagesOK, TestsOK
  <2> QED
    BY <1>2, <1>3, <2>1 DEF FlowInv, TokensOK
<1>10. EntriesOK' /\ OneEntryPerApp'
  BY <1>4 DEF FlowInv, EntriesOK, OneEntryPerApp, NoEntry
<1>11. EntryFollowsTheApp'
  <2>1. ASSUME NEW n \in Maker, entryOf'[n] # NoEntry, entryOf'[n].slug \notin swallowed'
        PROVE  entryOf'[n].token >= announced'[entryOf'[n].slug]
    <3>1. n # m /\ entryOf'[n] = entryOf[n]
      BY <1>4, <2>1
    <3>2. CASE entryOf[n].slug = entryOf[m].slug /\ entryOf[n].slug # NoSlug
      BY <3>1, <3>2 DEF FlowInv, OneEntryPerApp
    <3>3. CASE entryOf[n].slug = NoSlug
      BY <2>1, <3>1, <3>3 DEF FlowInv, EntriesOK
    <3>4. CASE entryOf[n].slug # entryOf[m].slug
      BY <1>2, <1>3, <2>1, <3>1, <3>4 DEF FlowInv, EntryFollowsTheApp
    <3> QED
      BY <3>2, <3>3, <3>4
  <2> QED
    BY <2>1 DEF EntryFollowsTheApp
<1> QED
  BY <1>5, <1>7, <1>8, <1>9, <1>10, <1>11 DEF FlowInv

\* An app is given a newer token, or goes away.
LEMMA AppChangesStep ==
    ASSUME FlowInv, NEW s \in Slug, AppChanges(s)
    PROVE  FlowInv'
<1>1. FlowTypeOK /\ AppsTypeOK /\ FlowsTypeOK /\ entryOf \in Entries
  BY TypeParts DEF FlowInv
<1>2. UNCHANGED <<known, announced, swallowed, flowPc, flowSlug, details, uniqueId, reply,
                  choices, entryOf>>
  BY DEF AppChanges, KeepsAll
<1>3. slugState' \in [Slug -> {"absent", "stopped", "running"}]
  BY <1>1 DEF AppChanges, AppsTypeOK
<1>4. token' \in [Slug -> 0..MaxToken] /\ \A a \in Slug : token[a] <= token'[a]
  <2>1. CASE token' = token
    BY <1>1, <2>1 DEF AppsTypeOK
  <2>2. CASE token[s] < MaxToken /\ token' = [token EXCEPT ![s] = @ + 1]
    <3>1. token[s] + 1 \in 0..MaxToken
      BY <1>1, <2>2 DEF AppsTypeOK
    <3> QED
      BY <1>1, <2>2, <3>1 DEF AppsTypeOK
  <2> QED
    BY <2>1, <2>2 DEF AppChanges
<1>5. FlowTypeOK'
  <2>1. AppsTypeOK'
    BY <1>1, <1>2, <1>3, <1>4 DEF AppsTypeOK
  <2>2. FlowsTypeOK'
    BY <1>1, <1>2 DEF FlowsTypeOK
  <2> QED
    BY <1>1, <1>2, <2>1, <2>2, TypePartsNext
<1>6. StagesOK' /\ TestsOK'
  BY <1>2 DEF FlowInv, StagesOK, TestsOK
<1>7. TokensOK'
  <2>1. \A a \in Slug : announced'[a] <= token'[a]
    BY <1>1, <1>2, <1>4 DEF FlowInv, TokensOK, AppsTypeOK
  <2> QED
    BY <1>2, <2>1 DEF FlowInv, TokensOK
<1>8. EntriesOK' /\ OneEntryPerApp' /\ EntryFollowsTheApp'
  BY <1>2 DEF FlowInv, EntriesOK, OneEntryPerApp, EntryFollowsTheApp
<1> QED
  BY <1>5, <1>6, <1>7, <1>8 DEF FlowInv

\* An announcement is lost to a flow, brings an entry up to date, or is a flow.
LEMMA AnnounceStep ==
    ASSUME FlowInv, NEW s \in Slug, Announce(s)
    PROVE  FlowInv'
<1>1. FlowTypeOK /\ AppsTypeOK /\ FlowsTypeOK /\ entryOf \in Entries
  BY TypeParts DEF FlowInv
<1>2. UNCHANGED <<known, slugState, token>>
  BY DEF Announce
<1>3. announced' \in [Slug -> 0..MaxToken] /\ announced'[s] = token[s]
      /\ \A a \in Slug \ {s} : announced'[a] = announced[a]
  BY <1>1 DEF Announce, AppsTypeOK
<1>4. \A a \in Slug : announced'[a] <= token'[a]
  BY <1>1, <1>2, <1>3 DEF FlowInv, TokensOK, AppsTypeOK
<1>5. ASSUME swallowed' \subseteq Slug
      PROVE  AppsTypeOK'
  BY <1>1, <1>2, <1>3, <1>5 DEF AppsTypeOK
<1>6. CASE \E f \in Flow : InProgress(f) /\ uniqueId[f] = s
  <2>1. swallowed' = swallowed \cup {s}
        /\ UNCHANGED <<flowPc, entryOf, flowSlug, details, uniqueId, reply, choices>>
    BY <1>6 DEF Announce, KeepsAll
  <2>2. FlowTypeOK'
    <3>1. AppsTypeOK'
      BY <1>1, <1>5, <2>1 DEF AppsTypeOK
    <3>2. FlowsTypeOK'
      BY <1>1, <2>1 DEF FlowsTypeOK
    <3> QED
      BY <1>1, <2>1, <3>1, <3>2, TypePartsNext
  <2>3. StagesOK' /\ TestsOK'
    BY <2>1 DEF FlowInv, StagesOK, TestsOK
  <2>4. TokensOK'
    <3>1. ASSUME NEW f \in Flow, reply'[f] = "ok", flowSlug'[f] \notin swallowed'
          PROVE  details'[f] >= announced'[flowSlug'[f]]
      <4>1. flowSlug[f] \in Slug \ {s}
        BY <2>1, <3>1 DEF FlowInv, StagesOK, Settled
      <4> QED
        BY <1>3, <2>1, <3>1, <4>1 DEF FlowInv, TokensOK
    <3> QED
      BY <1>4, <3>1 DEF TokensOK
  <2>5. EntriesOK' /\ OneEntryPerApp'
    BY <2>1 DEF FlowInv, EntriesOK, OneEntryPerApp
  <2>6. EntryFollowsTheApp'
    <3>1. ASSUME NEW m \in Maker, entryOf[m] # NoEntry, entryOf[m].slug \notin swallowed'
          PROVE  entryOf[m].token >= announced'[entryOf[m].slug]
      <4>1. entryOf[m].slug # s /\ entryOf[m].slug \notin swallowed
        BY <2>1, <3>1
      <4>2. entryOf[m].slug \in Slug
        BY <1>1, <3>1 DEF Entries, FlowInv, EntriesOK
      <4>3. announced'[entryOf[m].slug] = announced[entryOf[m].slug]
        BY <1>3, <4>1, <4>2
      <4> QED
        BY <3>1, <4>1, <4>3 DEF FlowInv, EntryFollowsTheApp
    <3> QED
      BY <2>1, <3>1 DEF EntryFollowsTheApp
  <2> QED
    BY <2>2, <2>3, <2>4, <2>5, <2>6 DEF FlowInv
<1>7. CASE ~(\E f \in Flow : InProgress(f) /\ uniqueId[f] = s) /\ s \in Configured
  <2>1. /\ entryOf' = [m \in Maker |-> IF entryOf[m].slug = s
                                       THEN Updated(entryOf[m], token[s])
                                       ELSE entryOf[m]]
        /\ swallowed' = swallowed \ {s}
        /\ UNCHANGED <<flowPc, flowSlug, details, uniqueId, reply, choices>>
    BY <1>7 DEF Announce, KeepsAll
  <2>2. ASSUME NEW m \in Maker
        PROVE  /\ entryOf[m].slug = s => entryOf'[m] = [slug |-> s, token |-> token[s]]
               /\ entryOf[m].slug # s => entryOf'[m] = entryOf[m]
    <3>1. entryOf[m] \in [slug : Slug \cup {NoSlug}, token : 0..MaxToken]
      BY <1>1 DEF Entries
    <3>2. entryOf'[m] = IF entryOf[m].slug = s THEN [entryOf[m] EXCEPT !.token = token[s]]
                        ELSE entryOf[m]
      BY <2>1 DEF Updated
    <3> QED
      BY <3>1, <3>2
  <2>3. entryOf' \in Entries
    <3>1. [slug |-> s, token |-> token[s]] \in [slug : Slug \cup {NoSlug}, token : 0..MaxToken]
      BY <1>1 DEF AppsTypeOK
    <3>2. \A m \in Maker : entryOf'[m] \in [slug : Slug \cup {NoSlug}, token : 0..MaxToken]
      BY <1>1, <2>2, <3>1 DEF Entries
    <3> QED
      BY <2>1, <3>2 DEF Entries
  <2>4. \A m \in Maker : entryOf'[m].slug = entryOf[m].slug
    BY <2>2
  <2>5. FlowTypeOK'
    <3>1. AppsTypeOK'
      BY <1>1, <1>5, <2>1 DEF AppsTypeOK
    <3>2. FlowsTypeOK'
      BY <1>1, <2>1 DEF FlowsTypeOK
    <3> QED
      BY <2>3, <3>1, <3>2, TypePartsNext
  <2>6. StagesOK' /\ TestsOK'
    BY <2>1, <2>4 DEF FlowInv, StagesOK, TestsOK
  <2>7. TokensOK'
    <3>1. ASSUME NEW f \in Flow, reply'[f] = "ok", flowSlug'[f] \notin swallowed'
          PROVE  details'[f] >= announced'[flowSlug'[f]]
      <4>1. flowPc[f] = "test" /\ flowSlug[f] \in Slug
        BY <2>1, <3>1 DEF FlowInv, StagesOK, Settled
      <4>2. flowSlug[f] # s
        BY <1>7, <4>1 DEF FlowInv, TestsOK, InProgress
      <4> QED
        BY <1>3, <2>1, <3>1, <4>1, <4>2 DEF FlowInv, TokensOK
    <3> QED
      BY <1>4, <3>1 DEF TokensOK
  <2>8. EntriesOK'
    BY <2>2 DEF FlowInv, EntriesOK
  <2>9. OneEntryPerApp'
    BY <2>4 DEF FlowInv, OneEntryPerApp
  <2>10. EntryFollowsTheApp'
    <3>1. ASSUME NEW m \in Maker, entryOf'[m] # NoEntry, entryOf'[m].slug \notin swallowed'
          PROVE  entryOf'[m].token >= announced'[entryOf'[m].slug]
      <4>1. CASE entryOf[m].slug = s
        <5>1. token[s] \in Nat
          BY <1>1 DEF AppsTypeOK
        <5> QED
          BY <1>3, <2>2, <4>1, <5>1
      <4>2. CASE entryOf[m].slug # s
        <5>1. entryOf'[m] = entryOf[m] /\ entryOf[m].slug \notin swallowed
          BY <2>1, <2>2, <3>1, <4>2
        <5>2. entryOf[m].slug \in Slug
          BY <1>1, <3>1, <5>1 DEF Entries, FlowInv, EntriesOK
        <5>3. announced'[entryOf[m].slug] = announced[entryOf[m].slug]
          BY <1>3, <4>2, <5>2
        <5> QED
          BY <3>1, <5>1, <5>3 DEF FlowInv, EntryFollowsTheApp
      <4> QED
        BY <4>1, <4>2
    <3> QED
      BY <3>1 DEF EntryFollowsTheApp
  <2> QED
    BY <2>5, <2>6, <2>7, <2>8, <2>9, <2>10 DEF FlowInv
<1>8. CASE ~(\E f \in Flow : InProgress(f) /\ uniqueId[f] = s) /\ s \notin Configured
  <2>1. swallowed' = swallowed \ {s} /\ UNCHANGED <<reply, choices, entryOf>>
    BY <1>8 DEF Announce
  <2>2. PICK f \in Flow :
           /\ flowPc[f] = "free"
           /\ flowSlug' = [flowSlug EXCEPT ![f] = s]
           /\ details' = [details EXCEPT ![f] = token[s]]
           /\ uniqueId' = [uniqueId EXCEPT ![f] = s]
           /\ GoFlow(f, "confirm")
    BY <1>8 DEF Announce
  <2>3. reply[f] = "none"
    BY <2>2 DEF FlowInv, StagesOK
  <2>4. flowPc' \in [Flow -> FlowStages] /\ flowPc'[f] = "confirm"
        /\ \A g \in Flow \ {f} : flowPc'[g] = flowPc[g]
    BY <1>1, <2>2 DEF GoFlow, FlowsTypeOK, FlowStages, Forms
  <2>5. flowSlug' \in [Flow -> Slug \cup {NoSlug}] /\ flowSlug'[f] = s
        /\ \A g \in Flow \ {f} : flowSlug'[g] = flowSlug[g]
    BY <1>1, <2>2 DEF FlowsTypeOK
  <2>6. details' \in [Flow -> 0..MaxToken]
        /\ \A g \in Flow \ {f} : details'[g] = details[g]
    BY <1>1, <2>2 DEF FlowsTypeOK, AppsTypeOK
  <2>7. uniqueId' \in [Flow -> Slug \cup {NoSlug}]
        /\ \A g \in Flow \ {f} : uniqueId'[g] = uniqueId[g]
    BY <1>1, <2>2 DEF FlowsTypeOK
  <2>8. FlowTypeOK'
    <3>1. AppsTypeOK'
      BY <1>1, <1>5, <2>1 DEF AppsTypeOK
    <3>2. FlowsTypeOK'
      BY <1>1, <2>1, <2>4, <2>5, <2>6, <2>7 DEF FlowsTypeOK
    <3> QED
      BY <1>1, <2>1, <3>1, <3>2, TypePartsNext
  <2>9. StagesOK'
    BY <2>1, <2>3, <2>4, <2>5 DEF FlowInv, StagesOK
  <2>10. TestsOK'
    BY <2>1, <2>4, <2>5, <2>7 DEF FlowInv, TestsOK
  <2>11. TokensOK'
    <3>1. ASSUME NEW g \in Flow, reply'[g] = "ok", flowSlug'[g] \notin swallowed'
          PROVE  details'[g] >= announced'[flowSlug'[g]]
      <4>1. g # f /\ reply[g] = "ok"
        BY <2>1, <2>3, <3>1
      <4>2. flowPc[g] = "test" /\ flowSlug[g] \in Slug
        BY <4>1 DEF FlowInv, StagesOK, Settled
      <4>3. flowSlug[g] # s
        BY <1>8, <4>2 DEF FlowInv, TestsOK, InProgress
      <4>4. details'[g] = details[g] /\ flowSlug'[g] = flowSlug[g]
        BY <2>5, <2>6, <4>1
      <4>5. announced'[flowSlug[g]] = announced[flowSlug[g]]
        BY <1>3, <4>2, <4>3
      <4>6. flowSlug[g] \notin swallowed
        BY <2>1, <3>1, <4>3, <4>4
      <4> QED
        BY <3>1, <4>1, <4>4, <4>5, <4>6 DEF FlowInv, TokensOK
    <3> QED
      BY <1>4, <3>1 DEF TokensOK
  <2>12. EntriesOK' /\ OneEntryPerApp'
    BY <2>1 DEF FlowInv, EntriesOK, OneEntryPerApp
  <2>13. EntryFollowsTheApp'
    <3>1. ASSUME NEW m \in Maker, entryOf[m] # NoEntry, entryOf[m].slug \notin swallowed'
          PROVE  entryOf[m].token >= announced'[entryOf[m].slug]
      <4>1. entryOf[m].slug \in Slug
        BY <1>1, <3>1 DEF Entries, FlowInv, EntriesOK
      <4>2. entryOf[m].slug # s
        BY <1>8, ConfiguredIs
      <4>3. announced'[entryOf[m].slug] = announced[entryOf[m].slug]
        BY <1>3, <4>1, <4>2
      <4>4. entryOf[m].slug \notin swallowed
        BY <2>1, <3>1, <4>2
      <4> QED
        BY <3>1, <4>3, <4>4 DEF FlowInv, EntryFollowsTheApp
    <3> QED
      BY <2>1, <3>1 DEF EntryFollowsTheApp
  <2> QED
    BY <2>8, <2>9, <2>10, <2>11, <2>12, <2>13 DEF FlowInv
<1> QED
  BY <1>6, <1>7, <1>8

\* An entry is made for an app that has none, and ends every flow that tests
\* the app; or the flow ends.
LEMMA CreateEntryStep ==
    ASSUME FlowInv, NEW f \in Flow, CreateEntry(f)
    PROVE  FlowInv'
<1> DEFINE gone == {f} \cup {g \in Flow : /\ InProgress(g) /\ uniqueId[g] # NoSlug
                                          /\ uniqueId[g] = uniqueId[f]}
           without(record, nothing) == [g \in Flow |-> IF g \in gone THEN nothing ELSE record[g]]
<1>1. FlowTypeOK /\ AppsTypeOK /\ FlowsTypeOK /\ entryOf \in Entries
  BY TypeParts DEF FlowInv
<1>2. flowPc[f] = "test" /\ UNCHANGED <<appVars, swallowed>>
  BY DEF CreateEntry
<1>3. AppsTypeOK' /\ \A s \in Slug : token[s] <= token'[s]
  BY <1>1, <1>2 DEF AppsTypeOK, appVars
<1>4. flowSlug[f] \in Slug /\ uniqueId[f] = flowSlug[f] /\ uniqueId[f] # NoSlug
  BY <1>2 DEF FlowInv, StagesOK, TestsOK, Settled
<1>5. CASE EndFlow(f) /\ UNCHANGED entryOf
  BY <1>2, <1>3, <1>5, EndEffect, ElsewhereStep DEF appVars
<1>6. CASE /\ reply[f] = "ok"
           /\ entryOf' = [entryOf EXCEPT ![f] = [slug |-> flowSlug[f], token |-> details[f]]]
           /\ flowPc' = without(flowPc, "ended")
           /\ flowSlug' = without(flowSlug, NoSlug)
           /\ details' = without(details, 0)
           /\ uniqueId' = without(uniqueId, NoSlug)
           /\ reply' = without(reply, "none")
           /\ choices' = without(choices, {})
  <2>1. /\ flowPc' \in [Flow -> FlowStages]
        /\ \A g \in gone : flowPc'[g] = "ended"
        /\ \A g \in Flow \ gone : flowPc'[g] = flowPc[g]
    BY <1>1, <1>6 DEF FlowsTypeOK, FlowStages
  <2>2. flowSlug' \in [Flow -> Slug \cup {NoSlug}]
        /\ \A g \in Flow \ gone : flowSlug'[g] = flowSlug[g]
    BY <1>1, <1>6 DEF FlowsTypeOK
  <2>3. details' \in [Flow -> 0..MaxToken]
        /\ \A g \in Flow \ gone : details'[g] = details[g]
    BY <1>1, <1>6 DEF FlowsTypeOK
  <2>4. uniqueId' \in [Flow -> Slug \cup {NoSlug}]
        /\ \A g \in Flow \ gone : uniqueId'[g] = uniqueId[g]
    BY <1>1, <1>6 DEF FlowsTypeOK
  <2>5. /\ reply' \in [Flow -> {"none", "ok", "error"}]
        /\ \A g \in gone : reply'[g] = "none"
        /\ \A g \in Flow \ gone : reply'[g] = reply[g]
    BY <1>1, <1>6 DEF FlowsTypeOK
  <2>6. choices' \in [Flow -> SUBSET Slug]
    <3>1. \A g \in Flow : choices'[g] \in SUBSET Slug
      BY <1>1, <1>6 DEF FlowsTypeOK
    <3> QED
      BY <1>6, <3>1
  <2>7. f \in Maker /\ [slug |-> flowSlug[f], token |-> details[f]]
                         \in [slug : Slug \cup {NoSlug}, token : 0..MaxToken]
    BY <1>1, <1>4 DEF Maker, FlowsTypeOK
  <2>8. entryOf' \in Entries
        /\ entryOf'[f] = [slug |-> flowSlug[f], token |-> details[f]]
        /\ \A m \in Maker \ {f} : entryOf'[m] = entryOf[m]
    BY <1>1, <1>6, <2>7 DEF Entries
  <2>9. FlowTypeOK'
    <3>1. FlowsTypeOK'
      BY <2>1, <2>2, <2>3, <2>4, <2>5, <2>6 DEF FlowsTypeOK
    <3> QED
      BY <1>3, <2>8, <3>1, TypePartsNext
  <2>10. StagesOK'
    BY <2>1, <2>2, <2>5 DEF FlowInv, StagesOK, Settled
  <2>11. TestsOK'
    <3>1. ASSUME NEW g \in Flow, flowPc'[g] = "test"
          PROVE  /\ uniqueId'[g] = flowSlug'[g]
                 /\ \A m \in Maker : entryOf'[m].slug # flowSlug'[g]
      <4>1. g \notin gone
        BY <2>1, <3>1
      <4>2. flowPc[g] = "test" /\ flowSlug'[g] = flowSlug[g] /\ uniqueId'[g] = uniqueId[g]
        BY <2>1, <2>2, <2>4, <3>1, <4>1
      <4>3. uniqueId[g] = flowSlug[g] /\ \A m \in Maker : entryOf[m].slug # flowSlug[g]
        BY <4>2 DEF FlowInv, TestsOK
      <4>4. flowSlug[g] # flowSlug[f]
        BY <1>4, <4>1, <4>2, <4>3 DEF InProgress
      <4>5. \A m \in Maker : entryOf'[m].slug # flowSlug[g]
        BY <2>8, <4>3, <4>4
      <4> QED
        BY <4>2, <4>3, <4>5
    <3> QED
      BY <3>1 DEF TestsOK
  <2>12. TokensOK'
    <3>1. \A s \in Slug : announced'[s] <= token'[s]
      BY <1>2 DEF FlowInv, TokensOK, appVars
    <3>2. ASSUME NEW g \in Flow, reply'[g] = "ok", flowSlug'[g] \notin swallowed'
          PROVE  details'[g] >= announced'[flowSlug'[g]]
      <4>1. g \notin gone
        BY <2>5, <3>2
      <4>2. reply[g] = "ok" /\ flowSlug'[g] = flowSlug[g] /\ details'[g] = details[g]
        BY <2>2, <2>3, <2>5, <3>2, <4>1
      <4> QED
        BY <1>2, <3>2, <4>2 DEF FlowInv, TokensOK, appVars
    <3> QED
      BY <3>1, <3>2 DEF TokensOK
  <2>13. EntriesOK'
    BY <1>4, <2>8 DEF FlowInv, EntriesOK
  <2>14. OneEntryPerApp'
    <3>1. \A m \in Maker : entryOf[m].slug # flowSlug[f]
      BY <1>2 DEF FlowInv, TestsOK
    <3> QED
      BY <2>8, <3>1 DEF FlowInv, OneEntryPerApp
  <2>15. EntryFollowsTheApp'
    <3>1. ASSUME NEW m \in Maker, entryOf'[m] # NoEntry, entryOf'[m].slug \notin swallowed
          PROVE  entryOf'[m].token >= announced[entryOf'[m].slug]
      <4>1. CASE m = f
        BY <1>6, <2>8, <3>1, <4>1 DEF FlowInv, TokensOK
      <4>2. CASE m # f
        BY <2>8, <3>1, <4>2 DEF FlowInv, EntryFollowsTheApp
      <4> QED
        BY <4>1, <4>2
    <3> QED
      BY <1>2, <3>1 DEF EntryFollowsTheApp, appVars
  <2> QED
    BY <2>9, <2>10, <2>11, <2>12, <2>13, <2>14, <2>15 DEF FlowInv
<1> QED
  BY <1>5, <1>6 DEF CreateEntry

-----------------------------------------------------------------------------
(* The theorems about flows. *)

\* At first no flow has begun, and an entry is of the app it was made for.
LEMMA FlowInitInv == FlowInit => FlowInv
<1> SUFFICES ASSUME FlowInit PROVE FlowInv
  OBVIOUS
<1>1. PICK before \in SUBSET {s \in Slug : slugState[s] = "running"} :
         entryOf = [m \in Maker |-> IF m \in before THEN [slug |-> m, token |-> 1] ELSE NoEntry]
  BY DEF FlowInit
<1> DEFINE Kind == [slug : Slug \cup {NoSlug}, token : 0..MaxToken]
<1>0. NoEntry \in Kind /\ NoEntry.slug = NoSlug
  BY DEF NoEntry
<1>2. ASSUME NEW m \in Maker
      PROVE  /\ entryOf[m] \in Kind
             /\ \/ m \in Slug /\ entryOf[m].slug = m /\ entryOf[m].token = 1
                \/ entryOf[m] = NoEntry
  <2>1. CASE m \in before
    <3>1. m \in Slug /\ entryOf[m] = [slug |-> m, token |-> 1]
      BY <1>1, <2>1
    <3> QED
      BY <3>1
  <2>2. CASE m \notin before
    <3>1. entryOf[m] = NoEntry
      BY <1>1, <2>2
    <3> QED
      BY <1>0, <3>1
  <2> QED
    BY <2>1, <2>2
<1> HIDE DEF Kind
<1>3. \A m \in Maker : entryOf[m] # NoEntry => m \in Slug /\ announced[m] = 1
  BY <1>1 DEF FlowInit
<1>4. FlowTypeOK
  <2>1. AppsTypeOK
    BY DEF FlowInit, AppsTypeOK
  <2>2. FlowsTypeOK
    BY DEF FlowInit, FlowsTypeOK, FlowStages
  <2>4. entryOf \in Entries
    BY <1>1, <1>2 DEF Entries, Kind
  <2> QED
    BY <2>1, <2>2, <2>4, TypeParts
<1>5. StagesOK /\ TestsOK
  BY DEF FlowInit, StagesOK, TestsOK, Settled
<1>6. TokensOK
  BY DEF FlowInit, TokensOK
<1>7. EntriesOK
  BY <1>2 DEF EntriesOK
<1>8. OneEntryPerApp
  BY <1>0, <1>2 DEF OneEntryPerApp
<1>9. EntryFollowsTheApp
  BY <1>2, <1>3 DEF EntryFollowsTheApp
<1> QED
  BY <1>4, <1>5, <1>6, <1>7, <1>8, <1>9 DEF FlowInv

\* Every step keeps what is known of flows and entries.
LEMMA FlowStep == FlowInv /\ [FlowNext]_flowVars => FlowInv'
<1> SUFFICES ASSUME FlowInv, [FlowNext]_flowVars PROVE FlowInv'
  OBVIOUS
<1>1. ASSUME NEW f \in Flow,
             \/ UserFlow(f) \/ ChooseEngine(f) \/ Resolve(f) \/ AddRepository(f) \/ Pick(f)
             \/ UseApp(f) \/ Prepare(f) \/ ReadDetails(f) \/ Identify(f) \/ AppReplies(f)
             \/ CreateEntry(f) \/ CloseForm(f)
      PROVE  FlowInv'
  BY <1>1, EarlySteps, PrepareStep, IdentifyStep, AppRepliesStep, CreateEntryStep
<1>2. ASSUME NEW m \in Maker, RemoveEntry(m)
      PROVE  FlowInv'
  BY <1>2, RemoveEntryStep
<1>3. ASSUME NEW s \in Slug, Announce(s) \/ AppChanges(s)
      PROVE  FlowInv'
  BY <1>3, AnnounceStep, AppChangesStep
<1>4. CASE UNCHANGED flowVars
  <2>1. FlowTypeOK' /\ StagesOK' /\ TestsOK' /\ TokensOK'
    BY <1>4 DEF FlowInv, FlowTypeOK, StagesOK, TestsOK, TokensOK, flowVars, appVars
  <2>2. EntriesOK' /\ OneEntryPerApp' /\ EntryFollowsTheApp'
    BY <1>4 DEF FlowInv, EntriesOK, OneEntryPerApp, EntryFollowsTheApp, flowVars, appVars
  <2> QED
    BY <2>1, <2>2 DEF FlowInv
<1> QED
  BY <1>1, <1>2, <1>3, <1>4 DEF FlowNext

\* What is known of flows and entries is known at all times.
LEMMA FlowInvariant == FlowSpec => []FlowInv
BY FlowInitInv, FlowStep, PTL DEF FlowSpec

\* However many flows of the user and of discovery are at an app, for any
\* number of apps, it gets one entry (_abort_if_unique_id_configured).
THEOREM OneEntryForAnApp == FlowSpec => []OneEntryPerApp
<1>1. FlowInv => OneEntryPerApp
  BY DEF FlowInv
<1> QED
  BY <1>1, FlowInvariant, PTL

\* What an app announced is what its entry has, or newer, unless a flow with its
\* unique id swallowed the announcement (async_step_hassio).
THEOREM EntriesFollow == FlowSpec => []EntryFollowsTheApp
<1>1. FlowInv => EntryFollowsTheApp
  BY DEF FlowInv
<1> QED
  BY <1>1, FlowInvariant, PTL

-----------------------------------------------------------------------------
(* The lost history. *)

\* The repair is of the last reset at most, and what the user dismissed is not
\* newer while the entry is there. A poll is under way only with an entry.
HistoryOK ==
    /\ historyNote.since <= resets
    /\ owner # "removed" => dismissed <= historyNote.since
    /\ owner = "removed" => historyNote = NoNote
    /\ statusPoll # "idle" => owner \in {"loading", "loaded"}

NoticeInv == NoticeTypeOK /\ HistoryOK /\ ToldOnce

\* At first nothing is told.
LEMMA NoticeInitInv == NoticeInit => NoticeInv
<1> SUFFICES ASSUME NoticeInit PROVE NoticeInv
  OBVIOUS
<1>1. historyNote \in [since : 0..MaxReset, hidden : BOOLEAN] /\ historyNote.since = 0
  BY DEF NoticeInit, NoNote
<1>2. NoticeTypeOK
  BY <1>1 DEF NoticeInit, NoticeTypeOK, Answer
<1> QED
  BY <1>1, <1>2 DEF NoticeInit, NoticeInv, HistoryOK, ToldOnce

\* A step that leaves the history's repair alone, and removes no entry.
LEMMA OtherNotices ==
    ASSUME NoticeInv, NoticeTypeOK', UNCHANGED <<historyNote, dismissed>>,
           resets <= resets', owner' = "removed" <=> owner = "removed",
           statusPoll' # "idle" => owner' \in {"loading", "loaded"}
    PROVE  NoticeInv'
<1>1. HistoryOK'
  BY DEF NoticeInv, HistoryOK, NoticeTypeOK
<1>2. ToldOnce'
  BY DEF NoticeInv, ToldOnce
<1> QED
  BY <1>1, <1>2 DEF NoticeInv

\* Every step tells of a reset once.
LEMMA NoticeStep == NoticeInv /\ [NoticeNext]_noticeVars => NoticeInv'
<1> SUFFICES ASSUME NoticeInv, [NoticeNext]_noticeVars PROVE NoticeInv'
  OBVIOUS
<1> USE DEF appSide, statusVars, noteVars
<1>0. NoticeTypeOK /\ HistoryOK /\ ToldOnce
  BY DEF NoticeInv
<1>1. CASE AppMoves
  <2>1. resets' \in 0..MaxReset /\ resets <= resets'
    BY <1>0, <1>1 DEF AppMoves, NoticeTypeOK
  <2>2. NoticeTypeOK'
    BY <1>0, <1>1, <2>1 DEF AppMoves, NoticeTypeOK
  <2> QED
    BY <1>0, <1>1, <2>1, <2>2, OtherNotices DEF AppMoves, HistoryOK
<1>2. CASE Ask \/ TurnAnswered \/ TurnEnds
  <2>1. turn' \in {"idle", "asked"} \cup Answer
    BY <1>0, <1>2 DEF Ask, TurnAnswered, TurnEnds, NoticeTypeOK, Answer
  <2>2. expiredNote' \in BOOLEAN
    BY <1>0, <1>2 DEF Ask, TurnAnswered, TurnEnds, NoticeTypeOK
  <2>3. UNCHANGED <<owner, appSide, statusVars, historyNote, dismissed>>
    BY <1>2 DEF Ask, TurnAnswered, TurnEnds
  <2>4. NoticeTypeOK'
    BY <1>0, <2>1, <2>2, <2>3 DEF NoticeTypeOK
  <2> QED
    BY <1>0, <2>3, <2>4, OtherNotices DEF HistoryOK, NoticeTypeOK
<1>3. CASE AskStatus
  <2>1. NoticeTypeOK'
    BY <1>0, <1>3 DEF AskStatus, NoticeTypeOK
  <2> QED
    BY <1>0, <1>3, <2>1, OtherNotices DEF AskStatus, HistoryOK, NoticeTypeOK
<1>4. CASE StatusAnswered
  <2>1. statusPoll' \in {"idle", "asked"} \cup Answer
    BY <1>0, <1>4 DEF StatusAnswered, NoticeTypeOK, Answer
  <2>2. NoticeTypeOK'
    BY <1>0, <1>4, <2>1 DEF StatusAnswered, NoticeTypeOK
  <2> QED
    BY <1>0, <1>4, <2>2, OtherNotices DEF StatusAnswered, HistoryOK, NoticeTypeOK
<1>5. CASE StatusPolled
  <2>1. \A data, note : note \in BOOLEAN => Heeded(data, note) \in BOOLEAN
    BY DEF Heeded
  <2>2. expiredNote' \in BOOLEAN
    BY <1>0, <1>5, <2>1 DEF StatusPolled, NoticeTypeOK
  <2>3. auth' \in Answer \ {"failed"}
    BY <1>0, <1>5 DEF StatusPolled, NoticeTypeOK
  <2>4. succeeded' \in BOOLEAN
    BY <1>5 DEF StatusPolled
  <2>5. owner' \in {"out", "loading", "loaded"} /\ owner # "removed" /\ statusPoll' = "idle"
    <3>1. owner \in {"loading", "loaded"}
      BY <1>0, <1>5 DEF StatusPolled, HistoryOK, Answer
    <3> QED
      BY <1>5, <3>1 DEF StatusPolled
  <2>6. UNCHANGED <<appSide, turn, historyNote, dismissed>>
    BY <1>5 DEF StatusPolled
  <2>7. NoticeTypeOK'
    BY <1>0, <2>2, <2>3, <2>4, <2>5, <2>6 DEF NoticeTypeOK
  <2> QED
    BY <1>0, <2>5, <2>6, <2>7, OtherNotices DEF NoticeTypeOK
<1>6. CASE UsagePolled
  <2>1. UNCHANGED <<owner, appSide, turn, statusVars, expiredNote, dismissed>>
        /\ owner = "loaded"
    BY <1>6 DEF UsagePolled
  <2>2. CASE UNCHANGED historyNote
    <3>1. NoticeTypeOK'
      BY <1>0, <2>1, <2>2 DEF NoticeTypeOK
    <3> QED
      BY <1>0, <2>1, <2>2, <3>1, OtherNotices DEF HistoryOK, NoticeTypeOK
  <2>3. CASE /\ historyNote.since # resets
             /\ historyNote' = [since |-> resets, hidden |-> FALSE]
    <3>1. historyNote' \in [since : 0..MaxReset, hidden : BOOLEAN]
          /\ historyNote'.since = resets
      BY <1>0, <2>3 DEF NoticeTypeOK
    <3>2. NoticeTypeOK'
      BY <1>0, <2>1, <3>1 DEF NoticeTypeOK
    <3>3. dismissed < resets /\ resets \in Nat
      BY <1>0, <2>1, <2>3 DEF NoticeTypeOK, HistoryOK
    <3>4. HistoryOK'
      BY <1>0, <2>1, <3>1, <3>3 DEF HistoryOK, NoticeTypeOK
    <3>5. ToldOnce'
      BY <2>1, <3>1, <3>3 DEF ToldOnce
    <3> QED
      BY <3>2, <3>4, <3>5 DEF NoticeInv
  <2> QED
    BY <1>6, <2>2, <2>3 DEF UsagePolled
<1>7. CASE Dismiss
  <2>1. UNCHANGED <<owner, appSide, turn, statusVars, expiredNote>>
        /\ dismissed' = historyNote.since
    BY <1>7 DEF Dismiss
  <2>2. historyNote' \in [since : 0..MaxReset, hidden : BOOLEAN]
        /\ historyNote'.since = historyNote.since /\ historyNote'.hidden
    BY <1>0, <1>7 DEF Dismiss, NoticeTypeOK
  <2>3. NoticeTypeOK'
    BY <1>0, <2>1, <2>2 DEF NoticeTypeOK
  <2>4. owner # "removed"
    BY <1>0, <1>7 DEF Dismiss, HistoryOK
  <2>5. HistoryOK'
    BY <1>0, <2>1, <2>2, <2>4 DEF HistoryOK, NoticeTypeOK
  <2>6. ToldOnce'
    BY <2>2 DEF ToldOnce
  <2> QED
    BY <2>3, <2>5, <2>6 DEF NoticeInv
<1>8. CASE SetUpOwner
  <2>1. NoticeTypeOK'
    BY <1>0, <1>8 DEF SetUpOwner, NoticeTypeOK
  <2> QED
    BY <1>0, <1>8, <2>1, OtherNotices DEF SetUpOwner, NoticeTypeOK
<1>9. CASE UnloadOwner
  <2>1. NoticeTypeOK'
    BY <1>0, <1>9 DEF UnloadOwner, StatusGone, NoticeTypeOK, Answer
  <2> QED
    BY <1>0, <1>9, <2>1, OtherNotices DEF UnloadOwner, StatusGone, NoticeTypeOK
<1>10. CASE RemoveOwner
  <2>1. owner' = "removed" /\ historyNote' = NoNote /\ statusPoll' = "idle"
        /\ UNCHANGED <<appSide, turn, statusVars, dismissed>>
    BY <1>0, <1>10 DEF RemoveOwner, HistoryOK
  <2>2. historyNote' \in [since : 0..MaxReset, hidden : BOOLEAN] /\ historyNote'.since = 0
    BY <2>1 DEF NoNote
  <2>3. NoticeTypeOK'
    BY <1>0, <1>10, <2>1, <2>2 DEF RemoveOwner, NoticeTypeOK
  <2>4. HistoryOK'
    BY <1>0, <2>1, <2>2 DEF HistoryOK, NoticeTypeOK
  <2>5. ToldOnce'
    BY <2>1 DEF ToldOnce
  <2> QED
    BY <2>3, <2>4, <2>5 DEF NoticeInv
<1>11. CASE Reboot
  <2>1. NoticeTypeOK'
    BY <1>0, <1>11 DEF Reboot, StatusGone, Kept, NoticeTypeOK, Answer
  <2> QED
    BY <1>0, <1>11, <2>1, OtherNotices DEF Reboot, StatusGone, Kept, NoticeTypeOK
<1>12. CASE UNCHANGED noticeVars
  <2>1. NoticeTypeOK'
    BY <1>0, <1>12 DEF noticeVars, NoticeTypeOK
  <2> QED
    BY <1>0, <1>12, <2>1, OtherNotices DEF noticeVars, HistoryOK, NoticeTypeOK
<1> QED
  BY <1>1, <1>2, <1>3, <1>4, <1>5, <1>6, <1>7, <1>8, <1>9, <1>10, <1>11, <1>12
     DEF NoticeNext, StatusStep

\* A loss of the history that the user dismissed is not told again, through any
\* number of polls, reloads and restarts (_async_note_history_reset).
THEOREM LossToldOnce == NoticeSpec => []ToldOnce
<1>1. NoticeInv => ToldOnce
  BY DEF NoticeInv
<1> QED
  BY <1>1, NoticeInitInv, NoticeStep, PTL DEF NoticeSpec

-----------------------------------------------------------------------------
(* What is shown for a text. *)

\* f maps each of the first n prefixes of a text to what is shown for it.
Shows(f, text, n) ==
    f = [i \in 0..n |-> IF i = 0 THEN <<>> ELSE f[i - 1] \o ShownAt(text, i)]

\* A set with 0, and with n + 1 for each n of it, has every number.
LEMMA EveryNumber ==
    ASSUME NEW S, 0 \in S, \A n \in Nat : n \in S => n + 1 \in S
    PROVE  \A n \in Nat : n \in S
<1> DEFINE Missing == {n \in Nat : n \notin S}
<1> SUFFICES ASSUME Missing # {}
             PROVE  FALSE
  OBVIOUS
<1>1. IsWellFoundedOn(OpToRel(<, Nat), Nat)
  BY NatLessThanWellFounded
<1>2. PICK x \in Missing : \A y \in Missing : ~(<<y, x>> \in OpToRel(<, Nat))
  <2>1. Missing \subseteq Nat
    OBVIOUS
  <2> QED
    BY <1>1, <2>1, WFMin
<1>3. \A y \in Missing : ~(y < x)
  BY <1>2 DEF OpToRel
<1>4. x \in Nat /\ x \notin S /\ x # 0
  OBVIOUS
<1>5. x - 1 \in Nat /\ x - 1 < x
  BY <1>4
<1>6. x - 1 \in S
  BY <1>3, <1>5
<1>7. (x - 1) + 1 = x
  BY <1>4
<1> QED
  BY <1>4, <1>5, <1>6, <1>7

\* Texts are joined in any order of joining.
LEMMA TextsInAnyOrder == \A a, b, c \in Seq(Raw) : (a \o b) \o c = a \o (b \o c)
BY ConcatAssociative

\* What is shown may be joined in any order of joining too.
LEMMA ShownInAnyOrder == \A a, b, c \in Seq(Shown) : (a \o b) \o c = a \o (b \o c)
BY ConcatAssociative

\* What is shown is defined for every prefix.
LEMMA ShownExists ==
    ASSUME NEW text
    PROVE  \A n \in Nat : \E f : Shows(f, text, n)
<1> DEFINE S == {n \in Nat : \E f : Shows(f, text, n)}
<1>1. 0 \in S
  <2>1. Shows([i \in 0..0 |-> <<>>], text, 0)
    BY DEF Shows
  <2> QED
    BY <2>1
<1>2. ASSUME NEW n \in Nat, n \in S
      PROVE  n + 1 \in S
  <2>1. PICK f : Shows(f, text, n)
    BY <1>2
  <2> DEFINE g == [i \in 0..(n + 1) |->
                     IF i = n + 1 THEN f[n] \o ShownAt(text, n + 1) ELSE f[i]]
  <2>2. \A i \in 0..n : f[i] = IF i = 0 THEN <<>> ELSE f[i - 1] \o ShownAt(text, i)
    BY <2>1, Zenon DEF Shows
  <2>3. \A i \in 0..(n + 1) : g[i] = IF i = 0 THEN <<>> ELSE g[i - 1] \o ShownAt(text, i)
    <3> SUFFICES ASSUME NEW i \in 0..(n + 1)
                 PROVE  g[i] = IF i = 0 THEN <<>> ELSE g[i - 1] \o ShownAt(text, i)
      OBVIOUS
    <3>1. CASE i = n + 1
      <4>1. i # 0 /\ i - 1 = n /\ n \in 0..(n + 1) /\ n # n + 1
        BY <3>1
      <4>2. g[n] = f[n]
        BY <4>1
      <4>3. g[i] = f[n] \o ShownAt(text, i)
        BY <3>1
      <4> QED
        BY <4>1, <4>2, <4>3, Zenon
    <3>2. CASE i # n + 1
      <4>1. i \in 0..n /\ (i # 0 => i - 1 \in 0..(n + 1) /\ i - 1 # n + 1)
        BY <3>2
      <4>2. g[i] = f[i] /\ (i # 0 => g[i - 1] = f[i - 1])
        BY <4>1, <3>2
      <4> QED
        BY <4>1, <4>2, <2>2, Zenon
    <3> QED
      BY <3>1, <3>2
  <2>4. Shows(g, text, n + 1)
    <3>1. g = [i \in 0..(n + 1) |-> g[i]]
      OBVIOUS
    <3> HIDE DEF g
    <3> QED
      BY <2>3, <3>1, Zenon DEF Shows
  <2> QED
    BY <2>4
<1> HIDE DEF S
<1>3. \A n \in Nat : n \in S
  BY <1>1, <1>2, EveryNumber
<1> QED
  BY <1>3 DEF S

\* Nothing is shown for the empty prefix, and what a code point adds is put
\* behind what is shown for those before it.
LEMMA ShownStep ==
    ASSUME NEW text \in Seq(Raw)
    PROVE  /\ ShownUpTo(text)[0] = <<>>
           /\ \A i \in 1..Len(text) :
                 ShownUpTo(text)[i] = ShownUpTo(text)[i - 1] \o ShownAt(text, i)
<1> DEFINE u == ShownUpTo(text)
<1>1. Len(text) \in Nat
  BY LenProperties
<1>2. u = CHOOSE f : f = [i \in 0..Len(text) |->
                            IF i = 0 THEN <<>> ELSE f[i - 1] \o ShownAt(text, i)]
  BY Zenon DEF ShownUpTo
<1>3. \E f : f = [i \in 0..Len(text) |->
                    IF i = 0 THEN <<>> ELSE f[i - 1] \o ShownAt(text, i)]
  BY <1>1, ShownExists, Zenon DEF Shows
<1>4. u = [i \in 0..Len(text) |-> IF i = 0 THEN <<>> ELSE u[i - 1] \o ShownAt(text, i)]
  <2> HIDE DEF u
  <2> QED
    BY <1>2, <1>3, Zenon
<1> HIDE DEF u
<1>5. \A i \in 0..Len(text) : u[i] = IF i = 0 THEN <<>> ELSE u[i - 1] \o ShownAt(text, i)
  BY <1>4, Zenon
<1>6. 0 \in 0..Len(text) /\ \A i \in 1..Len(text) : i \in 0..Len(text) /\ i # 0
  BY <1>1
<1> QED
  BY <1>5, <1>6, Zenon DEF u

\* A code point is shown as at most one unit.
LEMMA ShownAtType ==
    ASSUME NEW text, NEW i
    PROVE  ShownAt(text, i) \in Seq(Shown)
<1>1. ShownAt(text, i) \in {<<"pair">>, <<>>, <<"char">>, <<"replaced">>}
  BY Zenon DEF ShownAt
<1>2. /\ <<"pair">> \in Seq(Shown) /\ <<"char">> \in Seq(Shown)
      /\ <<"replaced">> \in Seq(Shown)
  BY DEF Shown
<1>3. <<>> \in Seq(Shown)
  BY EmptySeq
<1> QED
  BY <1>1, <1>2, <1>3, Zenon

\* What is shown is a sequence of units.
LEMMA ShownType ==
    ASSUME NEW text \in Seq(Raw)
    PROVE  \A i \in 0..Len(text) : ShownUpTo(text)[i] \in Seq(Shown)
<1> DEFINE u == ShownUpTo(text)
           S == {n \in Nat : n <= Len(text) => u[n] \in Seq(Shown)}
<1>1. Len(text) \in Nat
  BY LenProperties
<1>2. 0 \in S
  <2>1. u[0] = <<>> /\ <<>> \in Seq(Shown)
    BY ShownStep, EmptySeq, Zenon
  <2> QED
    BY <2>1
<1>3. ASSUME NEW n \in Nat, n \in S
      PROVE  n + 1 \in S
  <2> SUFFICES ASSUME n + 1 <= Len(text)
               PROVE  u[n + 1] \in Seq(Shown)
    OBVIOUS
  <2>1. n + 1 \in 1..Len(text) /\ (n + 1) - 1 = n /\ n <= Len(text)
    BY <1>1
  <2>2. u[n + 1] = u[n] \o ShownAt(text, n + 1)
    BY <2>1, ShownStep
  <2>3. u[n] \in Seq(Shown) /\ ShownAt(text, n + 1) \in Seq(Shown)
    BY <1>3, <2>1, ShownAtType
  <2> HIDE DEF u
  <2> QED
    BY <2>2, <2>3, ConcatProperties
<1>4. \A n \in Nat : n \in S
  <2> HIDE DEF S
  <2> QED
    BY <1>2, <1>3, EveryNumber
<1> QED
  BY <1>1, <1>4

\* What is shown of a whole text is a sequence of units too.
LEMMA ValidType ==
    ASSUME NEW text \in Seq(Raw)
    PROVE  Valid(text) \in Seq(Shown)
<1>1. Len(text) \in 0..Len(text)
  BY LenProperties
<1> QED
  BY <1>1, ShownType, Zenon DEF Valid

\* Something is shown for every text that is not empty.
LEMMA ValidNotEmpty ==
    ASSUME NEW text \in Seq(Raw), text # <<>>
    PROVE  Valid(text) # <<>>
<1> DEFINE u == ShownUpTo(text)
           n == Len(text)
<1>1. n \in Nat \ {0}
  BY EmptySeq
<1>2. \A i \in 1..n : ShownAt(text, i) # <<>> \/ PairAt(text, i - 1)
  BY Zenon DEF ShownAt
<1>3. \A i \in 1..n : ShownAt(text, i) # <<>> => u[i] # <<>>
  <2> SUFFICES ASSUME NEW i \in 1..n, ShownAt(text, i) # <<>>
               PROVE  u[i] # <<>>
    OBVIOUS
  <2>1. u[i] = u[i - 1] \o ShownAt(text, i)
    BY ShownStep
  <2>2. i - 1 \in 0..n
    BY <1>1
  <2>3. u[i - 1] \in Seq(Shown) /\ ShownAt(text, i) \in Seq(Shown)
    BY <2>2, ShownType, ShownAtType
  <2> HIDE DEF u
  <2> QED
    BY <2>1, <2>3, ConcatEqualIffEmpty
<1>4. CASE PairAt(text, n - 1)
  <2>1. n - 1 \in 1..n /\ n - 1 \in 0..n /\ n \in 1..n /\ text[n - 1] = "high"
    BY <1>1, <1>4 DEF PairAt
  <2>2. ~PairAt(text, (n - 1) - 1)
    <3>1. ((n - 1) - 1) + 1 = n - 1
      BY <1>1
    <3> QED
      BY <2>1, <3>1 DEF PairAt
  <2>3. u[n - 1] # <<>>
    BY <1>2, <1>3, <2>1, <2>2
  <2>4. u[n] = u[n - 1] \o ShownAt(text, n)
    BY <2>1, ShownStep
  <2>5. u[n - 1] \in Seq(Shown) /\ ShownAt(text, n) \in Seq(Shown)
    BY <2>1, ShownType, ShownAtType
  <2> HIDE DEF u
  <2>6. u[n] # <<>>
    BY <2>3, <2>4, <2>5, ConcatEqualIffEmpty
  <2> QED
    BY <2>6 DEF Valid, u
<1>5. CASE ~PairAt(text, n - 1)
  <2>1. n \in 1..n
    BY <1>1
  <2>2. u[n] # <<>>
    BY <1>2, <1>3, <1>5, <2>1
  <2> QED
    BY <2>2 DEF Valid
<1> QED
  BY <1>4, <1>5

\* The text t is not cut off s in the middle of a pair.
CutApart(s, t) == EndsInHigh(s) /\ t # <<>> => t[1] # "low"

\* What a code point of the first text shows does not depend on the second.
LEMMA ShownAtInFirst ==
    ASSUME NEW s \in Seq(Raw), NEW t \in Seq(Raw), CutApart(s, t),
           NEW i \in 1..Len(s)
    PROVE  ShownAt(s \o t, i) = ShownAt(s, i)
<1>1. Len(s) \in Nat /\ Len(t) \in Nat
  BY LenProperties
<1>2. /\ Len(s \o t) = Len(s) + Len(t)
      /\ \A j \in 1..Len(s) + Len(t) :
            (s \o t)[j] = IF j <= Len(s) THEN s[j] ELSE t[j - Len(s)]
  BY ConcatProperties
<1>3. \A j \in 1..Len(s) : (s \o t)[j] = s[j]
  BY <1>1, <1>2
<1>4. PairAt(s \o t, i) <=> PairAt(s, i)
  <2>1. CASE i < Len(s)
    <3>1. i + 1 \in 1..Len(s) /\ i \in 1..(Len(s) - 1) /\ i \in 1..(Len(s) + Len(t) - 1)
      BY <1>1, <2>1
    <3> QED
      BY <1>2, <1>3, <3>1 DEF PairAt
  <2>2. CASE i = Len(s)
    <3>1. ~PairAt(s, i)
      BY <1>1, <2>2 DEF PairAt
    <3>2. ASSUME PairAt(s \o t, i)
          PROVE  FALSE
      <4>1. i + 1 <= Len(s) + Len(t) /\ (s \o t)[i] = "high" /\ (s \o t)[i + 1] = "low"
        BY <1>1, <1>2, <3>2 DEF PairAt
      <4>2. i + 1 \in 1..Len(s) + Len(t) /\ (i + 1) - Len(s) = 1 /\ ~(i + 1 <= Len(s))
        BY <1>1, <2>2, <4>1
      <4>3. t[1] = "low"
        BY <1>2, <4>1, <4>2
      <4>4. s # <<>> /\ t # <<>>
        <5>1. Len(s) # 0 /\ Len(t) # 0
          BY <1>1, <2>2, <4>1
        <5> QED
          BY <5>1, EmptySeq
      <4>5. s[Len(s)] = "high"
        BY <1>3, <2>2, <4>1
      <4> QED
        BY <4>3, <4>4, <4>5 DEF CutApart, EndsInHigh
    <3> QED
      BY <3>1, <3>2
  <2> QED
    BY <1>1, <2>1, <2>2
<1>5. PairAt(s \o t, i - 1) <=> PairAt(s, i - 1)
  <2>1. CASE i = 1
    BY <2>1 DEF PairAt
  <2>2. CASE i # 1
    <3>1. /\ i - 1 \in 1..Len(s) /\ (i - 1) + 1 = i
          /\ i - 1 \in 1..(Len(s) - 1) /\ i - 1 \in 1..(Len(s) + Len(t) - 1)
      BY <1>1, <2>2
    <3> QED
      BY <1>2, <1>3, <3>1 DEF PairAt
  <2> QED
    BY <2>1, <2>2
<1>6. (s \o t)[i] = s[i]
  BY <1>3
<1> QED
  BY <1>4, <1>5, <1>6 DEF ShownAt

\* Nor does what one of the second shows depend on the first.
LEMMA ShownAtInSecond ==
    ASSUME NEW s \in Seq(Raw), NEW t \in Seq(Raw), CutApart(s, t),
           NEW i \in 1..Len(t)
    PROVE  ShownAt(s \o t, Len(s) + i) = ShownAt(t, i)
<1> DEFINE k == Len(s) + i
<1>1. Len(s) \in Nat /\ Len(t) \in Nat
  BY LenProperties
<1>2. /\ Len(s \o t) = Len(s) + Len(t)
      /\ \A j \in 1..Len(s) + Len(t) :
            (s \o t)[j] = IF j <= Len(s) THEN s[j] ELSE t[j - Len(s)]
  BY ConcatProperties
<1>3. \A j \in 1..Len(t) : (s \o t)[Len(s) + j] = t[j]
  BY <1>1, <1>2
<1>4. PairAt(s \o t, k) <=> PairAt(t, i)
  <2>1. k + 1 = Len(s) + (i + 1) /\ (k \in 1..(Len(s) + Len(t) - 1) <=> i \in 1..(Len(t) - 1))
    BY <1>1
  <2>2. i \in 1..(Len(t) - 1) => i + 1 \in 1..Len(t)
    BY <1>1
  <2> QED
    BY <1>2, <1>3, <2>1, <2>2 DEF PairAt
<1>5. PairAt(s \o t, k - 1) <=> PairAt(t, i - 1)
  <2>1. CASE i = 1
    <3>1. ~PairAt(t, i - 1)
      BY <2>1 DEF PairAt
    <3>2. ASSUME PairAt(s \o t, k - 1)
          PROVE  FALSE
      <4>1. k - 1 = Len(s) /\ (k - 1) + 1 = Len(s) + 1
        BY <1>1, <2>1
      <4>2. Len(s) \in 1..Len(s) + Len(t) /\ Len(s) # 0
        BY <1>1, <1>2, <3>2, <4>1 DEF PairAt
      <4>3. (s \o t)[Len(s)] = "high" /\ (s \o t)[Len(s) + 1] = "low"
        BY <3>2, <4>1 DEF PairAt
      <4>4. s[Len(s)] = "high" /\ t[1] = "low"
        BY <1>1, <1>2, <1>3, <2>1, <4>2, <4>3
      <4>5. s # <<>> /\ t # <<>>
        BY <1>1, <4>2, EmptySeq
      <4> QED
        BY <4>4, <4>5 DEF CutApart, EndsInHigh
    <3> QED
      BY <3>1, <3>2
  <2>2. CASE i # 1
    <3>1. /\ i - 1 \in 1..Len(t) /\ i - 1 \in 1..(Len(t) - 1) /\ (i - 1) + 1 = i
          /\ k - 1 = Len(s) + (i - 1) /\ (k - 1) + 1 = Len(s) + i
          /\ k - 1 \in 1..(Len(s) + Len(t) - 1)
      BY <1>1, <2>2
    <3> QED
      BY <1>2, <1>3, <3>1 DEF PairAt
  <2> QED
    BY <2>1, <2>2
<1>6. (s \o t)[k] = t[i]
  BY <1>3
<1> HIDE DEF k
<1>7. ShownAt(s \o t, k) = ShownAt(t, i)
  BY <1>4, <1>5, <1>6 DEF ShownAt
<1> QED
  BY <1>7 DEF k

\* Each prefix of the first text shows what it shows in front of the second.
LEMMA ShownOfFirst ==
    ASSUME NEW s \in Seq(Raw), NEW t \in Seq(Raw), CutApart(s, t)
    PROVE  ShownUpTo(s \o t)[Len(s)] = Valid(s)
<1> DEFINE u == ShownUpTo(s)
           v == ShownUpTo(s \o t)
           S == {n \in Nat : n <= Len(s) => v[n] = u[n]}
<1>1. Len(s) \in Nat /\ Len(t) \in Nat
  BY LenProperties
<1>2. s \o t \in Seq(Raw) /\ Len(s \o t) = Len(s) + Len(t)
  BY ConcatProperties
<1>3. 0 \in S
  <2>1. u[0] = <<>> /\ v[0] = <<>>
    BY <1>2, ShownStep
  <2> QED
    BY <2>1
<1>4. ASSUME NEW n \in Nat, n \in S
      PROVE  n + 1 \in S
  <2> SUFFICES ASSUME n + 1 <= Len(s)
               PROVE  v[n + 1] = u[n + 1]
    OBVIOUS
  <2>1. /\ n + 1 \in 1..Len(s) /\ n + 1 \in 1..Len(s \o t) /\ (n + 1) - 1 = n
        /\ n <= Len(s)
    BY <1>1, <1>2
  <2>2. u[n + 1] = u[n] \o ShownAt(s, n + 1)
    BY <2>1, ShownStep
  <2>3. v[n + 1] = v[n] \o ShownAt(s \o t, n + 1)
    BY <1>2, <2>1, ShownStep
  <2>4. ShownAt(s \o t, n + 1) = ShownAt(s, n + 1)
    BY <2>1, ShownAtInFirst
  <2>5. v[n] = u[n]
    BY <1>4, <2>1
  <2> HIDE DEF u, v
  <2> QED
    BY <2>2, <2>3, <2>4, <2>5, Zenon
<1>5. \A n \in Nat : n \in S
  <2> HIDE DEF S
  <2> QED
    BY <1>3, <1>4, EveryNumber
<1> QED
  BY <1>1, <1>5 DEF Valid

\* And a prefix of the second adds what it shows alone.
LEMMA ValidOfParts ==
    ASSUME NEW s \in Seq(Raw), NEW t \in Seq(Raw), CutApart(s, t)
    PROVE  Valid(s \o t) = Valid(s) \o Valid(t)
<1> DEFINE u == ShownUpTo(t)
           v == ShownUpTo(s \o t)
           S == {n \in Nat : n <= Len(t) => v[Len(s) + n] = Valid(s) \o u[n]}
<1>1. Len(s) \in Nat /\ Len(t) \in Nat
  BY LenProperties
<1>2. s \o t \in Seq(Raw) /\ Len(s \o t) = Len(s) + Len(t)
  BY ConcatProperties
<1>3. Valid(s) \in Seq(Shown)
  BY ValidType
<1>4. 0 \in S
  <2>1. u[0] = <<>> /\ v[Len(s) + 0] = Valid(s)
    BY <1>1, ShownStep, ShownOfFirst
  <2>2. Valid(s) \o <<>> = Valid(s)
    BY <1>3, ConcatEmptySeq
  <2> HIDE DEF u, v
  <2>3. v[Len(s) + 0] = Valid(s) \o u[0]
    BY <2>1, <2>2, Zenon
  <2> QED
    BY <2>3
<1>5. ASSUME NEW n \in Nat, n \in S
      PROVE  n + 1 \in S
  <2> SUFFICES ASSUME n + 1 <= Len(t)
               PROVE  v[Len(s) + (n + 1)] = Valid(s) \o u[n + 1]
    OBVIOUS
  <2>1. /\ n + 1 \in 1..Len(t) /\ (n + 1) - 1 = n /\ n <= Len(t) /\ n \in 0..Len(t)
        /\ Len(s) + (n + 1) \in 1..Len(s \o t) /\ (Len(s) + (n + 1)) - 1 = Len(s) + n
    BY <1>1, <1>2
  <2>2. u[n + 1] = u[n] \o ShownAt(t, n + 1)
    BY <2>1, ShownStep
  <2>3. v[Len(s) + (n + 1)] = v[Len(s) + n] \o ShownAt(s \o t, Len(s) + (n + 1))
    BY <1>2, <2>1, ShownStep
  <2>4. ShownAt(s \o t, Len(s) + (n + 1)) = ShownAt(t, n + 1)
    BY <2>1, ShownAtInSecond
  <2>5. v[Len(s) + n] = Valid(s) \o u[n]
    BY <1>5, <2>1
  <2>6. u[n] \in Seq(Shown) /\ ShownAt(t, n + 1) \in Seq(Shown)
    BY <2>1, ShownType, ShownAtType
  <2> HIDE DEF u, v
  <2>7. (Valid(s) \o u[n]) \o ShownAt(t, n + 1) = Valid(s) \o (u[n] \o ShownAt(t, n + 1))
    BY <1>3, <2>6, ShownInAnyOrder, Zenon
  <2> QED
    BY <2>2, <2>3, <2>4, <2>5, <2>7, Zenon
<1>6. \A n \in Nat : n \in S
  <2> HIDE DEF S
  <2> QED
    BY <1>4, <1>5, EveryNumber
<1>7. v[Len(s) + Len(t)] = Valid(s) \o u[Len(t)]
  BY <1>1, <1>6
<1> QED
  BY <1>2, <1>7, Zenon DEF Valid

-----------------------------------------------------------------------------
(* What is known of an answer. *)

\* Nothing came before the app answers; while it streams, what is held is the
\* half the answer so far ends in, and all before it is shown.
HeldBack ==
    /\ streamPc = "ask" => sent = <<>> /\ half = <<>> /\ shown = <<>>
    /\ streamPc = "read" => half = Held(sent) /\ shown = Valid(Whole(sent))

StreamInv == StreamTypeOK /\ HeldBack /\ ShowsWhatWasSent

\* A text without the half it ends in.
LEMMA WholeType ==
    ASSUME NEW text \in Seq(Raw)
    PROVE  /\ Whole(text) \in Seq(Raw)
           /\ EndsInHigh(text) =>
                 /\ Len(Whole(text)) = Len(text) - 1
                 /\ \A i \in 1..Len(text) - 1 : Whole(text)[i] = text[i]
                 /\ Len(text) \in Nat \ {0}
<1>1. Len(text) \in Nat /\ \A i \in 1..Len(text) : text[i] \in Raw
  BY LenProperties, ElementOfSeq
<1>2. CASE EndsInHigh(text)
  <2>1. Len(text) \in Nat \ {0}
    BY <1>2, EmptySeq DEF EndsInHigh
  <2> DEFINE w == SubSeq(text, 1, Len(text) - 1)
  <2>2. \A i \in 1..(Len(text) - 1) : text[i] \in Raw
    BY <1>1
  <2>3. /\ w \in Seq(Raw)
        /\ Len(w) = IF 1 <= Len(text) - 1 THEN (Len(text) - 1) - 1 + 1 ELSE 0
        /\ \A i \in 1..((Len(text) - 1) - 1 + 1) : w[i] = text[1 + i - 1]
    BY <2>1, <2>2, SubSeqProperties
  <2> HIDE DEF w
  <2>4. Len(w) = Len(text) - 1 /\ \A i \in 1..Len(text) - 1 : w[i] = text[i]
    <3>1. Len(w) = Len(text) - 1
      <4>1. CASE Len(text) = 1
        <5>1. ~(1 <= Len(text) - 1) /\ Len(text) - 1 = 0
          BY <4>1
        <5> QED
          BY <2>3, <5>1, Zenon
      <4>2. CASE Len(text) # 1
        <5> DEFINE n == Len(text)
        <5>1. n \in Nat /\ n # 0 /\ n # 1
          BY <2>1, <4>2
        <5> HIDE DEF n
        <5>2. 1 <= n - 1 /\ (n - 1) - 1 + 1 = n - 1
          BY <5>1
        <5> QED
          BY <2>3, <5>2, Zenon DEF n
      <4> QED
        BY <4>1, <4>2
    <3>2. ASSUME NEW i \in 1..Len(text) - 1
          PROVE  w[i] = text[i]
      <4>1. i \in 1..((Len(text) - 1) - 1 + 1) /\ 1 + i - 1 = i
        BY <2>1, <3>2
      <4> QED
        BY <2>3, <4>1
    <3> QED
      BY <3>1, <3>2
  <2>5. Whole(text) = w
    BY <1>2 DEF Whole, w
  <2> QED
    BY <2>1, <2>3, <2>4, <2>5
<1>3. CASE ~EndsInHigh(text)
  BY <1>3 DEF Whole
<1> QED
  BY <1>2, <1>3

\* A text is what is whole of it and the half it ends in, cut apart.
LEMMA WholeAndHeld ==
    ASSUME NEW text \in Seq(Raw)
    PROVE  /\ text = Whole(text) \o Held(text)
           /\ Held(text) \in Seq(Raw)
           /\ CutApart(Whole(text), Held(text))
<1>1. Whole(text) \in Seq(Raw)
  BY WholeType
<1>2. CASE EndsInHigh(text)
  <2>1. Held(text) = <<"high">>
    BY <1>2 DEF Held
  <2>2. <<"high">> \in Seq(Raw) /\ Len(<<"high">>) = 1 /\ <<"high">>[1] = "high"
    BY DEF Raw
  <2>3. /\ Len(Whole(text)) = Len(text) - 1 /\ Len(text) \in Nat \ {0}
        /\ \A i \in 1..Len(text) - 1 : Whole(text)[i] = text[i]
    BY <1>2, WholeType
  <2> DEFINE both == Whole(text) \o <<"high">>
  <2>4. /\ both \in Seq(Raw)
        /\ Len(both) = Len(Whole(text)) + Len(<<"high">>)
        /\ \A i \in 1..Len(Whole(text)) + Len(<<"high">>) :
              both[i] = IF i <= Len(Whole(text)) THEN Whole(text)[i]
                        ELSE <<"high">>[i - Len(Whole(text))]
    BY <1>1, <2>2, ConcatProperties
  <2> HIDE DEF both
  <2>5. Len(both) = Len(text)
    BY <2>2, <2>3, <2>4
  <2>6. text[Len(text)] = "high"
    BY <1>2 DEF EndsInHigh
  <2>7. \A i \in 1..Len(text) : text[i] = both[i]
    <3> SUFFICES ASSUME NEW i \in 1..Len(text)
                 PROVE  text[i] = both[i]
      OBVIOUS
    <3>1. CASE i = Len(text)
      BY <2>2, <2>3, <2>4, <2>6, <3>1
    <3>2. CASE i # Len(text)
      BY <2>2, <2>3, <2>4, <3>2
    <3> QED
      BY <3>1, <3>2
  <2>8. text = both
    BY <2>4, <2>5, <2>7, SeqEqual
  <2>9. CutApart(Whole(text), <<"high">>)
    BY <2>2 DEF CutApart
  <2> QED
    BY <2>1, <2>2, <2>8, <2>9 DEF both
<1>3. CASE ~EndsInHigh(text)
  <2>1. Held(text) = <<>> /\ Whole(text) = text /\ <<>> \in Seq(Raw)
    BY <1>3, EmptySeq DEF Held, Whole
  <2>2. text \o <<>> = text
    BY ConcatEmptySeq
  <2> QED
    BY <2>1, <2>2 DEF CutApart
<1> QED
  BY <1>2, <1>3

\* The half of a text and a delta are put together: what is whole of both, and
\* the half they end in, do not depend on the cut between them.
LEMMA JoinsWhatIsHeld ==
    ASSUME NEW text \in Seq(Raw), NEW delta \in Seq(Raw)
    PROVE  LET joined == Held(text) \o delta
           IN  /\ joined \in Seq(Raw)
               /\ Held(text \o delta) = Held(joined)
               /\ Whole(text \o delta) = Whole(text) \o Whole(joined)
               /\ CutApart(Whole(text), Whole(joined))
<1> DEFINE w == Whole(text)
           h == Held(text)
           joined == h \o delta
           all == text \o delta
<1>1. w \in Seq(Raw) /\ h \in Seq(Raw) /\ text = w \o h
  BY WholeType, WholeAndHeld
<1>2. joined \in Seq(Raw) /\ Len(joined) = Len(h) + Len(delta)
  BY <1>1, ConcatProperties
<1>3. all = w \o joined
  <2> HIDE DEF w, h
  <2>1. (w \o h) \o delta = w \o (h \o delta)
    BY <1>1, TextsInAnyOrder
  <2> QED
    BY <1>1, <2>1, Zenon
<1>4. /\ all \in Seq(Raw) /\ Len(all) = Len(w) + Len(joined)
      /\ \A i \in 1..Len(w) + Len(joined) :
            all[i] = IF i <= Len(w) THEN w[i] ELSE joined[i - Len(w)]
  <2>1. /\ w \o joined \in Seq(Raw) /\ Len(w \o joined) = Len(w) + Len(joined)
        /\ \A i \in 1..Len(w) + Len(joined) :
              (w \o joined)[i] = IF i <= Len(w) THEN w[i] ELSE joined[i - Len(w)]
    BY <1>1, <1>2, ConcatProperties
  <2> QED
    BY <1>3, <2>1, Zenon
<1>5. Len(w) \in Nat /\ Len(joined) \in Nat
  BY <1>1, <1>2, LenProperties
<1>6. EndsInHigh(text) => joined # <<>> /\ joined[1] = "high"
  <2> SUFFICES ASSUME EndsInHigh(text)
               PROVE  joined # <<>> /\ joined[1] = "high"
    OBVIOUS
  <2>1. h = <<"high">>
    BY DEF Held
  <2>2. Len(h) = 1 /\ h[1] = "high" /\ Len(delta) \in Nat
    BY <2>1, LenProperties
  <2>3. \A i \in 1..Len(h) + Len(delta) :
           joined[i] = IF i <= Len(h) THEN h[i] ELSE delta[i - Len(h)]
    BY <1>1, ConcatProperties
  <2>4. joined[1] = "high" /\ Len(joined) # 0
    BY <1>2, <2>2, <2>3
  <2> QED
    BY <2>4, EmptySeq
<1>7. ~EndsInHigh(text) => ~EndsInHigh(w)
  BY DEF Whole
<1>8. CASE joined = <<>>
  <2>1. ~EndsInHigh(text) /\ all = w
    <3>1. w \o <<>> = w
      BY <1>1, ConcatEmptySeq
    <3> QED
      BY <1>3, <1>6, <1>8, <3>1, Zenon
  <2>2. ~EndsInHigh(<<>>) /\ ~EndsInHigh(w)
    BY <1>7, <2>1 DEF EndsInHigh
  <2> HIDE DEF w, joined, all
  <2>3. Held(all) = <<>> /\ Held(joined) = <<>> /\ Whole(all) = w /\ Whole(joined) = <<>>
    BY <1>8, <2>1, <2>2 DEF Held, Whole
  <2>4. w \o <<>> = w
    BY <1>1, ConcatEmptySeq
  <2>5. CutApart(w, <<>>)
    BY DEF CutApart
  <2> QED
    BY <1>2, <2>3, <2>4, <2>5 DEF w, joined, all
<1>9. CASE joined # <<>>
  <2>1. Len(joined) # 0 /\ Len(all) # 0 /\ all # <<>>
    BY <1>2, <1>4, <1>5, <1>9, EmptySeq
  <2>2. all[Len(all)] = joined[Len(joined)]
    <3> HIDE DEF w, joined, all
    <3>1. /\ Len(all) \in 1..Len(w) + Len(joined) /\ ~(Len(all) <= Len(w))
          /\ Len(all) - Len(w) = Len(joined)
      BY <1>4, <1>5, <2>1
    <3> QED
      BY <1>4, <3>1
  <2>3. EndsInHigh(all) <=> EndsInHigh(joined)
    BY <1>9, <2>1, <2>2, Zenon DEF EndsInHigh
  <2>4. Held(all) = Held(joined)
    BY <2>3 DEF Held
  <2>5. Whole(joined) \in Seq(Raw)
    BY <1>2, WholeType
  <2>6. CASE EndsInHigh(joined)
    <3> DEFINE j == Whole(joined)
    <3>1. /\ Len(j) = Len(joined) - 1
          /\ \A i \in 1..Len(joined) - 1 : j[i] = joined[i]
      BY <1>2, <2>6, WholeType
    <3>2. /\ Whole(all) \in Seq(Raw)
          /\ Len(Whole(all)) = Len(all) - 1
          /\ \A i \in 1..Len(all) - 1 : Whole(all)[i] = all[i]
      BY <1>4, <2>3, <2>6, WholeType
    <3>3. /\ w \o j \in Seq(Raw) /\ Len(w \o j) = Len(w) + Len(j)
          /\ \A i \in 1..Len(w) + Len(j) :
                (w \o j)[i] = IF i <= Len(w) THEN w[i] ELSE j[i - Len(w)]
      BY <1>1, <2>5, ConcatProperties
    <3> HIDE DEF w, joined, all, j
    <3>4. Len(Whole(all)) = Len(w \o j)
      BY <1>4, <1>5, <3>1, <3>2, <3>3
    <3>5. \A i \in 1..Len(Whole(all)) : Whole(all)[i] = (w \o j)[i]
      <4> SUFFICES ASSUME NEW i \in 1..Len(Whole(all))
                   PROVE  Whole(all)[i] = (w \o j)[i]
        OBVIOUS
      <4>1. i \in 1..Len(all) - 1 /\ i \in 1..Len(w) + Len(joined) /\ i \in 1..Len(w) + Len(j)
        BY <1>4, <1>5, <3>1, <3>2
      <4>2. Whole(all)[i] = IF i <= Len(w) THEN w[i] ELSE joined[i - Len(w)]
        BY <1>4, <3>2, <4>1
      <4>3. (w \o j)[i] = IF i <= Len(w) THEN w[i] ELSE j[i - Len(w)]
        BY <3>3, <4>1
      <4>4. ~(i <= Len(w)) => i - Len(w) \in 1..Len(joined) - 1
        BY <1>5, <3>1, <4>1
      <4> QED
        BY <3>1, <4>2, <4>3, <4>4
    <3>6. Whole(all) = w \o j
      BY <3>2, <3>3, <3>4, <3>5, SeqEqual
    <3>7. CutApart(w, j)
      <4> SUFFICES ASSUME EndsInHigh(w), j # <<>>
                   PROVE  j[1] # "low"
        BY DEF CutApart
      <4>1. joined[1] = "high"
        BY <1>6, <1>7
      <4>2. 1 \in 1..Len(joined) - 1
        BY <1>5, <2>5, <3>1, EmptySeq DEF j
      <4> QED
        BY <3>1, <4>1, <4>2
    <3> QED
      BY <1>2, <2>4, <3>6, <3>7 DEF w, joined, all, j
  <2>7. CASE ~EndsInHigh(joined)
    <3>1. Whole(all) = all /\ Whole(joined) = joined
      BY <2>3, <2>7 DEF Whole
    <3>2. CutApart(w, joined)
      <4> SUFFICES ASSUME EndsInHigh(w), joined # <<>>
                   PROVE  joined[1] # "low"
        BY DEF CutApart
      <4> QED
        BY <1>6, <1>7
    <3> HIDE DEF w, joined, all
    <3>3. Whole(all) = w \o Whole(joined) /\ CutApart(w, Whole(joined))
      BY <1>3, <3>1, <3>2, Zenon
    <3> QED
      BY <1>2, <2>4, <3>3 DEF w, joined, all
  <2> QED
    BY <2>6, <2>7
<1> QED
  BY <1>8, <1>9

\* A delta is a text.
LEMMA DeltaType ==
    ASSUME NEW delta \in Delta
    PROVE  delta \in Seq(Raw)
<1>1. PICK n \in 0..MaxDelta : delta \in [1..n -> Raw]
  BY DEF Delta
<1> QED
  BY <1>1

\* Both halves of the invariant hold when an answer begins.
LEMMA StreamStarts ==
    ASSUME StreamInit
    PROVE  StreamInv
<1>1. <<>> \in Seq(Raw) /\ <<>> \in Seq(Shown)
  BY EmptySeq
<1>2. StreamTypeOK
  <2>1. 0 \in 0..MaxDeltas
    OBVIOUS
  <2> QED
    BY <1>1, <2>1, Zenon DEF StreamInit, StreamTypeOK
<1> QED
  BY <1>2 DEF StreamInit, StreamInv, HeldBack, ShowsWhatWasSent

\* What an answer that nothing came of shows.
LEMMA NothingShown ==
    Held(<<>>) = <<>> /\ Whole(<<>>) = <<>> /\ Valid(<<>>) = <<>>
<1>1. <<>> \in Seq(Raw) /\ Len(<<>>) = 0
  BY EmptySeq
<1>2. ShownUpTo(<<>>)[0] = <<>>
  BY <1>1, ShownStep
<1>3. ~EndsInHigh(<<>>)
  BY DEF EndsInHigh
<1> QED
  BY <1>1, <1>2, <1>3 DEF Valid, Held, Whole

\* What is whole of a text is shown, and then the half it ends in: the text.
LEMMA ValidWithHeld ==
    ASSUME NEW text \in Seq(Raw)
    PROVE  Valid(Whole(text)) \o Valid(Held(text)) = Valid(text)
<1>1. /\ Whole(text) \in Seq(Raw) /\ Held(text) \in Seq(Raw)
      /\ CutApart(Whole(text), Held(text)) /\ text = Whole(text) \o Held(text)
  BY WholeType, WholeAndHeld
<1>2. Valid(Whole(text) \o Held(text)) = Valid(Whole(text)) \o Valid(Held(text))
  BY <1>1, ValidOfParts
<1> QED
  BY <1>1, <1>2, Zenon

\* The app answers.
LEMMA AnswersKeeps ==
    ASSUME StreamInv, Answers
    PROVE  StreamInv'
<1>1. StreamTypeOK'
  <2>1. <<"answer">> \in Seq(Shown)
    BY DEF Shown
  <2> QED
    BY <2>1 DEF StreamInv, StreamTypeOK, Answers
<1>2. sent' = <<>> /\ half' = <<>> /\ shown' = <<>> /\ streamPc' # "ask"
  BY DEF StreamInv, HeldBack, Answers
<1>3. HeldBack'
  <2>1. half' = Held(sent') /\ shown' = Valid(Whole(sent'))
    BY <1>2, NothingShown, Zenon
  <2> QED
    BY <1>2, <2>1, Zenon DEF HeldBack
<1>4. ShowsWhatWasSent'
  <2>1. shown' \o Valid(half') = Valid(sent')
    <3>1. <<>> \o <<>> = <<>>
      OBVIOUS
    <3> QED
      BY <1>2, <3>1, NothingShown, Zenon
  <2> QED
    BY <1>2, <2>1, Zenon DEF ShowsWhatWasSent
<1> QED
  BY <1>1, <1>3, <1>4 DEF StreamInv

\* A delta comes.
LEMMA ReadDeltaKeeps ==
    ASSUME StreamInv, ReadDelta
    PROVE  StreamInv'
<1>1. PICK text \in Delta :
        /\ sent' = sent \o text
        /\ half' = Held(Joined(text))
        /\ shown' = shown \o Valid(Whole(Joined(text)))
  BY Zenon DEF ReadDelta
<1>2. /\ streamPc = "read" /\ streamPc' = "read" /\ deltas < MaxDeltas
      /\ deltas' = deltas + 1
      /\ UNCHANGED degraded /\ UNCHANGED answered
  BY DEF ReadDelta
<1>3. /\ sent \in Seq(Raw) /\ half \in {<<>>, <<"high">>} /\ shown \in Seq(Shown)
      /\ answered \in Seq(Shown) /\ degraded \in BOOLEAN /\ deltas \in 0..MaxDeltas
  BY DEF StreamInv, StreamTypeOK
<1>4. half = Held(sent) /\ shown = Valid(Whole(sent))
  BY <1>2 DEF StreamInv, HeldBack
<1> DEFINE joined == Held(sent) \o text
<1>5. text \in Seq(Raw) /\ Joined(text) = joined
  BY <1>4, DeltaType DEF Joined
<1>6. /\ joined \in Seq(Raw)
      /\ Held(sent \o text) = Held(joined)
      /\ Whole(sent \o text) = Whole(sent) \o Whole(joined)
      /\ CutApart(Whole(sent), Whole(joined))
  BY <1>3, <1>5, JoinsWhatIsHeld
<1>7. Whole(sent) \in Seq(Raw) /\ Whole(joined) \in Seq(Raw)
  BY <1>3, <1>6, WholeType
<1>8. Valid(Whole(sent) \o Whole(joined)) = Valid(Whole(sent)) \o Valid(Whole(joined))
  BY <1>6, <1>7, ValidOfParts
<1> HIDE DEF joined
<1>9. half' = Held(sent') /\ shown' = Valid(Whole(sent'))
  BY <1>1, <1>4, <1>5, <1>6, <1>8, Zenon
<1>10. StreamTypeOK'
  <2>1. sent' \in Seq(Raw)
    BY <1>1, <1>3, <1>5, ConcatProperties
  <2>2. half' \in {<<>>, <<"high">>}
    BY <1>9, Zenon DEF Held
  <2>3. shown' \in Seq(Shown)
    BY <1>9, <2>1, WholeType, ValidType
  <2>4. deltas' \in 0..MaxDeltas
    BY <1>2, <1>3
  <2> QED
    BY <1>2, <1>3, <2>1, <2>2, <2>3, <2>4 DEF StreamTypeOK
<1>11. HeldBack'
  BY <1>2, <1>9 DEF HeldBack
<1>12. ShowsWhatWasSent'
  <2>1. sent' \in Seq(Raw)
    BY <1>10 DEF StreamTypeOK
  <2>2. Valid(Whole(sent')) \o Valid(Held(sent')) = Valid(sent')
    BY <2>1, ValidWithHeld
  <2>3. shown' \o Valid(half') = Valid(sent')
    BY <1>9, <2>2, Zenon
  <2> QED
    BY <1>2, <2>3 DEF ShowsWhatWasSent
<1> QED
  BY <1>10, <1>11, <1>12 DEF StreamInv

\* The answer is complete.
LEMMA ReadDoneKeeps ==
    ASSUME StreamInv, ReadDone
    PROVE  StreamInv'
<1> DEFINE streamed == shown \o Valid(half)
<1>1. PICK d \in BOOLEAN, expired \in BOOLEAN :
        IF expired
        THEN /\ streamPc' = "raised"
             /\ shown' = streamed
             /\ UNCHANGED <<degraded, answered>>
        ELSE /\ streamPc' = "done"
             /\ degraded' = d
             /\ shown' = IF d /\ streamed # <<>> THEN Append(streamed, "note") ELSE streamed
             /\ answered' = IF shown' # <<>> THEN shown'
                            ELSE <<IF d THEN "note" ELSE "answer">>
  BY Zenon DEF ReadDone
<1>2. streamPc = "read" /\ half' = <<>> /\ UNCHANGED deltas /\ UNCHANGED sent
  BY DEF ReadDone
<1>3. /\ sent \in Seq(Raw) /\ shown \in Seq(Shown) /\ answered \in Seq(Shown)
      /\ degraded \in BOOLEAN /\ deltas \in 0..MaxDeltas
  BY DEF StreamInv, StreamTypeOK
<1>4. streamed = Valid(sent)
  BY <1>2 DEF StreamInv, ShowsWhatWasSent
<1>5. Valid(sent) \in Seq(Shown) /\ (sent # <<>> => Valid(sent) # <<>>)
  BY <1>3, ValidType, ValidNotEmpty
<1>6. /\ "note" \in Shown
      /\ <<"note">> \in Seq(Shown) /\ <<"answer">> \in Seq(Shown)
  BY DEF Shown
<1>7. /\ Append(Valid(sent), "note") \in Seq(Shown)
      /\ Append(Valid(sent), "note") = Valid(sent) \o <<"note">>
      /\ Append(Valid(sent), "note") # <<>>
      /\ Valid(sent) \o <<>> = Valid(sent)
  BY <1>5, <1>6, AppendProperties, AppendIsConcat, ConcatEmptySeq
<1> HIDE DEF streamed
<1>8. CASE expired
  <2>1. streamPc' = "raised" /\ shown' = Valid(sent) /\ UNCHANGED degraded /\ UNCHANGED answered
    BY <1>1, <1>4, <1>8
  <2>2. StreamTypeOK'
    BY <1>2, <1>3, <1>5, <2>1 DEF StreamTypeOK
  <2> QED
    BY <2>1, <2>2 DEF StreamInv, HeldBack, ShowsWhatWasSent
<1>9. CASE ~expired
  <2>1. /\ streamPc' = "done" /\ degraded' = d
        /\ shown' = IF d /\ streamed # <<>> THEN Append(streamed, "note") ELSE streamed
        /\ answered' = IF shown' # <<>> THEN shown'
                       ELSE <<IF d THEN "note" ELSE "answer">>
    BY <1>1, <1>9, Zenon
  <2>2. shown' \in Seq(Shown)
    BY <1>4, <1>5, <1>7, <2>1, Zenon
  <2>3. answered' \in Seq(Shown)
    <3>1. CASE d
      BY <1>6, <2>1, <2>2, <3>1, Zenon
    <3>2. CASE ~d
      BY <1>6, <2>1, <2>2, <3>2, Zenon
    <3> QED
      BY <3>1, <3>2
  <2>4. StreamTypeOK'
    BY <1>2, <1>3, <2>1, <2>2, <2>3 DEF StreamTypeOK
  <2>5. ASSUME sent # <<>>
        PROVE  answered' = Valid(sent) \o IF d THEN <<"note">> ELSE <<>>
    <3>1. CASE d
      <4>1. shown' = Append(Valid(sent), "note")
        BY <1>4, <1>5, <2>1, <2>5, <3>1, Zenon
      <4>2. answered' = Append(Valid(sent), "note")
        BY <1>7, <2>1, <4>1, Zenon
      <4> QED
        BY <1>7, <3>1, <4>2, Zenon
    <3>2. CASE ~d
      <4>1. shown' = Valid(sent)
        BY <1>4, <2>1, <3>2, Zenon
      <4>2. answered' = Valid(sent)
        BY <1>5, <2>1, <2>5, <4>1, Zenon
      <4> QED
        BY <1>7, <3>2, <4>2, Zenon
    <3> QED
      BY <3>1, <3>2
  <2>6. ShowsWhatWasSent'
    BY <1>2, <2>1, <2>5 DEF ShowsWhatWasSent
  <2>7. HeldBack'
    BY <2>1 DEF HeldBack
  <2> QED
    BY <2>4, <2>6, <2>7 DEF StreamInv
<1> QED
  BY <1>8, <1>9

\* Every step keeps what is known of an answer.
LEMMA StreamStep == StreamInv /\ [StreamNext]_streamVars => StreamInv'
<1> SUFFICES ASSUME StreamInv, [StreamNext]_streamVars
             PROVE  StreamInv'
  OBVIOUS
<1>1. CASE Answers
  BY <1>1, AnswersKeeps
<1>2. CASE ReadDelta
  BY <1>2, ReadDeltaKeeps
<1>3. CASE ReadDone
  BY <1>3, ReadDoneKeeps
<1>4. CASE Breaks
  BY <1>4 DEF Breaks, StreamInv, StreamTypeOK, HeldBack, ShowsWhatWasSent
<1>5. CASE UNCHANGED streamVars
  BY <1>5 DEF streamVars, StreamInv, StreamTypeOK, HeldBack, ShowsWhatWasSent
<1> QED
  BY <1>1, <1>2, <1>3, <1>4, <1>5 DEF StreamNext

\* However the app cuts an answer into deltas, of any number and any length,
\* the chat log is given the answer so far but for a half that waits for its
\* other one, and the reply is the answer (_iter_ndjson, _async_stream_read).
THEOREM AnswerIsShown == StreamSpec => []ShowsWhatWasSent
<1>1. StreamInv => ShowsWhatWasSent
  BY DEF StreamInv
<1> QED
  BY <1>1, StreamStarts, StreamStep, PTL DEF StreamSpec

-----------------------------------------------------------------------------
(* The parts side by side. *)

\* What runs side by side is what is proved part by part: each part's
\* behaviour among the others is one of its own.
LEMMA EachPartAlone ==
    PartsSpec => VoiceSpec /\ CardSpec /\ FlowSpec /\ StreamSpec /\ NoticeSpec
<1>1. PartsInit => VoiceInit /\ CardInit /\ FlowInit /\ StreamInit /\ NoticeInit
  BY Zenon DEF PartsInit
<1>2. [PartsNext]_partsVars => [VoiceNext]_voiceVars
  BY Zenon DEF PartsNext, partsVars
<1>3. [PartsNext]_partsVars => [CardNext]_cardVars
  BY Zenon DEF PartsNext, partsVars
<1>4. [PartsNext]_partsVars => [FlowNext]_flowVars
  BY Zenon DEF PartsNext, partsVars
<1>5. [PartsNext]_partsVars => [StreamNext]_streamVars
  BY Zenon DEF PartsNext, partsVars
<1>6. [PartsNext]_partsVars => [NoticeNext]_noticeVars
  BY Zenon DEF PartsNext, partsVars
<1> QED
  BY <1>1, <1>2, <1>3, <1>4, <1>5, <1>6, PTL
     DEF PartsSpec, VoiceSpec, CardSpec, FlowSpec, StreamSpec, NoticeSpec

\* Side by side, the parts keep their variables to their types.
THEOREM PartsTyped == PartsSpec => []PartsTypeOK
<1>1. VoiceInv /\ CardInv /\ FlowInv /\ StreamInv /\ NoticeInv => PartsTypeOK
  BY DEF VoiceInv, CardInv, FlowInv, StreamInv, NoticeInv, PartsTypeOK
<1>2. StreamSpec => []StreamInv
  BY StreamStarts, StreamStep, PTL DEF StreamSpec
<1>3. NoticeSpec => []NoticeInv
  BY NoticeInitInv, NoticeStep, PTL DEF NoticeSpec
<1> QED
  BY <1>1, <1>2, <1>3, Invariance, CardInvariance, FlowInvariant, EachPartAlone, PTL

=============================================================================
