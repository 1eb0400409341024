------------------------------- MODULE MCParts -------------------------------
(* Five parts that share no state, each on a small instance: a behaviour is *)
(* one of one part, while the others stay where they begin.                 *)
EXTENDS VoiceSetup, CardResource, ConfigFlow, AnswerStream, Notices

VARIABLE part

partsVars == <<part, voiceVars, cardVars, flowVars, streamVars, noticeVars>>

FirstRun == CHOOSE r \in Run : TRUE
FirstWiring == CHOOSE w \in Wiring : TRUE
FirstFlow == CHOOSE f \in Flow : TRUE

\* Runs, wirings and flows are used once each, and one is like another: only
\* behaviours that use the first of them first are looked at.
FirstComesFirst ==
    /\ voicePc[FirstRun] = "idle" => \A r \in Run : voicePc[r] = "idle"
    /\ wiring[FirstWiring].is = "free" => \A w \in Wiring : wiring[w].is = "free"
    /\ flowPc[FirstFlow] = "free" => \A f \in Flow : flowPc[f] = "free"

PartsInit ==
    /\ part \in {"voice", "card", "flow", "stream", "notice"}
    /\ VoiceInit /\ CardInit /\ FlowInit /\ StreamInit /\ NoticeInit
    /\ addon["whisper"] = addon["piper"]
    /\ part # "voice" => /\ addon = [s \in VoiceApps |-> "absent"]
                         /\ wiring = [w \in Wiring |-> NoWiring]
    /\ part # "card" => lastCard = 0
    /\ known \in {{}, Slug} /\ Configured \in {{}, Slug}
    /\ \A s, t \in Slug : slugState[s] = slugState[t]
    /\ part # "flow" => known = {}

PartsNext ==
    \/ /\ part = "voice" /\ VoiceNext
       /\ UNCHANGED <<part, cardVars, flowVars, streamVars, noticeVars>>
    \/ /\ part = "card" /\ CardNext
       /\ UNCHANGED <<part, voiceVars, flowVars, streamVars, noticeVars>>
    \/ /\ part = "flow" /\ FlowNext
       /\ UNCHANGED <<part, voiceVars, cardVars, streamVars, noticeVars>>
    \/ /\ part = "stream" /\ StreamNext
       /\ UNCHANGED <<part, voiceVars, cardVars, flowVars, noticeVars>>
    \/ /\ part = "notice" /\ NoticeNext
       /\ UNCHANGED <<part, voiceVars, cardVars, flowVars, streamVars>>

PartsSpec == PartsInit /\ [][PartsNext]_partsVars /\ VoiceFairness /\ NoticeFairness

\* Every part's variables have the values they are declared for.
PartsTypeOK == VoiceTypeOK /\ CardTypeOK /\ FlowTypeOK /\ StreamTypeOK /\ NoticeTypeOK
=============================================================================
