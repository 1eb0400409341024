----------------------------- MODULE Asking_proofs -----------------------------
(***************************************************************************)
(* Proofs about Asking, for any number of calls, entries, users and        *)
(* changes of the card's target, and any time to live of a proposal.       *)
(***************************************************************************)
EXTENDS Asking, FiniteSetTheorems, TLAPS

USE ClientConstants, NotifyConstants, CardConstants

-----------------------------------------------------------------------------
(* Types. *)

\* A call that goes to another stage, or to the app of an entry, is a call.
LEMMA CallMoves ==
    ASSUME NEW r \in Calls
    PROVE  /\ \A stage \in Stages : [r EXCEPT !.at = stage] \in Calls
           /\ \A e \in Entry : SentBy(e, r) \in Calls
           /\ \A proposal \in BOOLEAN, stage \in Stages :
                [r EXCEPT !.proposal = proposal, !.at = stage] \in Calls
<1>1. \A stage \in Stages : [r EXCEPT !.at = stage] \in Calls
  BY DEF Calls
<1>2. \A e \in Entry : SentBy(e, r) \in Calls
  BY DEF Calls, SentBy, Stages
<1>3. \A proposal \in BOOLEAN, stage \in Stages :
        [r EXCEPT !.proposal = proposal, !.at = stage] \in Calls
  BY DEF Calls
<1> QED BY <1>1, <1>2, <1>3

\* A call that was not made yet is a call.
LEMMA FreeIsACall == Free \in Calls
BY DEF Free, Calls, Stages

\* What is set is a call, and so the calls stay calls.
LEMMA SetTypes ==
    ASSUME TypeOK, NEW c \in Call, NEW r \in Calls, Set(c, r)
    PROVE  /\ call' \in [Call -> Calls]
           /\ call'[c] = r
           /\ \A d \in Call : d # c => call'[d] = call[d]
BY DEF TypeOK, ClientTypeOK, Set

\* What the card asks, and what the action is called with.
LEMMA AskTypes ==
    ASSUME TypeOK, NEW c \in Call, NEW u \in User \cup {NoUser},
           NEW named \in Entry \cup {NoEntry}
    PROVE  /\ [[Free EXCEPT !.named = named]
                 EXCEPT !.at = "asked", !.from = "card", !.caller = u,
                        !.generation = generation] \in Calls
           /\ \A m \in Call :
                [[Free EXCEPT !.mode = "write", !.named = named, !.writes = m]
                   EXCEPT !.at = "asked", !.from = "card", !.caller = u,
                          !.generation = generation] \in Calls
           /\ \A mode \in {"read", "web"}, notify \in BOOLEAN :
                [Free EXCEPT !.at = "asked", !.from = "action", !.mode = mode,
                             !.notify = notify, !.named = named, !.caller = u] \in Calls
<1>1. generation \in Nat
  BY DEF TypeOK, CardTypeOK
<1>2. [[Free EXCEPT !.named = named]
         EXCEPT !.at = "asked", !.from = "card", !.caller = u,
                !.generation = generation] \in Calls
  BY <1>1, FreeIsACall DEF Calls, Stages
<1>3. \A m \in Call :
        [[Free EXCEPT !.mode = "write", !.named = named, !.writes = m]
           EXCEPT !.at = "asked", !.from = "card", !.caller = u,
                  !.generation = generation] \in Calls
  BY <1>1, FreeIsACall DEF Calls, Stages
<1>4. \A mode \in {"read", "web"}, notify \in BOOLEAN :
        [Free EXCEPT !.at = "asked", !.from = "action", !.mode = mode,
                     !.notify = notify, !.named = named, !.caller = u] \in Calls
  BY FreeIsACall DEF Calls, Stages
<1> QED BY <1>2, <1>3, <1>4

\* The write of a stored proposal is a call.
LEMMA WriteTypes ==
    ASSUME TypeOK, NEW p \in Call, NEW u \in User \cup {NoUser}, pending[p] # NoHold
    PROVE  WriteOf(p, u) \in Calls /\ pending[p].entry \in Entry
<1>1. pending[p] \in Holds
  BY DEF TypeOK, NotifyTypeOK
<1>2. pending[p].entry \in Entry /\ pending[p].caller \in User \cup {NoUser}
  BY <1>1 DEF Holds
<1>3. \A e \in Entry, v \in User \cup {NoUser} :
        [Free EXCEPT !.from = "approval", !.mode = "write", !.writes = p,
                     !.entry = e, !.caller = v] \in Calls
  BY FreeIsACall DEF Calls, Stages
<1>4. (IF u # NoUser THEN u ELSE pending[p].caller) \in User \cup {NoUser}
  BY <1>2
<1>5. WriteOf(p, u) \in Calls
  BY <1>2, <1>3, <1>4 DEF WriteOf
<1> QED BY <1>2, <1>5

-----------------------------------------------------------------------------
(* What the actions do to the calls, field by field. *)

OthersStay(c) == \A d \in Call : d # c => call'[d] = call[d]

\* A call stays what it is: only where it has got to may change.
StaysItself(c) ==
    /\ call'[c].from = call[c].from
    /\ call'[c].mode = call[c].mode
    /\ call'[c].notify = call[c].notify
    /\ call'[c].named = call[c].named
    /\ call'[c].caller = call[c].caller
    /\ call'[c].writes = call[c].writes
    /\ call'[c].generation = call[c].generation

IsAsked(c, from) ==
    /\ call[c] = Free
    /\ OthersStay(c)
    /\ call'[c].at = "asked"
    /\ call'[c].from = from
    /\ call'[c].entry = NoEntry
    /\ call'[c].proposal = FALSE
    /\ call'[c].generation = IF from = "card" THEN generation ELSE 0
    /\ from = "card" => call'[c].notify = FALSE

\* What is typed is asked of the target.
LEMMA SendEffect ==
    ASSUME TypeOK, NEW c \in Call, Send(c)
    PROVE  /\ call' \in [Call -> Calls]
           /\ IsAsked(c, "card")
           /\ call'[c].named = target
           /\ call'[c].writes = NoCall
<1>1. PICK u \in User : Set(c, [[Free EXCEPT !.named = target]
                 EXCEPT !.at = "asked", !.from = "card", !.caller = u,
                        !.generation = generation])
  BY DEF Send, CardAsks
<1>2. target \in Entry \cup {NoEntry}
  BY DEF TypeOK, CardTypeOK
<1>3. call[c] = Free
  BY DEF Send, CardAsks
<1>4. [[Free EXCEPT !.named = target]
         EXCEPT !.at = "asked", !.from = "card", !.caller = u,
                !.generation = generation] \in Calls
  BY <1>2, AskTypes
<1>5. /\ call' \in [Call -> Calls]
      /\ call'[c] = [[Free EXCEPT !.named = target]
                       EXCEPT !.at = "asked", !.from = "card", !.caller = u,
                              !.generation = generation]
      /\ OthersStay(c)
  BY <1>1, <1>4, SetTypes DEF OthersStay
<1> QED BY <1>3, <1>5 DEF IsAsked, Free

\* An Apply asks for the write of what the message proposes, in the name of the
\* entry the message remembers.
LEMMA ApplyEffect ==
    ASSUME TypeOK, NEW c \in Call, NEW m \in Call, Apply(c, m)
    PROVE  /\ call' \in [Call -> Calls]
           /\ IsAsked(c, "card")
           /\ call'[c].named = call[m].named
           /\ call'[c].writes = m
<1>1. PICK u \in User : Set(c, [[Free EXCEPT !.mode = "write", !.named = NamedBy(m), !.writes = m]
                 EXCEPT !.at = "asked", !.from = "card", !.caller = u,
                        !.generation = generation])
  BY DEF Apply, CardAsks
<1>2. NamedBy(m) = call[m].named /\ call[m].named \in Entry \cup {NoEntry}
  BY DEF NamedBy, TypeOK, ClientTypeOK, Calls
<1>3. call[c] = Free
  BY DEF Apply, CardAsks
<1>4. [[Free EXCEPT !.mode = "write", !.named = NamedBy(m), !.writes = m]
         EXCEPT !.at = "asked", !.from = "card", !.caller = u,
                !.generation = generation] \in Calls
  BY <1>2, AskTypes
<1>5. /\ call' \in [Call -> Calls]
      /\ call'[c] = [[Free EXCEPT !.mode = "write", !.named = NamedBy(m), !.writes = m]
                       EXCEPT !.at = "asked", !.from = "card", !.caller = u,
                              !.generation = generation]
      /\ OthersStay(c)
  BY <1>1, <1>4, SetTypes DEF OthersStay
<1> QED BY <1>2, <1>3, <1>5 DEF IsAsked, Free

\* An automation asks, and writes nothing.
LEMMA ActionEffect ==
    ASSUME TypeOK, NEW c \in Call, CallAction(c)
    PROVE  /\ call' \in [Call -> Calls]
           /\ IsAsked(c, "action")
           /\ call'[c].writes = NoCall
<1>1. PICK mode \in {"read", "web"}, notify \in BOOLEAN,
           named \in Entry \cup {NoEntry}, u \in User \cup {NoUser} :
         Set(c, [Free EXCEPT !.at = "asked", !.from = "action", !.mode = mode,
                             !.notify = notify, !.named = named, !.caller = u])
  BY DEF CallAction
<1>2. call[c] = Free
  BY DEF CallAction
<1>3. [Free EXCEPT !.at = "asked", !.from = "action", !.mode = mode,
                   !.notify = notify, !.named = named, !.caller = u] \in Calls
  BY AskTypes
<1>4. /\ call' \in [Call -> Calls]
      /\ call'[c] = [Free EXCEPT !.at = "asked", !.from = "action", !.mode = mode,
                                 !.notify = notify, !.named = named, !.caller = u]
      /\ OthersStay(c)
  BY <1>1, <1>3, SetTypes DEF OthersStay
<1> QED BY <1>2, <1>4 DEF IsAsked, Free

\* A call is sent by the entry it names, if it names one, whose client does not
\* refuse it.
LEMMA HandleEffect ==
    ASSUME TypeOK, NEW c \in Call, HandleAsk(c)
    PROVE  /\ call' \in [Call -> Calls]
           /\ OthersStay(c) /\ StaysItself(c)
           /\ call[c].at = "asked" /\ call'[c].at = "app"
           /\ call'[c].proposal = call[c].proposal
           /\ call'[c].entry \in Entry
           /\ call[c].named # NoEntry => call'[c].entry = call[c].named
           /\ ~Refused(call'[c].entry, call[c].mode)
<1>1. PICK e \in Resolved(call[c].named) :
         ~Refused(e, call[c].mode) /\ Set(c, SentBy(e, call[c]))
  BY DEF HandleAsk
<1>2. e \in Entry /\ (call[c].named # NoEntry => e = call[c].named)
  BY DEF Resolved, Live
<1>3. call[c] \in Calls
  BY DEF TypeOK, ClientTypeOK
<1>4. SentBy(e, call[c]) \in Calls
  BY <1>2, <1>3, CallMoves
<1>5. /\ call' \in [Call -> Calls]
      /\ call'[c] = [call[c] EXCEPT !.at = "app", !.entry = e]
      /\ OthersStay(c)
  BY <1>1, <1>4, SetTypes DEF SentBy, OthersStay
<1>6. call[c].at = "asked"
  BY DEF HandleAsk
<1> QED BY <1>1, <1>2, <1>3, <1>5, <1>6 DEF StaysItself, Calls

\* An answer may propose something, if it answers a read.
LEMMA AnswerEffect ==
    ASSUME TypeOK, NEW c \in Call, Answer(c)
    PROVE  /\ call' \in [Call -> Calls]
           /\ OthersStay(c) /\ StaysItself(c)
           /\ call[c].at = "app"
           /\ call'[c].at = IF call'[c].proposal /\ call[c].notify
                            THEN "notify" ELSE "answered"
           /\ call'[c].entry = call[c].entry
           /\ IF call'[c].at = "notify" THEN Offer(c) ELSE UNCHANGED notifyVars
<1>1. PICK proposal \in BOOLEAN :
        LET offer == proposal /\ call[c].notify
        IN  /\ Set(c, [call[c] EXCEPT !.proposal = proposal,
                             !.at = IF offer THEN "notify" ELSE "answered"])
            /\ IF offer THEN Offer(c) ELSE UNCHANGED notifyVars
  BY DEF Answer
<1>2. call[c] \in Calls /\ call[c].at = "app"
  BY DEF TypeOK, ClientTypeOK, Answer
<1>3. [call[c] EXCEPT !.proposal = proposal,
            !.at = IF proposal /\ call[c].notify THEN "notify" ELSE "answered"] \in Calls
  BY <1>2, CallMoves DEF Stages
<1>4. /\ call' \in [Call -> Calls]
      /\ call'[c] = [call[c] EXCEPT !.proposal = proposal,
            !.at = IF proposal /\ call[c].notify THEN "notify" ELSE "answered"]
      /\ OthersStay(c)
  BY <1>1, <1>3, SetTypes DEF OthersStay
<1> QED BY <1>1, <1>2, <1>4 DEF StaysItself, Calls

\* A call that ends, or fails at any stage, keeps its entry and its proposal.
LEMMA EndEffect ==
    ASSUME TypeOK, NEW c \in Call, Notified(c) \/ Fail(c)
    PROVE  /\ call' \in [Call -> Calls]
           /\ OthersStay(c) /\ StaysItself(c)
           /\ InFlight(c)
           /\ call'[c].at = IF Notified(c) THEN "answered" ELSE "failed"
           /\ call'[c].proposal = call[c].proposal
           /\ call'[c].entry = call[c].entry
<1>1. PICK stage \in {"answered", "failed"} :
        At(c, stage) /\ stage = IF Notified(c) THEN "answered" ELSE "failed"
  BY DEF Notified, Fail
<1>2. call[c] \in Calls /\ InFlight(c)
  BY DEF TypeOK, ClientTypeOK, Notified, Fail, InFlight
<1>3. [call[c] EXCEPT !.at = stage] \in Calls
  BY <1>2, CallMoves DEF Stages
<1>4. /\ call' \in [Call -> Calls]
      /\ call'[c] = [call[c] EXCEPT !.at = stage]
      /\ OthersStay(c)
  BY <1>1, <1>3, SetTypes DEF OthersStay, At
<1> QED BY <1>1, <1>2, <1>4 DEF StaysItself, Calls

\* A tap makes a call only if it approves what is stored: its write, on behalf
\* of the user who tapped or else of the caller.
IsWriteOf(w, p, u) ==
    /\ call[w] = Free
    /\ OthersStay(w)
    /\ call'[w].at \in {"app", "failed"}
    /\ call'[w].from = "approval"
    /\ call'[w].mode = "write"
    /\ call'[w].notify = FALSE
    /\ call'[w].named = NoEntry
    /\ call'[w].writes = p
    /\ call'[w].entry = pending[p].entry
    /\ call'[w].caller = IF u # NoUser THEN u ELSE pending[p].caller
    /\ call'[w].proposal = FALSE
    /\ call'[w].at = "app" => ~Refused(pending[p].entry, "write")

\* A tap makes one write, or changes no call.
LEMMA TapEffect ==
    ASSUME TypeOK, NEW p \in Call, NEW u \in User \cup {NoUser},
           NEW approve \in BOOLEAN, Tap(p, u, approve)
    PROVE  /\ call' \in [Call -> Calls]
           /\ \/ UNCHANGED call
              \/ Approved(p, approve) /\ \E w \in Call : IsWriteOf(w, p, u)
<1>1. CASE ~Approved(p, approve)
  BY <1>1 DEF Tap, TypeOK, ClientTypeOK
<1>2. CASE Approved(p, approve)
  <2>1. PICK w \in Call :
          /\ call[w] = Free
          /\ \/ Set(w, [WriteOf(p, u) EXCEPT !.at = "failed"])
             \/ /\ ~Refused(pending[p].entry, "write")
                /\ Set(w, SentBy(pending[p].entry, WriteOf(p, u)))
    BY <1>2 DEF Tap
  <2>2. WriteOf(p, u) \in Calls /\ pending[p].entry \in Entry
    BY <1>2, WriteTypes DEF Approved
  <2>3. /\ [WriteOf(p, u) EXCEPT !.at = "failed"] \in Calls
        /\ SentBy(pending[p].entry, WriteOf(p, u)) \in Calls
    BY <2>2, CallMoves DEF Stages
  <2>4. CASE Set(w, [WriteOf(p, u) EXCEPT !.at = "failed"])
    <3>1. /\ call' \in [Call -> Calls]
          /\ call'[w] = [WriteOf(p, u) EXCEPT !.at = "failed"]
          /\ OthersStay(w)
      BY <2>3, <2>4, SetTypes DEF OthersStay
    <3>2. IsWriteOf(w, p, u)
      BY <2>1, <3>1 DEF IsWriteOf, WriteOf, Free
    <3> QED BY <1>2, <3>1, <3>2
  <2>5. CASE /\ ~Refused(pending[p].entry, "write")
             /\ Set(w, SentBy(pending[p].entry, WriteOf(p, u)))
    <3>1. /\ call' \in [Call -> Calls]
          /\ call'[w] = [WriteOf(p, u) EXCEPT !.at = "app", !.entry = pending[p].entry]
          /\ OthersStay(w)
      BY <2>3, <2>5, SetTypes DEF OthersStay, SentBy
    <3>2. IsWriteOf(w, p, u)
      BY <2>1, <2>5, <3>1 DEF IsWriteOf, WriteOf, Free
    <3> QED BY <1>2, <3>1, <3>2
  <2> QED BY <2>1, <2>4, <2>5
<1> QED BY <1>1, <1>2

\* A restart fails what was in flight and changes nothing else of a call.
LEMMA RestartEffect ==
    ASSUME TypeOK, Restart
    PROVE  /\ call' \in [Call -> Calls]
           /\ \A c \in Call :
                IF InFlight(c)
                THEN /\ StaysItself(c)
                     /\ call'[c].at = "failed"
                     /\ call'[c].entry = call[c].entry
                     /\ call'[c].proposal = call[c].proposal
                ELSE call'[c] = call[c]
<1>1. call' = [c \in Call |-> IF InFlight(c) THEN [call[c] EXCEPT !.at = "failed"]
                              ELSE call[c]]
  BY DEF Restart
<1>2. \A c \in Call : call[c] \in Calls /\ [call[c] EXCEPT !.at = "failed"] \in Calls
  BY CallMoves DEF TypeOK, ClientTypeOK, Stages
<1>3. \A c \in Call : InFlight(c) => call'[c] = [call[c] EXCEPT !.at = "failed"]
  BY <1>1
<1>4. call' \in [Call -> Calls]
  BY <1>1, <1>2
<1>5. \A c \in Call : ~InFlight(c) => call'[c] = call[c]
  BY <1>1
<1> QED BY <1>2, <1>3, <1>4, <1>5 DEF StaysItself, Calls

\* Every reachable state is well typed at the start, and after every step.
LEMMA InitTypes == Init => TypeOK
<1> SUFFICES ASSUME Init PROVE TypeOK
  OBVIOUS
<1>1. ClientTypeOK
  BY FreeIsACall DEF Init, ClientInit, ClientTypeOK, Apps
<1>2. NotifyTypeOK
  BY DEF Init, NotifyInit, NotifyTypeOK
<1>3. CardTypeOK
  <2>1. target \in Entry \cup {NoEntry} /\ generation = 0 /\ busy = FALSE
    BY DEF Init, CardInit
  <2>2. messages = {} /\ applied = {} /\ dismissed = {}
    BY DEF Init, CardInit
  <2>3. messages \subseteq Call /\ applied \subseteq Call /\ dismissed \subseteq Call
    BY <2>2, Zenon
  <2>4. generation \in 0..MaxGeneration
    BY <2>1
  <2>5. busy \in BOOLEAN
    BY <2>1, Zenon
  <2> QED BY <2>1, <2>3, <2>4, <2>5 DEF CardTypeOK
<1> QED BY <1>1, <1>2, <1>3 DEF TypeOK

\* What an entry, its app and its client do leaves them well typed.
LEMMA EntryTypes ==
    ASSUME TypeOK, NEW e \in Entry,
           Poll(e) \/ Load(e) \/ Unload(e) \/ Remove(e) \/ Swap(e)
    PROVE  ClientTypeOK'
<1>1. CASE Poll(e) \/ Load(e)
  <2>1. PICK said \in Apps : Learn(e, said) /\ UNCHANGED <<app, call, ran>>
    BY <1>1 DEF Poll, Load
  <2>2. entries' \in [Entry -> {"new", "loaded", "unloaded", "removed"}]
    BY <1>1 DEF Poll, Load, TypeOK, ClientTypeOK
  <2>3. /\ foreign' \in [Entry -> BOOLEAN] /\ web' \in [Entry -> BOOLEAN]
        /\ polled' \in [Entry -> BOOLEAN]
    BY <2>1 DEF Learn, TypeOK, ClientTypeOK
  <2> QED BY <2>1, <2>2, <2>3 DEF TypeOK, ClientTypeOK
<1>2. CASE Unload(e) \/ Remove(e)
  BY <1>2 DEF Unload, Remove, TypeOK, ClientTypeOK
<1>3. CASE Swap(e)
  BY <1>3 DEF Swap, TypeOK, ClientTypeOK
<1> QED BY <1>1, <1>2, <1>3

\* An offer is stored as a hold, and pruning drops only what has expired.
LEMMA OfferTypes ==
    ASSUME TypeOK, NEW c \in Call, Offer(c), call[c].entry \in Entry
    PROVE  /\ NotifyTypeOK'
           /\ pending'[c] = [entry |-> call[c].entry, caller |-> call[c].caller,
                             expires |-> now + TTL]
           /\ pending'[c] # NoHold
           /\ \A d \in Call : d # c => pending'[d] \in {pending[d], NoHold}
<1>1. [entry |-> call[c].entry, caller |-> call[c].caller, expires |-> now + TTL] \in Holds
  <2>1. call[c] \in Calls /\ now \in Nat
    BY DEF TypeOK, ClientTypeOK, NotifyTypeOK
  <2> QED BY <2>1 DEF Calls, Holds
<1>2. pending' \in [Call -> Holds \cup {NoHold}]
  BY <1>1 DEF Offer, Pruned, TypeOK, NotifyTypeOK
<1>3. offeredAt' \in [Call -> 0..MaxTime]
  BY DEF Offer, TypeOK, NotifyTypeOK
<1>4. pending'[c] = [entry |-> call[c].entry, caller |-> call[c].caller,
                     expires |-> now + TTL]
  BY DEF Offer, Pruned
<1>5. \A d \in Call : d # c => pending'[d] \in {pending[d], NoHold}
  BY DEF Offer, Pruned
<1> QED BY <1>1, <1>2, <1>3, <1>4, <1>5 DEF Offer, TypeOK, NotifyTypeOK

\* A tap leaves the store and the taps well typed.
LEMMA TapTypes ==
    ASSUME TypeOK, NEW p \in Call, NEW u \in User \cup {NoUser},
           NEW approve \in BOOLEAN, Tap(p, u, approve)
    PROVE  NotifyTypeOK'
<1>1. pending' \in [Call -> Holds \cup {NoHold}]
  BY DEF Tap, Popped, TypeOK, NotifyTypeOK
<1>2. [approve |-> approve, by |-> u, at |-> now] \in Taps
  BY DEF Taps, TypeOK, NotifyTypeOK
<1>3. tapped' \in [Call -> Taps \cup {NoTap}]
  BY <1>2 DEF Tap, TypeOK, NotifyTypeOK
<1> QED BY <1>1, <1>3 DEF Tap, TypeOK, NotifyTypeOK

-----------------------------------------------------------------------------
(* What is known of the calls. *)

\* A call that was made keeps what it is; its entry is known once it was sent,
\* and it proposes something only once it was answered, to a read.
CallOf(c) ==
    /\ call[c].at = "free" => call[c] = Free
    /\ call[c].at \in {"app", "notify"} => call[c].entry # NoEntry
    /\ call[c].at = "asked" => call[c].entry = NoEntry
    /\ call[c].proposal => call[c].at \in {"notify", "answered", "failed"}
    /\ call[c].proposal => call[c].entry # NoEntry
    /\ call[c].notify => call[c].from = "action"
    /\ call[c].at = "notify" => call[c].notify
    /\ call[c].from = "approval" => call[c].at # "asked"
    /\ call[c].from = "action" => call[c].writes = NoCall
    /\ call[c].from = "approval" => call[c].writes \in Call
    /\ call[c].entry # NoEntry /\ call[c].named # NoEntry => call[c].entry = call[c].named
CallsOK == \A c \in Call : CallOf(c)

\* At the start no call was made.
LEMMA CallsInit == Init => CallsOK
BY DEF Init, ClientInit, CallsOK, CallOf, Free

\* Every step keeps the calls, and everything, of the declared kinds.
LEMMA TypeStep == TypeOK /\ CallsOK /\ [Next]_vars => TypeOK'
<1> SUFFICES ASSUME TypeOK, CallsOK, [Next]_vars PROVE TypeOK'
  OBVIOUS
<1>1. ASSUME UNCHANGED <<entries, app, foreign, web, polled>>,
             call' \in [Call -> Calls], ran' \subseteq Call
      PROVE  ClientTypeOK'
  BY <1>1 DEF TypeOK, ClientTypeOK
<1>2. UNCHANGED notifyVars => NotifyTypeOK'
  BY DEF notifyVars, TypeOK, NotifyTypeOK
<1>3. UNCHANGED cardVars => CardTypeOK'
  BY DEF cardVars, TypeOK, CardTypeOK
<1>4. CASE Card /\ UNCHANGED notifyVars
  <2>1. ASSUME NEW c \in Call, Send(c) PROVE TypeOK'
    <3>1. ClientTypeOK'
      BY <1>1, <2>1, SendEffect DEF Send, CardAsks, TypeOK, ClientTypeOK
    <3>2. CardTypeOK'
      BY <2>1 DEF Send, CardAsks, TypeOK, CardTypeOK
    <3> QED BY <1>2, <1>4, <3>1, <3>2 DEF TypeOK
  <2>2. ASSUME NEW c \in Call, NEW m \in Call, Apply(c, m) PROVE TypeOK'
    <3>1. ClientTypeOK'
      BY <1>1, <2>2, ApplyEffect DEF Apply, CardAsks, TypeOK, ClientTypeOK
    <3>2. CardTypeOK'
      BY <2>2 DEF Apply, CardAsks, Marked, TypeOK, CardTypeOK
    <3> QED BY <1>2, <1>4, <3>1, <3>2 DEF TypeOK
  <2>3. ASSUME NEW m \in Call, Dismiss(m) PROVE TypeOK'
    <3>1. ClientTypeOK'
      BY <2>3 DEF Dismiss, clientVars, TypeOK, ClientTypeOK
    <3>2. CardTypeOK'
      BY <2>3 DEF Dismiss, TypeOK, CardTypeOK
    <3> QED BY <1>2, <1>4, <3>1, <3>2 DEF TypeOK
  <2>4. CASE SetConfig
    <3>1. ClientTypeOK'
      BY <2>4 DEF SetConfig, clientVars, TypeOK, ClientTypeOK
    <3>2. CardTypeOK'
      <4>1. /\ target' \in Entry \cup {NoEntry}
            /\ generation' \in 0..MaxGeneration
            /\ UNCHANGED <<applied, dismissed>>
        BY <2>4 DEF SetConfig, TypeOK, CardTypeOK
      <4>2. busy' \in BOOLEAN
        BY <2>4 DEF SetConfig, Freed
      <4>3. messages' \subseteq Call
        BY <2>4, Zenon DEF SetConfig
      <4> QED BY <4>1, <4>2, <4>3 DEF TypeOK, CardTypeOK
    <3> QED BY <1>2, <1>4, <3>1, <3>2 DEF TypeOK
  <2> QED BY <1>4, <2>1, <2>2, <2>3, <2>4 DEF Card
<1>5. CASE Notifications /\ UNCHANGED cardVars
  <2>1. ASSUME NEW c \in Call, CallAction(c) PROVE TypeOK'
    <3>1. ClientTypeOK'
      BY <1>1, <2>1, ActionEffect DEF CallAction, TypeOK, ClientTypeOK
    <3>2. UNCHANGED notifyVars
      BY <2>1 DEF CallAction
    <3> QED BY <1>2, <1>3, <1>5, <3>1, <3>2 DEF TypeOK
  <2>2. ASSUME NEW c \in Call, Notified(c) PROVE TypeOK'
    <3>1. ClientTypeOK'
      BY <1>1, <2>2, EndEffect DEF Notified, TypeOK, ClientTypeOK
    <3>2. UNCHANGED notifyVars
      BY <2>2 DEF Notified
    <3> QED BY <1>2, <1>3, <1>5, <3>1, <3>2 DEF TypeOK
  <2>3. ASSUME NEW p \in Call, NEW u \in User \cup {NoUser}, NEW approve \in BOOLEAN,
               Tap(p, u, approve)
        PROVE  TypeOK'
    <3>1. call' \in [Call -> Calls]
      BY <2>3, TapEffect
    <3>2. ClientTypeOK'
      BY <1>1, <2>3, <3>1 DEF Tap, TypeOK, ClientTypeOK
    <3> QED BY <1>3, <1>5, <2>3, <3>2, TapTypes DEF TypeOK
  <2>4. CASE Tick
    <3>1. ClientTypeOK'
      BY <2>4 DEF Tick, clientVars, TypeOK, ClientTypeOK
    <3>2. NotifyTypeOK'
      BY <2>4 DEF Tick, TypeOK, NotifyTypeOK
    <3> QED BY <1>3, <1>5, <3>1, <3>2 DEF TypeOK
  <2> QED BY <1>5, <2>1, <2>2, <2>3, <2>4 DEF Notifications
<1>6. CASE Clients /\ UNCHANGED <<notifyVars, cardVars>>
  <2>1. ASSUME NEW c \in Call, HandleAsk(c) PROVE ClientTypeOK'
    BY <1>1, <2>1, HandleEffect DEF HandleAsk, TypeOK, ClientTypeOK
  <2>2. ClientTypeOK'
    BY <1>6, <2>1, EntryTypes DEF Clients
  <2> QED BY <1>2, <1>3, <1>6, <2>2 DEF TypeOK
<1>7. ASSUME NEW c \in Call, Answer(c) PROVE TypeOK'
  <2>1. ClientTypeOK'
    BY <1>1, <1>7, AnswerEffect DEF Answer, Ran, TypeOK, ClientTypeOK
  <2>2. NotifyTypeOK'
    <3>1. call[c].entry \in Entry
      BY <1>7, AnswerEffect DEF CallsOK, CallOf, TypeOK, ClientTypeOK, Calls
    <3> QED BY <1>2, <1>7, <3>1, AnswerEffect, OfferTypes
  <2>3. CardTypeOK'
    BY <1>3, <1>7 DEF Answer, CardReply, TypeOK, CardTypeOK
  <2> QED BY <2>1, <2>2, <2>3 DEF TypeOK
<1>8. ASSUME NEW c \in Call, Fail(c) PROVE TypeOK'
  <2>1. ran' \subseteq Call
    BY <1>8 DEF Fail, MayHaveRun, Ran, TypeOK, ClientTypeOK
  <2>2. ClientTypeOK'
    BY <1>1, <1>8, <2>1, EndEffect DEF Fail
  <2>3. CardTypeOK'
    BY <1>3, <1>8 DEF Fail, CardReply, TypeOK, CardTypeOK
  <2> QED BY <1>2, <1>8, <2>2, <2>3 DEF TypeOK, Fail
<1>9. CASE Restart
  <2>1. ClientTypeOK'
    <3>1. call' \in [Call -> Calls]
      BY <1>9, RestartEffect
    <3>2. ran' \subseteq Call
      BY <1>9 DEF Restart, TypeOK, ClientTypeOK
    <3>3. entries' \in [Entry -> {"new", "loaded", "unloaded", "removed"}]
      BY <1>9 DEF Restart, TypeOK, ClientTypeOK
    <3> QED BY <1>9, <3>1, <3>2, <3>3 DEF Restart, TypeOK, ClientTypeOK
  <2>2. NotifyTypeOK'
    BY <1>9 DEF Restart, TypeOK, NotifyTypeOK
  <2>3. CardTypeOK'
    <3>1. busy' \in BOOLEAN
      BY <1>9 DEF Restart
    <3> QED BY <1>9, <3>1 DEF Restart, TypeOK, CardTypeOK
  <2> QED BY <2>1, <2>2, <2>3 DEF TypeOK
<1>10. CASE UNCHANGED vars
  <2>1. ClientTypeOK'
    BY <1>10 DEF vars, clientVars, TypeOK, ClientTypeOK
  <2> QED BY <1>2, <1>3, <1>10, <2>1 DEF TypeOK, vars
<1> QED BY <1>4, <1>5, <1>6, <1>7, <1>8, <1>9, <1>10 DEF Next

\* How a step changes the calls: it makes one, moves one on, ends those in
\* flight, or leaves them as they are.
LEMMA CallSteps ==
    ASSUME TypeOK, [Next]_vars
    PROVE  \/ UNCHANGED call
           \/ \E c \in Call : \/ Send(c) \/ \E m \in Call : Apply(c, m)
                              \/ CallAction(c)
                              \/ HandleAsk(c) \/ Answer(c) \/ Notified(c) \/ Fail(c)
           \/ \E p \in Call, u \in User \cup {NoUser}, approve \in BOOLEAN :
                Tap(p, u, approve)
           \/ Restart
<1>1. CASE Card
  BY <1>1 DEF Card, Dismiss, SetConfig, clientVars
<1>2. CASE Notifications
  BY <1>2 DEF Notifications, Tick, clientVars
<1>3. CASE Clients
  BY <1>3 DEF Clients, Poll, Load, Unload, Remove, Swap
<1>4. CASE UNCHANGED vars
  BY <1>4 DEF vars, clientVars
<1> QED BY <1>1, <1>2, <1>3, <1>4 DEF Next

\* Every step keeps what is known of the calls.
LEMMA CallsStep == TypeOK /\ CallsOK /\ [Next]_vars => CallsOK'
<1> SUFFICES ASSUME TypeOK, CallsOK, [Next]_vars, NEW d \in Call
             PROVE  CallOf(d)'
  BY DEF CallsOK
<1>1. CallOf(d)
  BY DEF CallsOK
<1>2. call'[d] = call[d] => CallOf(d)'
  BY <1>1 DEF CallOf
<1>3. ASSUME NEW c \in Call, Send(c) PROVE CallOf(d)'
  BY <1>2, <1>3, SendEffect DEF CallOf, IsAsked, OthersStay
<1>4. ASSUME NEW c \in Call, NEW m \in Call, Apply(c, m) PROVE CallOf(d)'
  BY <1>2, <1>4, ApplyEffect DEF CallOf, IsAsked, OthersStay
<1>5. ASSUME NEW c \in Call, CallAction(c) PROVE CallOf(d)'
  BY <1>2, <1>5, ActionEffect DEF CallOf, IsAsked, OthersStay
<1>6. ASSUME NEW c \in Call, HandleAsk(c) PROVE CallOf(d)'
  BY <1>1, <1>2, <1>6, HandleEffect DEF CallOf, StaysItself, OthersStay
<1>7. ASSUME NEW c \in Call, Answer(c) PROVE CallOf(d)'
  BY <1>1, <1>2, <1>7, AnswerEffect DEF CallOf, StaysItself, OthersStay
<1>8. ASSUME NEW c \in Call, Notified(c) \/ Fail(c) PROVE CallOf(d)'
  <2>1. call[c].proposal => call[c].entry # NoEntry
    BY DEF CallsOK, CallOf
  <2> QED BY <1>1, <1>2, <1>8, <2>1, EndEffect DEF CallOf, StaysItself, OthersStay, InFlight
<1>9. ASSUME NEW p \in Call, NEW u \in User \cup {NoUser}, NEW approve \in BOOLEAN,
             Tap(p, u, approve)
      PROVE  CallOf(d)'
  <2>1. ASSUME Approved(p, approve), NEW w \in Call, IsWriteOf(w, p, u)
        PROVE  CallOf(d)'
    <3>1. pending[p].entry \in Entry
      BY <2>1, WriteTypes DEF Approved
    <3> QED BY <1>2, <2>1, <3>1 DEF CallOf, IsWriteOf, OthersStay
  <2> QED BY <1>2, <1>9, <2>1, TapEffect
<1>10. CASE Restart
  BY <1>1, <1>2, <1>10, RestartEffect DEF CallOf, StaysItself, InFlight
<1> QED BY <1>2, <1>3, <1>4, <1>5, <1>6, <1>7, <1>8, <1>9, <1>10, CallSteps

\* A call that was made stays what it is, and what it proposed it proposed for
\* the entry that answered.  It begins to propose only with its answer.
LEMMA CallStays ==
    ASSUME TypeOK, CallsOK, [Next]_vars, NEW d \in Call, call[d] # Free
    PROVE  /\ StaysItself(d)
           /\ call[d].at # "asked" => call'[d].entry = call[d].entry
           /\ call[d].proposal => call'[d].proposal
           /\ call'[d].proposal => call[d].proposal \/ Answer(d)
<1>1. CallOf(d)
  BY DEF CallsOK
<1>2. call'[d] = call[d] =>
        /\ StaysItself(d)
        /\ call'[d].entry = call[d].entry
        /\ call'[d].proposal = call[d].proposal
  BY DEF StaysItself
<1>3. ASSUME NEW c \in Call, Send(c) \/ (\E m \in Call : Apply(c, m)) \/ CallAction(c)
      PROVE  call'[d] = call[d]
  BY <1>3, SendEffect, ApplyEffect, ActionEffect DEF IsAsked, OthersStay
<1>4. ASSUME NEW c \in Call, HandleAsk(c)
      PROVE  /\ StaysItself(d)
             /\ call[d].at # "asked" => call'[d].entry = call[d].entry
             /\ call'[d].proposal = call[d].proposal
  BY <1>2, <1>4, HandleEffect DEF OthersStay
<1>5. ASSUME NEW c \in Call, Answer(c)
      PROVE  /\ StaysItself(d)
             /\ call'[d].entry = call[d].entry
             /\ call[d].proposal => call'[d].proposal
             /\ call'[d].proposal => call[d].proposal \/ Answer(d)
  BY <1>1, <1>2, <1>5, AnswerEffect DEF OthersStay, CallOf
<1>6. ASSUME NEW c \in Call, Notified(c) \/ Fail(c)
      PROVE  /\ StaysItself(d)
             /\ call'[d].entry = call[d].entry
             /\ call'[d].proposal = call[d].proposal
  BY <1>2, <1>6, EndEffect DEF OthersStay
<1>7. ASSUME NEW p \in Call, NEW u \in User \cup {NoUser}, NEW approve \in BOOLEAN,
             Tap(p, u, approve)
      PROVE  call'[d] = call[d]
  <2>1. ASSUME NEW w \in Call, IsWriteOf(w, p, u)
        PROVE  call'[d] = call[d]
    BY <2>1 DEF IsWriteOf, OthersStay
  <2> QED BY <1>7, <2>1, TapEffect
<1>8. CASE Restart
  BY <1>2, <1>8, RestartEffect
<1> QED BY <1>2, <1>3, <1>4, <1>5, <1>6, <1>7, <1>8, CallSteps

-----------------------------------------------------------------------------
(* What is known of the proposals. *)

\* A stored proposal is the one its call made, and was not tapped yet.
HoldOf(p) ==
    /\ pending[p] # NoHold =>
         /\ tapped[p] = NoTap
         /\ call[p].proposal /\ call[p].notify
         /\ pending[p].entry = call[p].entry
         /\ pending[p].caller = call[p].caller
         /\ pending[p].expires = offeredAt[p] + TTL
    /\ tapped[p] # NoTap => call[p].proposal
HoldsOK == \A p \in Call : HoldOf(p)

\* A write is the one of a proposal that is used up: applied on the card, or
\* tapped and out of the store.
WriteFor(w, p) ==
    /\ call[p].proposal
    /\ call[w].from = "card" =>
         /\ call[p].from = "card" /\ p \in applied
         /\ call[w].named = call[p].named
    /\ call[w].from = "approval" =>
         /\ call[p].notify /\ pending[p] = NoHold
         /\ tapped[p] # NoTap /\ tapped[p].approve
         /\ tapped[p].at <= offeredAt[p] + TTL
         /\ call[w].entry = call[p].entry
         /\ call[w].caller = IF tapped[p].by # NoUser THEN tapped[p].by
                             ELSE call[p].caller
WritesOK == \A w, p \in Call : call[w].writes = p => WriteFor(w, p)

OnePerProposal ==
    \A w, v, p \in Call : call[w].writes = p /\ call[v].writes = p => w = v

-----------------------------------------------------------------------------
(* What is known of the card. *)

\* What was asked since the card was last pointed at its target was asked of
\* that target.
AskedOf(c) ==
    call[c].from = "card" => /\ call[c].generation <= generation
                             /\ call[c].generation = generation => call[c].named = target
ShownOf(m) == call[m].from = "card" /\ call[m].generation = generation
ConversationOK ==
    /\ \A c \in Call : AskedOf(c)
    /\ \A m \in messages : ShownOf(m)

-----------------------------------------------------------------------------
(* What is known of the apps. *)

\* A client whose last status is of the present app knows its app.
KnownOf(e) ==
    polled[e] => /\ foreign[e] <=> app[e] = "other"
                 /\ web[e] /\ app[e] # "other" => app[e] = "ours"
KnownOK == \A e \in Entry : KnownOf(e)

-----------------------------------------------------------------------------
(* The proposals. *)

\* A proposal is stored by the answer that made it, and first tapped once.
LEMMA HoldChanges ==
    ASSUME TypeOK, [Next]_vars, NEW q \in Call
    PROVE  /\ \/ pending'[q] \in {pending[q], NoHold} /\ offeredAt'[q] = offeredAt[q]
              \/ Answer(q) /\ Offer(q)
           /\ \/ tapped'[q] = tapped[q]
              \/ tapped[q] = NoTap /\ call[q].proposal /\ pending'[q] = NoHold
<1>1. UNCHANGED notifyVars =>
        /\ pending'[q] = pending[q]
        /\ offeredAt'[q] = offeredAt[q]
        /\ tapped'[q] = tapped[q]
  BY DEF notifyVars
<1>2. ASSUME NEW c \in Call, CallAction(c) \/ Notified(c) PROVE UNCHANGED notifyVars
  BY <1>2 DEF CallAction, Notified
<1>3. ASSUME NEW p \in Call, NEW u \in User \cup {NoUser}, NEW approve \in BOOLEAN,
             Tap(p, u, approve)
      PROVE  /\ pending'[q] \in {pending[q], NoHold} /\ offeredAt'[q] = offeredAt[q]
             /\ \/ tapped'[q] = tapped[q]
                \/ tapped[q] = NoTap /\ call[q].proposal /\ pending'[q] = NoHold
  BY <1>3 DEF Tap, Popped, TypeOK, NotifyTypeOK
<1>4. CASE Tick
  BY <1>4 DEF Tick
<1>5. ASSUME NEW c \in Call, Answer(c), Offer(c)
      PROVE  /\ \/ pending'[q] \in {pending[q], NoHold} /\ offeredAt'[q] = offeredAt[q]
                \/ Answer(q) /\ Offer(q)
             /\ tapped'[q] = tapped[q]
  BY <1>5 DEF Offer, Pruned, TypeOK, NotifyTypeOK
<1>6. ASSUME NEW c \in Call, Answer(c), ~Offer(c) PROVE UNCHANGED notifyVars
  BY <1>6, AnswerEffect
<1>7. CASE Restart
  BY <1>7 DEF Restart
<1>8. ASSUME NEW c \in Call, Fail(c) PROVE UNCHANGED notifyVars
  BY <1>8 DEF Fail
<1> QED BY <1>1, <1>2, <1>3, <1>4, <1>5, <1>6, <1>7, <1>8 DEF Next, Notifications, vars

\* What was applied stays applied.
LEMMA AppliedGrows == [Next]_vars => applied \subseteq applied'
<1> SUFFICES ASSUME [Next]_vars PROVE applied \subseteq applied'
  OBVIOUS
<1>1. CASE Card
  BY <1>1 DEF Card, Send, Apply, Marked, Dismiss, SetConfig
<1>2. CASE UNCHANGED cardVars
  BY <1>2 DEF cardVars
<1>3. ASSUME NEW c \in Call, Answer(c) \/ Fail(c) PROVE applied' = applied
  BY <1>3 DEF Answer, Fail, CardReply, cardVars
<1>4. CASE Restart
  BY <1>4 DEF Restart
<1> QED BY <1>1, <1>2, <1>3, <1>4 DEF Next, vars

\* Every step keeps what is known of the stored proposals.
LEMMA HoldsStep == TypeOK /\ CallsOK /\ HoldsOK /\ [Next]_vars => HoldsOK'
<1> SUFFICES ASSUME TypeOK, CallsOK, HoldsOK, [Next]_vars, NEW q \in Call
             PROVE  HoldOf(q)'
  BY DEF HoldsOK
<1>1. HoldOf(q) /\ CallOf(q)
  BY DEF HoldsOK, CallsOK
<1>2. call[q].proposal =>
        /\ StaysItself(q)
        /\ call'[q].entry = call[q].entry
        /\ call'[q].proposal
  BY <1>1, CallStays DEF Free, CallOf
<1>3. CASE Answer(q) /\ Offer(q)
  <2>1. /\ call[q].at = "app"
        /\ StaysItself(q)
        /\ call'[q].entry = call[q].entry
    BY <1>3, AnswerEffect
  <2>2. call'[q].proposal /\ call[q].notify
    <3>1. pending'[q] # NoHold
      BY <1>1, <1>3, <2>1, OfferTypes DEF CallOf, TypeOK, ClientTypeOK, Calls
    <3>2. pending[q] = NoHold
      BY <1>1, <2>1 DEF HoldOf, CallOf
    <3>3. ~UNCHANGED notifyVars
      BY <3>1, <3>2 DEF notifyVars
    <3> QED BY <1>3, <3>3, AnswerEffect
  <2>3. call[q].entry \in Entry
    BY <1>1, <2>1 DEF CallOf, TypeOK, ClientTypeOK, Calls
  <2>4. pending'[q] = [entry |-> call[q].entry, caller |-> call[q].caller,
                       expires |-> now + TTL]
    BY <1>3, <2>3, OfferTypes
  <2>5. offeredAt'[q] = now /\ tapped'[q] = tapped[q]
    BY <1>3 DEF Offer, TypeOK, NotifyTypeOK
  <2>6. tapped[q] = NoTap
    BY <1>1, <2>1 DEF HoldOf, CallOf
  <2> QED BY <2>1, <2>2, <2>4, <2>5, <2>6 DEF HoldOf, StaysItself
<1>4. CASE pending'[q] \in {pending[q], NoHold} /\ offeredAt'[q] = offeredAt[q]
  <2>1. pending'[q] # NoHold => tapped'[q] = tapped[q]
    BY HoldChanges
  <2>2. tapped'[q] # NoTap => call[q].proposal
    BY <1>1, HoldChanges DEF HoldOf
  <2> QED BY <1>1, <1>2, <1>4, <2>1, <2>2 DEF HoldOf, StaysItself
<1> QED BY <1>3, <1>4, HoldChanges

-----------------------------------------------------------------------------
(* The writes. *)

\* A write that was sent, or failed, keeps its proposal used up.
LEMMA WriteStays ==
    ASSUME TypeOK, CallsOK, HoldsOK, [Next]_vars,
           NEW w \in Call, NEW q \in Call, call[w].writes = q, WriteFor(w, q)
    PROVE  call'[w].writes = q /\ WriteFor(w, q)'
<1>1. CallOf(w) /\ CallOf(q) /\ HoldOf(q)
  BY DEF CallsOK, HoldsOK
<1>2. call[w] # Free /\ call[q] # Free
  BY DEF WriteFor, Free
<1>3. StaysItself(w) /\ StaysItself(q)
  BY <1>2, CallStays
<1>4. call'[q].proposal /\ call'[q].entry = call[q].entry
  BY <1>1, <1>2, CallStays DEF WriteFor, CallOf
<1>5. ~(Answer(q) /\ Offer(q))
  BY <1>1, AnswerEffect DEF WriteFor, CallOf
<1>6. call[w].from = "approval" =>
        /\ pending'[q] = NoHold
        /\ offeredAt'[q] = offeredAt[q]
        /\ tapped'[q] = tapped[q]
        /\ call'[w].entry = call[w].entry
  BY <1>1, <1>2, <1>5, HoldChanges, CallStays DEF WriteFor, CallOf
<1>7. q \in applied => q \in applied'
  BY AppliedGrows
<1> QED BY <1>3, <1>4, <1>6, <1>7 DEF WriteFor, StaysItself

\* A write begins with an Apply on the card of what was not applied, or with a
\* tap that approves what is stored.
LEMMA WriteBegins ==
    ASSUME TypeOK, CallsOK, HoldsOK, [Next]_vars,
           NEW w \in Call, NEW q \in Call, call[w] = Free, call'[w].writes = q
    PROVE  /\ OthersStay(w)
           /\ \/ Apply(w, q)
              \/ \E u \in User \cup {NoUser} :
                   Tap(q, u, TRUE) /\ Approved(q, TRUE) /\ IsWriteOf(w, q, u)
<1>1. call'[w] # call[w] /\ call'[w].writes # NoCall
  BY DEF Free
<1>2. ASSUME NEW c \in Call, Send(c) PROVE FALSE
  BY <1>1, <1>2, SendEffect DEF IsAsked, OthersStay
<1>3. ASSUME NEW c \in Call, CallAction(c) PROVE FALSE
  BY <1>1, <1>3, ActionEffect DEF IsAsked, OthersStay
<1>4. ASSUME NEW c \in Call, NEW m \in Call, Apply(c, m)
      PROVE  OthersStay(w) /\ Apply(w, q)
  <2>1. IsAsked(c, "card") /\ call'[c].writes = m
    BY <1>4, ApplyEffect
  <2>2. c = w
    BY <1>1, <2>1 DEF IsAsked, OthersStay
  <2> QED BY <1>4, <2>1, <2>2 DEF IsAsked
<1>5. ASSUME NEW c \in Call, HandleAsk(c) \/ Answer(c) \/ Notified(c) \/ Fail(c)
      PROVE  FALSE
  <2>1. OthersStay(c) /\ StaysItself(c)
    BY <1>5, HandleEffect, AnswerEffect, EndEffect
  <2> QED BY <1>1, <2>1 DEF OthersStay, StaysItself, Free
<1>6. ASSUME NEW p \in Call, NEW u \in User \cup {NoUser}, NEW approve \in BOOLEAN,
             Tap(p, u, approve)
      PROVE  /\ OthersStay(w)
             /\ Tap(q, u, TRUE) /\ Approved(q, TRUE) /\ IsWriteOf(w, q, u)
  <2>1. PICK v \in Call : Approved(p, approve) /\ IsWriteOf(v, p, u)
    BY <1>1, <1>6, TapEffect
  <2>2. v = w /\ p = q /\ approve = TRUE
    BY <1>1, <2>1 DEF IsWriteOf, OthersStay, Approved
  <2> QED BY <1>6, <2>1, <2>2 DEF IsWriteOf
<1>7. CASE Restart
  BY <1>1, <1>7, RestartEffect DEF InFlight, Free
<1> QED BY <1>1, <1>2, <1>3, <1>4, <1>5, <1>6, <1>7, CallSteps

\* Every step keeps the writes with the proposals they use up.
LEMMA WritesStep == TypeOK /\ CallsOK /\ HoldsOK /\ WritesOK /\ [Next]_vars => WritesOK'
<1> SUFFICES ASSUME TypeOK, CallsOK, HoldsOK, WritesOK, [Next]_vars,
                    NEW w \in Call, NEW q \in Call, call'[w].writes = q
             PROVE  WriteFor(w, q)'
  BY DEF WritesOK
<1>1. CASE call[w] # Free
  <2>1. call[w].writes = q
    BY <1>1, CallStays DEF StaysItself
  <2> QED BY <2>1, WriteStays DEF WritesOK
<1>2. CASE call[w] = Free /\ Apply(w, q)
  <2>1. /\ call[q].from = "card" /\ call[q].proposal
        /\ applied' = applied \cup {q}
    BY <1>2 DEF Apply, Marked
  <2>2. q # w
    BY <1>2, <2>1 DEF Free
  <2>3. IsAsked(w, "card") /\ call'[w].named = call[q].named
    BY <1>2, ApplyEffect
  <2>4. call'[q] = call[q] /\ call'[w].from = "card"
    BY <2>2, <2>3 DEF IsAsked, OthersStay
  <2> QED BY <2>1, <2>3, <2>4 DEF WriteFor
<1>3. ASSUME call[w] = Free, NEW u \in User \cup {NoUser},
             Tap(q, u, TRUE), Approved(q, TRUE), IsWriteOf(w, q, u)
      PROVE  WriteFor(w, q)'
  <2>1. HoldOf(q) /\ pending[q] # NoHold
    BY <1>3 DEF HoldsOK, Approved
  <2>2. /\ tapped'[q] = [approve |-> TRUE, by |-> u, at |-> now]
        /\ pending'[q] = NoHold
        /\ offeredAt'[q] = offeredAt[q]
    BY <1>3, <2>1 DEF Tap, Popped, HoldOf, TypeOK, NotifyTypeOK
  <2>3. [approve |-> TRUE, by |-> u, at |-> now] # NoTap
    <3>1. now \in Nat
      BY DEF TypeOK, NotifyTypeOK
    <3>2. [approve |-> TRUE, by |-> u, at |-> now] \in Taps
      BY <3>1, Zenon DEF Taps
    <3> QED BY <3>2
  <2>4. now <= offeredAt[q] + TTL
    BY <1>3, <2>1 DEF Approved, HoldOf, TypeOK, NotifyTypeOK
  <2>5. q # w /\ call[q].proposal /\ call[q].notify
    BY <1>3, <2>1 DEF HoldOf, Free
  <2>6. call'[q] = call[q]
    BY <1>3, <2>5 DEF IsWriteOf, OthersStay
  <2> QED BY <1>3, <2>1, <2>2, <2>3, <2>4, <2>5, <2>6 DEF WriteFor, IsWriteOf, HoldOf
<1> QED BY <1>1, <1>2, <1>3, WriteBegins

\* No step makes a second write of a proposal.
LEMMA OnceStep ==
    TypeOK /\ CallsOK /\ HoldsOK /\ WritesOK /\ OnePerProposal /\ [Next]_vars
      => OnePerProposal'
<1> SUFFICES ASSUME TypeOK, CallsOK, HoldsOK, WritesOK, OnePerProposal, [Next]_vars,
                    NEW w \in Call, NEW v \in Call, NEW q \in Call,
                    call'[w].writes = q, call'[v].writes = q, w # v
             PROVE  FALSE
  BY DEF OnePerProposal
<1>1. \A c \in Call : call[c] # Free /\ call'[c].writes = q => call[c].writes = q
  BY CallStays DEF StaysItself
<1>2. ASSUME NEW a \in Call, NEW b \in Call, a # b, call[a] = Free,
             call'[a].writes = q, call'[b].writes = q
      PROVE  FALSE
  <2>1. call'[b] = call[b] /\ call[b].writes = q
    BY <1>2, WriteBegins DEF OthersStay
  <2>2. WriteFor(b, q) /\ CallOf(b) /\ CallOf(q)
    BY <2>1 DEF WritesOK, CallsOK
  <2>3. call[b] \in Calls
    BY DEF TypeOK, ClientTypeOK
  <2>4. call[b].from \in {"card", "approval"}
    BY <2>1, <2>2, <2>3 DEF CallOf, Calls
  <2>5. CASE Apply(a, q)
    BY <2>2, <2>4, <2>5 DEF Apply, WriteFor, CallOf
  <2>6. CASE Approved(q, TRUE) /\ \E u \in User \cup {NoUser} : Tap(q, u, TRUE)
    BY <2>2, <2>4, <2>6 DEF Approved, Tap, WriteFor, CallOf
  <2> QED BY <1>2, <2>5, <2>6, WriteBegins
<1>3. CASE call[w] # Free /\ call[v] # Free
  BY <1>1, <1>3 DEF OnePerProposal
<1> QED BY <1>2, <1>3

-----------------------------------------------------------------------------

(* The card. *)

\* The card changes its target only with its generation, and otherwise shows
\* nothing new but answers of its conversation.
LEMMA CardChanges ==
    ASSUME [Next]_vars
    PROVE  \/ /\ generation' = generation + 1 /\ busy' = FALSE
              /\ messages' = {} /\ UNCHANGED call
           \/ /\ UNCHANGED <<target, generation>>
              /\ \A m \in messages' \ messages : Answer(m) /\ ShownOf(m)
<1>1. CASE Card
  BY <1>1 DEF Card, Send, Apply, Dismiss, SetConfig, Freed, clientVars
<1>2. CASE UNCHANGED cardVars
  BY <1>2 DEF cardVars
<1>3. ASSUME NEW c \in Call, Answer(c)
      PROVE  /\ UNCHANGED <<target, generation>>
             /\ \A m \in messages' \ messages : m = c /\ ShownOf(m)
  BY <1>3 DEF Answer, CardReply, cardVars, ShownOf, Wanted
<1>4. ASSUME NEW c \in Call, Fail(c)
      PROVE  UNCHANGED <<target, generation, messages>>
  BY <1>4 DEF Fail, CardReply, cardVars
<1>5. CASE Restart
  BY <1>5 DEF Restart
<1> QED BY <1>1, <1>2, <1>3, <1>4, <1>5 DEF Next, vars

\* Every step keeps the card's calls with the target they were asked of.
LEMMA ConversationStep ==
    TypeOK /\ CallsOK /\ ConversationOK /\ [Next]_vars => ConversationOK'
<1> SUFFICES ASSUME TypeOK, CallsOK, ConversationOK, [Next]_vars
             PROVE  ConversationOK'
  OBVIOUS
<1>0. generation \in Nat /\ \A c \in Call : call[c].generation \in Nat
  BY DEF TypeOK, CardTypeOK, ClientTypeOK, Calls
<1>1. ASSUME NEW d \in Call, call[d] # Free PROVE AskedOf(d)'
  <2>1. AskedOf(d) /\ StaysItself(d)
    BY <1>1, CallStays DEF ConversationOK
  <2>2. call'[d].from = call[d].from /\ call'[d].named = call[d].named
        /\ call'[d].generation = call[d].generation
    BY <2>1 DEF StaysItself
  <2>3. CASE UNCHANGED <<target, generation>>
    BY <2>1, <2>2, <2>3 DEF AskedOf
  <2>4. CASE generation' = generation + 1
    BY <1>0, <2>1, <2>2, <2>4 DEF AskedOf
  <2> QED BY <2>3, <2>4, CardChanges
<1>2. ASSUME NEW d \in Call, call[d] = Free PROVE AskedOf(d)'
  <2>1. call'[d] = call[d] => AskedOf(d)'
    BY <1>2 DEF AskedOf, Free
  <2>2. ASSUME NEW c \in Call, Send(c) PROVE AskedOf(d)'
    <3>1. UNCHANGED <<target, generation>>
      BY <2>2 DEF Send
    <3>2. IsAsked(c, "card") /\ call'[c].named = target
      BY <2>2, SendEffect
    <3>3. call'[c].generation = generation /\ (d # c => call'[d] = call[d])
      BY <3>2 DEF IsAsked, OthersStay
    <3> QED BY <1>0, <2>1, <3>1, <3>2, <3>3 DEF AskedOf
  <2>3. ASSUME NEW c \in Call, NEW m \in Call, Apply(c, m) PROVE AskedOf(d)'
    <3>1. UNCHANGED <<target, generation>> /\ call[m].named = target
      BY <2>3 DEF Apply, ConversationOK, AskedOf
    <3>2. IsAsked(c, "card") /\ call'[c].named = target
      BY <2>3, <3>1, ApplyEffect
    <3>3. call'[c].generation = generation /\ (d # c => call'[d] = call[d])
      BY <3>2 DEF IsAsked, OthersStay
    <3> QED BY <1>0, <2>1, <3>1, <3>2, <3>3 DEF AskedOf
  <2>4. ASSUME NEW c \in Call, CallAction(c) PROVE AskedOf(d)'
    BY <2>1, <2>4, ActionEffect DEF AskedOf, IsAsked, OthersStay
  <2>5. ASSUME NEW c \in Call, HandleAsk(c) \/ Answer(c) \/ Notified(c) \/ Fail(c)
        PROVE  AskedOf(d)'
    <3>1. OthersStay(c) /\ c # d
      BY <1>2, <2>5, HandleEffect, AnswerEffect, EndEffect DEF Free, InFlight
    <3> QED BY <2>1, <3>1 DEF OthersStay
  <2>6. ASSUME NEW p \in Call, NEW u \in User \cup {NoUser}, NEW approve \in BOOLEAN,
               Tap(p, u, approve)
        PROVE  AskedOf(d)'
    <3>1. ASSUME NEW w \in Call, IsWriteOf(w, p, u)
          PROVE  call'[d] = call[d] \/ call'[d].from = "approval"
      BY <3>1 DEF IsWriteOf, OthersStay
    <3> QED BY <2>1, <2>6, <3>1, TapEffect DEF AskedOf
  <2>7. CASE Restart
    BY <1>2, <2>1, <2>7, RestartEffect DEF Free, InFlight
  <2> QED BY <2>1, <2>2, <2>3, <2>4, <2>5, <2>6, <2>7, CallSteps
<1>3. ASSUME NEW m \in messages' PROVE ShownOf(m)'
  <2>1. UNCHANGED <<target, generation>> /\ ShownOf(m)
    BY <1>3, CardChanges DEF ConversationOK
  <2>2. m \in Call
    BY <1>3, CardChanges, TypeStep DEF TypeOK, CardTypeOK
  <2>3. StaysItself(m)
    BY <2>1, <2>2, CallStays DEF ShownOf, Free
  <2> QED BY <2>1, <2>3 DEF ShownOf, StaysItself
<1> QED BY <1>1, <1>2, <1>3 DEF ConversationOK

\* Every step that leaves the card busy leaves it waiting for an answer.
LEMMA BusyStep == TypeOK /\ CallsOK /\ BusyHasReason /\ [Next]_vars => BusyHasReason'
<1> SUFFICES ASSUME TypeOK, CallsOK, BusyHasReason, [Next]_vars, busy'
             PROVE  \E c \in Call : (/\ InFlight(c) /\ call[c].from = "card"
                                     /\ call[c].generation = generation)'
  BY DEF BusyHasReason
<1>1. ASSUME NEW c \in Call, Send(c)
      PROVE  (InFlight(c) /\ call[c].from = "card" /\ call[c].generation = generation)'
  BY <1>1, SendEffect DEF Send, IsAsked, InFlight
<1>2. ASSUME NEW c \in Call, NEW m \in Call, Apply(c, m)
      PROVE  (InFlight(c) /\ call[c].from = "card" /\ call[c].generation = generation)'
  BY <1>2, ApplyEffect DEF Apply, IsAsked, InFlight
<1>3. CASE SetConfig
  BY <1>3 DEF SetConfig, Freed
<1>4. ASSUME busy, UNCHANGED generation,
             \A c \in Call : InFlight(c) /\ call[c].from = "card" /\ call[c].generation = generation
                               => call'[c] = call[c] \/ HandleAsk(c)
      PROVE  \E c \in Call : (/\ InFlight(c) /\ call[c].from = "card"
                              /\ call[c].generation = generation)'
  <2>1. PICK c \in Call : InFlight(c) /\ call[c].from = "card"
                          /\ call[c].generation = generation
    BY <1>4 DEF BusyHasReason
  <2>2. CASE HandleAsk(c)
    BY <1>4, <2>1, <2>2, HandleEffect DEF InFlight, StaysItself
  <2>3. CASE call'[c] = call[c]
    BY <1>4, <2>1, <2>3 DEF InFlight
  <2> QED BY <1>4, <2>1, <2>2, <2>3
<1>5. ASSUME NEW m \in Call, Dismiss(m)
      PROVE  UNCHANGED <<call, busy, generation>>
  BY <1>5 DEF Dismiss, clientVars
<1>6. CASE Notifications /\ UNCHANGED cardVars
  <2>1. busy /\ UNCHANGED generation
    BY <1>6 DEF cardVars
  <2>2. ASSUME NEW c \in Call, NEW d \in Call, CallAction(d), InFlight(c)
        PROVE  call'[c] = call[c]
    <3>1. IsAsked(d, "action")
      BY <2>2, ActionEffect
    <3>2. call[d].at = "free" /\ OthersStay(d)
      BY <3>1 DEF IsAsked, Free
    <3> QED BY <2>2, <3>2 DEF OthersStay, InFlight
  <2>3. ASSUME NEW c \in Call, NEW d \in Call, Notified(d), call[c].from = "card"
        PROVE  call'[c] = call[c]
    <3>1. call[d].from = "action"
      BY <2>3 DEF Notified, CallsOK, CallOf
    <3> QED BY <2>3, <3>1, EndEffect DEF OthersStay
  <2>4. ASSUME NEW c \in Call, NEW p \in Call, NEW u \in User \cup {NoUser},
               NEW approve \in BOOLEAN, Tap(p, u, approve), InFlight(c)
        PROVE  call'[c] = call[c]
    <3>1. ASSUME NEW w \in Call, IsWriteOf(w, p, u)
          PROVE  call'[c] = call[c]
      BY <2>4, <3>1 DEF IsWriteOf, OthersStay, InFlight, Free
    <3> QED BY <2>4, <3>1, TapEffect
  <2>5. CASE Tick
    BY <1>4, <2>1, <2>5 DEF Tick, clientVars
  <2> QED BY <1>4, <1>6, <2>1, <2>2, <2>3, <2>4, <2>5 DEF Notifications
<1>7. CASE Clients /\ UNCHANGED <<notifyVars, cardVars>>
  <2>1. busy /\ UNCHANGED generation
    BY <1>7 DEF cardVars
  <2>2. \A c \in Call : call'[c] = call[c] \/ HandleAsk(c)
    <3>1. ASSUME NEW d \in Call, HandleAsk(d)
          PROVE  \A c \in Call : call'[c] = call[c] \/ HandleAsk(c)
      BY <3>1, HandleEffect DEF OthersStay
    <3> QED BY <1>7, <3>1 DEF Clients, Poll, Load, Unload, Remove, Swap
  <2> QED BY <1>4, <2>1, <2>2
<1>8. ASSUME NEW d \in Call, Answer(d) \/ Fail(d)
      PROVE  /\ busy /\ UNCHANGED generation
             /\ \A c \in Call : call[c].from = "card" /\ call[c].generation = generation
                                  => call'[c] = call[c]
  <2>1. ~(call[d].from = "card" /\ Wanted(d))
    BY <1>8 DEF Answer, Fail, CardReply
  <2>2. UNCHANGED cardVars
    BY <1>8, <2>1 DEF Answer, Fail, CardReply
  <2>3. OthersStay(d)
    BY <1>8, AnswerEffect, EndEffect
  <2> QED BY <2>1, <2>2, <2>3 DEF cardVars, OthersStay, Wanted
<1>9. CASE Restart
  BY <1>9 DEF Restart, BusyHasReason, Wanted
<1>10. CASE UNCHANGED vars
  BY <1>4, <1>10 DEF vars, clientVars, cardVars
<1> QED BY <1>1, <1>2, <1>3, <1>4, <1>5, <1>6, <1>7, <1>8, <1>9, <1>10 DEF Next, Card

-----------------------------------------------------------------------------
(* The apps. *)

\* A status tells a client what its app is, unless that has changed or does so.
LEMMA KnownStep == TypeOK /\ KnownOK /\ [Next]_vars => KnownOK'
<1> SUFFICES ASSUME TypeOK, KnownOK, [Next]_vars, NEW d \in Entry
             PROVE  KnownOf(d)'
  BY DEF KnownOK
<1>1. UNCHANGED <<app, foreign, web, polled>> => KnownOf(d)'
  BY DEF KnownOK, KnownOf
<1>2. ASSUME NEW e \in Entry, Poll(e) \/ Load(e) PROVE KnownOf(d)'
  <2>1. PICK said \in Apps : Learn(e, said) /\ UNCHANGED app
    BY <1>2 DEF Poll, Load
  <2>2. CASE d = e
    <3>1. foreign'[d] = (said = "other") /\ polled'[d] = (said = app[d])
      BY <2>1, <2>2 DEF Learn, TypeOK, ClientTypeOK
    <3>2. said # "other" => web'[d] = (said = "ours")
      BY <2>1, <2>2 DEF Learn, TypeOK, ClientTypeOK
    <3> QED BY <2>1, <3>1, <3>2 DEF KnownOf
  <2>3. CASE d # e
    BY <2>1, <2>3 DEF Learn, KnownOK, KnownOf, TypeOK, ClientTypeOK
  <2> QED BY <2>2, <2>3
<1>3. ASSUME NEW e \in Entry, Swap(e) PROVE KnownOf(d)'
  BY <1>3 DEF Swap, KnownOK, KnownOf, TypeOK, ClientTypeOK
<1>4. CASE Card
  BY <1>1, <1>4 DEF Card, Send, Apply, CardAsks, Dismiss, SetConfig, clientVars
<1>5. CASE Notifications
  BY <1>1, <1>5 DEF Notifications, CallAction, Notified, Tap, Tick, clientVars
<1>6. CASE Clients
  BY <1>1, <1>2, <1>3, <1>6 DEF Clients, HandleAsk, Unload, Remove
<1>7. CASE Restart \/ \E c \in Call : Answer(c) \/ Fail(c)
  BY <1>1, <1>7 DEF Restart, Answer, Fail
<1>8. CASE UNCHANGED vars
  BY <1>1, <1>8 DEF vars, clientVars
<1> QED BY <1>4, <1>5, <1>6, <1>7, <1>8 DEF Next

-----------------------------------------------------------------------------
(* The invariant and what follows from it. *)

AskingInv ==
    /\ TypeOK
    /\ CallsOK
    /\ HoldsOK
    /\ WritesOK
    /\ OnePerProposal
    /\ ConversationOK
    /\ BusyHasReason
    /\ KnownOK

\* The invariant holds in every reachable state.
LEMMA Invariant == Spec => []AskingInv
<1>1. Init => AskingInv
  <2> SUFFICES ASSUME Init PROVE AskingInv
    OBVIOUS
  <2>1. \A c \in Call : call[c] = Free /\ pending[c] = NoHold /\ tapped[c] = NoTap
    BY DEF Init, ClientInit, NotifyInit
  <2>2. HoldsOK
    BY <2>1 DEF HoldsOK, HoldOf
  <2>3. WritesOK /\ OnePerProposal
    BY <2>1 DEF WritesOK, OnePerProposal, Free
  <2>4. ConversationOK
    BY <2>1 DEF ConversationOK, AskedOf, Free, Init, CardInit
  <2>5. BusyHasReason
    BY DEF BusyHasReason, Init, CardInit
  <2>6. KnownOK
    BY DEF KnownOK, KnownOf, Init, ClientInit
  <2> QED BY <2>2, <2>3, <2>4, <2>5, <2>6, InitTypes, CallsInit DEF AskingInv
<1>2. AskingInv /\ [Next]_vars => AskingInv'
  BY TypeStep, CallsStep, HoldsStep, WritesStep, OnceStep, ConversationStep, BusyStep,
     KnownStep DEF AskingInv
<1> QED BY <1>1, <1>2, PTL DEF Spec

\* Every reachable state is well typed.
THEOREM TypeCorrect == Spec => []TypeOK
BY Invariant, PTL DEF AskingInv

\* A proposal has one write at most.
WrittenOnce == \A p \in Call : Cardinality(WritesOf(p)) <= 1

\* However often and wherever a proposal is approved, it is written at most
\* once.
THEOREM AtMostOneWrite == Spec => []WrittenOnce
<1>1. ASSUME AskingInv, NEW p \in Call
      PROVE  Cardinality(WritesOf(p)) <= 1
  <2>1. CASE WritesOf(p) = {}
    <3>1. Cardinality({}) = 0
      BY FS_EmptySet
    <3>2. Cardinality(WritesOf(p)) = 0
      BY <2>1, <3>1, Zenon
    <3> QED BY <3>2
  <2>2. ASSUME NEW w \in Call, call[w].writes = p
        PROVE  Cardinality(WritesOf(p)) = 1
    <3>1. WritesOf(p) = {w}
      BY <1>1, <2>2 DEF WritesOf, AskingInv, OnePerProposal
    <3> QED BY <3>1, FS_Singleton
  <2> QED BY <2>1, <2>2 DEF WritesOf
<1>2. AskingInv => WrittenOnce
  BY <1>1 DEF WrittenOnce
<1> QED BY <1>2, Invariant, PTL

\* A notification's write is what its first tap approved in time, on the entry
\* that proposed it and in the right user's name.
THEOREM WrittenAsApproved == Spec => []OnlyAsApproved
<1>1. AskingInv => OnlyAsApproved
  BY DEF AskingInv, OnlyAsApproved, CallsOK, CallOf, WritesOK, WriteFor
<1> QED BY <1>1, Invariant, PTL

\* A write goes to the entry that proposed it, unless the card named none.
THEOREM WrittenWhereNamed == Spec => []AppliedWhereNamed
<1>1. ASSUME AskingInv, NEW w \in Call, NEW p \in Call, Applies(w, p),
             call[p].from = "card" => call[p].named # NoEntry
      PROVE  call[w].entry = call[p].entry
  <2>1. CallOf(w) /\ CallOf(p) /\ WriteFor(w, p) /\ call[w].entry # NoEntry
    BY <1>1 DEF AskingInv, CallsOK, WritesOK, Applies
  <2>2. call[w].from \in {"card", "approval"}
    BY <1>1, <2>1 DEF AskingInv, Applies, CallOf, TypeOK, ClientTypeOK, Calls
  <2> QED BY <1>1, <2>1, <2>2 DEF CallOf, WriteFor
<1>2. AskingInv => AppliedWhereNamed
  BY <1>1 DEF AppliedWhereNamed
<1> QED BY <1>2, Invariant, PTL

\* The card shows only answers of the conversation it is in.
THEOREM ShowsOnlyItsConversation == Spec => []ShowsItsConversation
<1>1. AskingInv => ShowsItsConversation
  BY DEF AskingInv, TypeOK, CardTypeOK, ShowsItsConversation, ConversationOK, ShownOf,
         AskedOf
<1> QED BY <1>1, Invariant, PTL

\* The card is never locked without an answer of its conversation on its way.
THEOREM NeverLockedForGood == Spec => []BusyHasReason
BY Invariant, PTL DEF AskingInv

\* A client that was told what its app is sends it nothing it must not have.
THEOREM HeedsStatus == Spec => StatusIsHeeded
<1> DEFINE Heeded ==
      \A c \in Call :
         call'[c].at = "app" /\ call[c].at # "app" =>
             LET e == call'[c].entry
             IN  polled[e] => /\ app[e] # "other"
                              /\ call'[c].mode = "web" => app[e] = "ours"
<1>1. ASSUME AskingInv, [Next]_vars PROVE Heeded
  <2> SUFFICES ASSUME NEW c \in Call, call'[c].at = "app", call[c].at # "app",
                      polled[call'[c].entry]
               PROVE  /\ app[call'[c].entry] # "other"
                      /\ call'[c].mode = "web" => app[call'[c].entry] = "ours"
    OBVIOUS
  <2> USE DEF AskingInv
  <2>1. \E e \in Entry, mode \in {"read", "write", "web"} :
          e = call'[c].entry /\ mode = call'[c].mode /\ ~Refused(e, mode)
    <3>1. ASSUME NEW d \in Call,
                 Send(d) \/ (\E m \in Call : Apply(d, m)) \/ CallAction(d)
          PROVE  FALSE
      BY <1>1, <3>1, SendEffect, ApplyEffect, ActionEffect DEF IsAsked, OthersStay
    <3>2. ASSUME NEW d \in Call, HandleAsk(d)
          PROVE  \E e \in Entry, mode \in {"read", "write", "web"} :
                   e = call'[c].entry /\ mode = call'[c].mode /\ ~Refused(e, mode)
      <4>1. c = d
        BY <1>1, <3>2, HandleEffect DEF OthersStay
      <4>2. call[c].mode \in {"read", "write", "web"}
        BY <1>1 DEF TypeOK, ClientTypeOK, Calls
      <4> QED BY <1>1, <3>2, <4>1, <4>2, HandleEffect DEF StaysItself
    <3>3. ASSUME NEW d \in Call, Answer(d) \/ Notified(d) \/ Fail(d)
          PROVE  FALSE
      BY <1>1, <3>3, AnswerEffect, EndEffect DEF OthersStay
    <3>4. ASSUME NEW p \in Call, NEW u \in User \cup {NoUser}, NEW approve \in BOOLEAN,
                 Tap(p, u, approve)
          PROVE  \E e \in Entry, mode \in {"read", "write", "web"} :
                   e = call'[c].entry /\ mode = call'[c].mode /\ ~Refused(e, mode)
      <4>1. PICK w \in Call : Approved(p, approve) /\ IsWriteOf(w, p, u)
        BY <1>1, <3>4, TapEffect
      <4>2. c = w
        BY <4>1 DEF IsWriteOf, OthersStay
      <4>3. pending[p].entry \in Entry
        BY <1>1, <3>4, <4>1, WriteTypes DEF Approved
      <4> QED BY <4>1, <4>2, <4>3 DEF IsWriteOf
    <3>5. CASE Restart
      BY <1>1, <3>5, RestartEffect
    <3> QED BY <1>1, <3>1, <3>2, <3>3, <3>4, <3>5, CallSteps
  <2>2. PICK e \in Entry : e = call'[c].entry /\ ~Refused(e, call'[c].mode)
    BY <2>1
  <2>3. KnownOf(e)
    BY <1>1 DEF KnownOK
  <2>4. app[e] \in Apps
    BY <1>1 DEF TypeOK, ClientTypeOK
  <2> QED BY <2>2, <2>3, <2>4 DEF KnownOf, Refused
<1>2. AskingInv /\ [Next]_vars => [Heeded]_vars
  BY <1>1
<1> QED BY <1>2, Invariant, PTL DEF Spec, StatusIsHeeded

-----------------------------------------------------------------------------
(* Asking and confirming implements ProposalLife. *)

\* What an app ran, or may have, was answered or failed with the same step.
Ended(c) == call[c].at \in {"answered", "failed"}
RanOK == \A w \in ran : Ended(w)

\* A call that ended stays as it ended.
LEMMA EndedStays ==
    ASSUME TypeOK, [Next]_vars, NEW d \in Call, Ended(d)
    PROVE  call'[d].at = call[d].at
<1>0. call[d] # Free
  BY DEF Ended, Free
<1>1. ASSUME NEW c \in Call, Send(c) \/ (\E m \in Call : Apply(c, m)) \/ CallAction(c)
      PROVE  call'[d].at = call[d].at
  <2>1. call[c] = Free /\ OthersStay(c)
    BY <1>1, SendEffect, ApplyEffect, ActionEffect DEF IsAsked
  <2> QED BY <1>0, <2>1 DEF OthersStay
<1>2. ASSUME NEW c \in Call, HandleAsk(c) \/ Answer(c)
      PROVE  call'[d].at = call[d].at
  BY <1>2, HandleEffect, AnswerEffect DEF OthersStay, Ended
<1>3. ASSUME NEW c \in Call, Notified(c) \/ Fail(c)
      PROVE  call'[d].at = call[d].at
  BY <1>3, EndEffect DEF OthersStay, Ended, InFlight
<1>4. ASSUME NEW p \in Call, NEW u \in User \cup {NoUser}, NEW approve \in BOOLEAN,
             Tap(p, u, approve)
      PROVE  call'[d].at = call[d].at
  <2>1. ASSUME NEW w \in Call, IsWriteOf(w, p, u) PROVE call'[d].at = call[d].at
    BY <1>0, <2>1 DEF IsWriteOf, OthersStay
  <2> QED BY <1>4, <2>1, TapEffect
<1>5. CASE Restart
  BY <1>5, RestartEffect DEF Ended, InFlight
<1> QED BY <1>1, <1>2, <1>3, <1>4, <1>5, CallSteps

\* What runs was in flight and ends with the step that ran it; what ran stays so.
LEMMA RanGrows ==
    ASSUME TypeOK, CallsOK, [Next]_vars
    PROVE  /\ ran \subseteq ran'
           /\ \A w \in ran' \ ran : InFlight(w) /\ Ended(w)'
           /\ ran' \subseteq Call
<1>1. CASE Card
  BY <1>1 DEF Card, Send, Apply, CardAsks, Dismiss, SetConfig, clientVars, TypeOK, ClientTypeOK
<1>2. CASE Notifications
  BY <1>2 DEF Notifications, CallAction, Notified, Tap, Tick, clientVars, TypeOK, ClientTypeOK
<1>3. CASE Clients
  BY <1>3 DEF Clients, HandleAsk, Poll, Load, Unload, Remove, Swap, TypeOK, ClientTypeOK
<1>4. ASSUME NEW c \in Call, Answer(c)
      PROVE  /\ ran \subseteq ran'
             /\ \A w \in ran' \ ran : InFlight(w) /\ Ended(w)'
             /\ ran' \subseteq Call
  <2>1. ran' = ran \/ (call[c].mode = "write" /\ ran' = ran \cup {c})
    BY <1>4 DEF Answer, Ran
  <2>2. call[c].at = "app"
    BY <1>4, AnswerEffect
  <2>3. call[c].mode = "write" => call'[c].at = "answered"
    <3> SUFFICES ASSUME call[c].mode = "write" PROVE call'[c].at = "answered"
      OBVIOUS
    <3>1. Set(c, [call[c] EXCEPT !.proposal = FALSE, !.at = "answered"])
      BY <1>4 DEF Answer
    <3>2. call[c] \in Calls
      BY DEF TypeOK, ClientTypeOK
    <3> QED BY <3>1, <3>2 DEF Set, TypeOK, ClientTypeOK, Calls
  <2> QED BY <2>1, <2>2, <2>3 DEF InFlight, Ended, TypeOK, ClientTypeOK
<1>5. ASSUME NEW c \in Call, Fail(c)
      PROVE  /\ ran \subseteq ran'
             /\ \A w \in ran' \ ran : InFlight(w) /\ Ended(w)'
             /\ ran' \subseteq Call
  <2>1. ran' = ran \/ ran' = ran \cup {c}
    BY <1>5 DEF Fail, MayHaveRun, Ran
  <2>2. InFlight(c) /\ call'[c].at = "failed"
    <3>1. ~Notified(c) \/ call'[c].at = "failed"
      BY <1>5 DEF Notified, Fail, At, Set, TypeOK, ClientTypeOK, Calls
    <3> QED BY <1>5, <3>1, EndEffect
  <2> QED BY <2>1, <2>2 DEF Ended, TypeOK, ClientTypeOK
<1>6. CASE Restart
  <2>1. PICK written \in SUBSET {c \in Call : call[c].at = "app" /\ call[c].mode = "write"} :
          ran' = ran \cup written
    BY <1>6 DEF Restart
  <2>2. \A w \in written : InFlight(w) /\ Ended(w)'
    BY <1>6, RestartEffect DEF InFlight, Ended
  <2> QED BY <2>1, <2>2 DEF TypeOK, ClientTypeOK
<1>7. CASE UNCHANGED vars
  BY <1>7 DEF vars, clientVars, TypeOK, ClientTypeOK
<1> QED BY <1>1, <1>2, <1>3, <1>4, <1>5, <1>6, <1>7 DEF Next

\* Every step keeps what has run among what has ended.
LEMMA RanStep == TypeOK /\ CallsOK /\ RanOK /\ [Next]_vars => RanOK'
<1> SUFFICES ASSUME TypeOK, CallsOK, RanOK, [Next]_vars, NEW w \in ran'
             PROVE  Ended(w)'
  BY DEF RanOK
<1>1. CASE w \in ran
  BY <1>1, EndedStays DEF RanOK, Ended, TypeOK, ClientTypeOK
<1> QED BY <1>1, RanGrows

\* What was dismissed stays dismissed.
LEMMA DismissedGrows == [Next]_vars => dismissed \subseteq dismissed'
<1> SUFFICES ASSUME [Next]_vars PROVE dismissed \subseteq dismissed'
  OBVIOUS
<1>1. CASE Card
  BY <1>1 DEF Card, Send, Apply, Dismiss, SetConfig
<1>2. CASE UNCHANGED cardVars
  BY <1>2 DEF cardVars
<1>3. ASSUME NEW c \in Call, Answer(c) \/ Fail(c) PROVE dismissed' = dismissed
  BY <1>3 DEF Answer, Fail, CardReply, cardVars
<1>4. CASE Restart
  BY <1>4 DEF Restart
<1> QED BY <1>1, <1>2, <1>3, <1>4 DEF Next, vars

\* What is on the card or stored, and can be approved, has not been written.
LEMMA OpenIsUnwritten ==
    ASSUME TypeOK, CallsOK, HoldsOK, WritesOK, NEW p \in Call, Open(p)
    PROVE  call[p].proposal /\ \A w \in Call : call[w].writes # p
<1>1. CallOf(p) /\ HoldOf(p)
  BY DEF CallsOK, HoldsOK
<1>2. call[p].proposal
  BY <1>1 DEF Open, HoldOf
<1>3. ASSUME NEW w \in Call, call[w].writes = p PROVE FALSE
  <2>1. CallOf(w) /\ WriteFor(w, p) /\ call[w] \in Calls
    BY <1>3 DEF CallsOK, WritesOK, TypeOK, ClientTypeOK
  <2>2. call[w].from \in {"card", "approval"}
    BY <1>3, <2>1 DEF CallOf, Calls
  <2> QED BY <1>1, <2>1, <2>2 DEF Open, HoldOf, CallOf, WriteFor
<1> QED BY <1>2, <1>3

\* A write starts from what can be approved, and has run nothing yet.
LEMMA WriteStarts ==
    ASSUME TypeOK, CallsOK, HoldsOK, RanOK, [Next]_vars,
           NEW w \in Call, NEW p \in Call, call[w].writes # p, call'[w].writes = p
    PROVE  call[w] = Free /\ OthersStay(w) /\ Open(p) /\ w \notin ran'
<1>1. call[w] = Free
  BY CallStays DEF StaysItself
<1>2. Open(p)
  BY <1>1, WriteBegins DEF Apply, Approved, Open
<1>3. w \notin ran'
  BY <1>1, RanGrows DEF RanOK, Ended, InFlight, Free
<1> QED BY <1>1, <1>2, <1>3, WriteBegins

\* Nothing that was proposed earlier can be approved again.
LEMMA OpenIsNotReopened ==
    ASSUME TypeOK, CallsOK, HoldsOK, ConversationOK, [Next]_vars,
           NEW p \in Call, call[p].proposal, Open(p)'
    PROVE  Open(p)
<1>1. CallOf(p) /\ call[p] # Free
  BY DEF CallsOK, Free
<1>2. CASE pending'[p] # NoHold
  <2>1. ~Answer(p)
    BY <1>1, AnswerEffect DEF CallOf
  <2> QED BY <1>2, <2>1, HoldChanges DEF Open
<1>3. CASE /\ call'[p].from = "card" /\ call'[p].generation = generation'
           /\ p \notin applied' \cup dismissed'
  <2>1. call[p].from = "card" /\ call[p].generation = generation'
    BY <1>1, <1>3, CallStays DEF StaysItself
  <2>2. call[p].generation <= generation /\ generation \in Nat
    BY <2>1 DEF ConversationOK, AskedOf, TypeOK, CardTypeOK
  <2>3. generation' = generation \/ generation' = generation + 1
    BY CardChanges
  <2>4. call[p].generation \in Nat
    BY DEF TypeOK, ClientTypeOK, Calls
  <2>5. generation' = generation
    BY <2>1, <2>2, <2>3, <2>4
  <2>6. p \notin applied \cup dismissed
    BY <1>3, AppliedGrows, DismissedGrows
  <2> QED BY <2>1, <2>5, <2>6 DEF Open
<1> QED BY <1>2, <1>3 DEF Open

\* What the stage of a proposal says of it and of its write.
NotWritten(p) == \A w \in Call : call[w].writes # p
WrittenBy(p, w) ==
    /\ call[p].proposal /\ ~Open(p)
    /\ \A v \in Call : call[v].writes = p <=> v = w
    /\ InFlight(w) <=> ~Ended(w)
    /\ w \in ran => Ended(w)
StageFits(p) ==
    \/ StageOf(p) = "new" /\ ~call[p].proposal /\ ~Open(p) /\ NotWritten(p)
    \/ StageOf(p) = "open" /\ call[p].proposal /\ Open(p) /\ NotWritten(p)
    \/ StageOf(p) = "gone" /\ call[p].proposal /\ ~Open(p) /\ NotWritten(p)
    \/ \E w \in Call :
         /\ WrittenBy(p, w)
         /\ \/ StageOf(p) = "approved" /\ InFlight(w)
            \/ StageOf(p) = "ran" /\ w \in ran
            \/ StageOf(p) = "gone" /\ Ended(w) /\ w \notin ran
StagesFit == \A p \in Call : StageFits(p)

\* With the invariant, every proposal is at one of the stages.
LEMMA StageIs ==
    ASSUME AskingInv, RanOK, NEW p \in Call
    PROVE  StageFits(p)
<1> USE DEF AskingInv
<1>1. CASE Open(p)
  <2>1. WritesOf(p) = {} /\ call[p].proposal /\ NotWritten(p)
    BY <1>1, OpenIsUnwritten DEF WritesOf, NotWritten
  <2> QED BY <1>1, <2>1 DEF StageOf, StageFits
<1>2. CASE ~Open(p) /\ NotWritten(p)
  <2>1. WritesOf(p) = {}
    BY <1>2 DEF WritesOf, NotWritten
  <2>2. call[p].proposal \in BOOLEAN
    BY DEF TypeOK, ClientTypeOK, Calls
  <2> QED BY <1>2, <2>1, <2>2 DEF StageOf, StageFits
<1>3. ASSUME NEW w \in Call, call[w].writes = p
      PROVE  StageFits(p)
  <2>1. CallOf(w) /\ WriteFor(w, p) /\ call[w] \in Calls
    BY <1>3 DEF CallsOK, WritesOK, TypeOK, ClientTypeOK
  <2>2. ~Open(p) /\ call[p].proposal
    BY <1>3, <2>1, OpenIsUnwritten DEF WriteFor
  <2>3. \A v \in Call : call[v].writes = p <=> v = w
    BY <1>3 DEF OnePerProposal
  <2>4. call[w].at # "free"
    BY <1>3, <2>1 DEF CallOf, Free
  <2>5. InFlight(w) <=> ~Ended(w)
    BY <2>1, <2>4 DEF InFlight, Ended, Calls, Stages
  <2>6. w \in ran => Ended(w)
    BY DEF RanOK
  <2>7. WrittenBy(p, w)
    BY <2>2, <2>3, <2>5, <2>6 DEF WrittenBy
  <2>8. WritesOf(p) = {w} /\ WritesOf(p) # {}
    BY <1>3, <2>3 DEF WritesOf
  <2>9. /\ InFlight(w) => StageOf(p) = "approved"
        /\ w \in ran => StageOf(p) = "ran"
        /\ Ended(w) /\ w \notin ran => StageOf(p) = "gone"
    BY <2>2, <2>5, <2>6, <2>8 DEF StageOf
  <2> QED BY <2>5, <2>7, <2>9 DEF StageFits
<1> QED BY <1>1, <1>2, <1>3 DEF NotWritten

\* What one step does to a proposal.
Lives(p) ==
    /\ call[p].proposal => call'[p].proposal
    /\ call[p].proposal /\ Open(p)' => Open(p)
    /\ \A w \in Call :
         /\ call[w].writes = p => call'[w].writes = p
         /\ call'[w].writes = p => call[w].writes = p \/ (Open(p) /\ w \notin ran')
         /\ Ended(w) => Ended(w)' /\ (w \in ran' <=> w \in ran)
         /\ w \in ran => w \in ran'

\* Every step does that.
LEMMA EachLives ==
    ASSUME AskingInv, RanOK, [Next]_vars, NEW p \in Call
    PROVE  Lives(p)
<1> USE DEF AskingInv
<1>1. call[p].proposal => call'[p].proposal
  BY CallStays DEF Free
<1>2. call[p].proposal /\ Open(p)' => Open(p)
  BY OpenIsNotReopened
<1>3. ASSUME NEW w \in Call, call[w].writes = p PROVE call'[w].writes = p
  <2>1. call[w] # Free
    BY <1>3 DEF Free
  <2> QED BY <1>3, <2>1, CallStays DEF StaysItself
<1>4. ASSUME NEW w \in Call, call'[w].writes = p, call[w].writes # p
      PROVE  Open(p) /\ w \notin ran'
  BY <1>4, WriteStarts
<1>5. ASSUME NEW w \in Call, Ended(w) PROVE Ended(w)' /\ (w \in ran' <=> w \in ran)
  <2>1. ~InFlight(w) /\ Ended(w)'
    BY <1>5, EndedStays DEF InFlight, Ended
  <2> QED BY <2>1, RanGrows
<1> QED BY <1>1, <1>2, <1>3, <1>4, <1>5, RanGrows DEF Lives

\* A proposal goes from one stage to the next as ProposalLife says.
LEMMA StageStep ==
    ASSUME StagesFit, StagesFit', NEW p \in Call, Lives(p), StageOf(p)' # StageOf(p)
    PROVE  /\ StageOf(p)' \in Life!After[StageOf(p)]
           /\ StageOf(p)' = "approved" =>
                \E w \in Call : call[w].writes # p /\ call'[w].writes = p
<1>1. StageFits(p) /\ StageFits(p)'
  BY DEF StagesFit
<1>2. CASE NotWritten(p)
  <2>1. /\ StageOf(p) = "new" => StageOf(p)' \in {"open", "gone"}
        /\ StageOf(p) = "open" => StageOf(p)' \in {"approved", "gone"}
        /\ StageOf(p) # "gone"
    BY <1>1, <1>2 DEF StageFits, NotWritten, WrittenBy, Lives
  <2>2. StageOf(p)' = "approved" => \E w \in Call : call'[w].writes = p
    BY <1>1 DEF StageFits, WrittenBy
  <2>3. StageOf(p) \in {"new", "open"}
    BY <1>1, <1>2, <2>1 DEF StageFits, NotWritten, WrittenBy
  <2> QED BY <1>2, <2>1, <2>2, <2>3 DEF NotWritten, Life!After
<1>3. ASSUME NEW w \in Call, WrittenBy(p, w)
      PROVE  StageOf(p) = "approved" /\ StageOf(p)' \in {"ran", "gone"}
  <2>1. PICK v \in Call :
          /\ WrittenBy(p, v)
          /\ \/ StageOf(p) = "approved" /\ InFlight(v)
             \/ StageOf(p) = "ran" /\ v \in ran
             \/ StageOf(p) = "gone" /\ Ended(v) /\ v \notin ran
    BY <1>1, <1>3 DEF StageFits, NotWritten, WrittenBy
  <2>2. PICK u \in Call :
          /\ WrittenBy(p, u)'
          /\ \/ StageOf(p)' = "approved" /\ InFlight(u)'
             \/ StageOf(p)' = "ran" /\ u \in ran'
             \/ StageOf(p)' = "gone" /\ Ended(u)' /\ u \notin ran'
    BY <1>1, <1>3 DEF StageFits, NotWritten, WrittenBy, Lives
  <2>3. u = v
    BY <2>1, <2>2 DEF WrittenBy, Lives
  <2> QED BY <2>1, <2>2, <2>3 DEF WrittenBy, Lives
<1> QED BY <1>1, <1>2, <1>3 DEF StageFits, NotWritten, WrittenBy, Life!After

\* Every step is one of ProposalLife's.
LEMMA LifeStep ==
    ASSUME AskingInv, RanOK, StagesFit, StagesFit', [Next]_vars
    PROVE  Life!Next
<1> DEFINE was == [p \in Call |-> StageOf(p)]
           is == [p \in Call |-> StageOf(p)']
<1>1. was \in [Call -> Life!Stages] /\ is \in [Call -> Life!Stages]
  BY DEF StagesFit, StageFits, Life!Stages
<1>2. ASSUME NEW p \in Call, is[p] # was[p]
      PROVE  /\ is[p] \in Life!After[was[p]]
             /\ is[p] = "approved" =>
                  \E w \in Call : call[w].writes # p /\ call'[w].writes = p
  <2>1. Lives(p)
    BY EachLives
  <2> QED BY <1>2, <2>1, StageStep
<1>3. ASSUME NEW p \in Call, NEW q \in Call, is[p] # was[p], is[q] # was[q],
             is[p] = "approved", is[q] = "approved"
      PROVE  p = q
  <2>1. PICK w \in Call : call[w].writes # p /\ call'[w].writes = p
    BY <1>2, <1>3
  <2>2. PICK v \in Call : call[v].writes # q /\ call'[v].writes = q
    BY <1>2, <1>3
  <2>3. OthersStay(w) /\ call[v] = Free
    BY <2>1, <2>2, WriteStarts DEF AskingInv
  <2>4. w = v
    BY <2>2, <2>3 DEF OthersStay
  <2> QED BY <2>1, <2>2, <2>4
<1>4. Life!Moves(was, is)
  BY <1>1, <1>2, <1>3 DEF Life!Moves
<1> QED BY <1>4 DEF Life!Next

\* Wherever and however often a proposal is approved or rejected, on phones and
\* on the card, it waits for one answer, is written only if it was approved, and
\* once at most, and stays as it ended: asking implements ProposalLife.
THEOREM ImplementsProposalLife == Spec => ImplementsLife
<1>1. Init => Life!Init /\ RanOK
  <2> SUFFICES ASSUME Init PROVE Life!Init /\ RanOK
    OBVIOUS
  <2>1. ran = {} /\ \A p \in Call : call[p] = Free /\ pending[p] = NoHold
    BY DEF Init, ClientInit, NotifyInit
  <2>2. ASSUME NEW p \in Call PROVE StageOf(p) = "new"
    <3>1. WritesOf(p) = {} /\ ~Open(p) /\ ~call[p].proposal
      BY <2>1 DEF WritesOf, Open, Free
    <3> QED BY <3>1 DEF StageOf
  <2> QED BY <2>1, <2>2 DEF Life!Init, RanOK
<1>2. AskingInv /\ RanOK /\ [Next]_vars => RanOK'
  BY RanStep DEF AskingInv
<1>3. AskingInv /\ RanOK => StagesFit
  BY StageIs DEF StagesFit
<1>4. AskingInv /\ RanOK /\ StagesFit /\ StagesFit' /\ [Next]_vars
        => [Life!Next]_[p \in Call |-> StageOf(p)]
  BY LifeStep
<1> QED BY <1>1, <1>2, <1>3, <1>4, Invariant, PTL DEF Spec, ImplementsLife, Life!Spec

=============================================================================
