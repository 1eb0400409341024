------------------------- MODULE ChatConfirm_proofs -------------------------
(***************************************************************************)
(* What holds of the chat confirmation protocol for any number of turns,   *)
(* conversations, callers and entries, and any time to live.               *)
(***************************************************************************)
EXTENDS ChatConfirm, TLAPS

\* A hold in the store is a proposal its turn did record.
StoredHeld == \A k \in Keys : store[k] # NoTurn => held[store[k]] # NoHold

\* The store a turn replies over: what it was, or with one hold taken out.
StoreFrom(holds) ==
    /\ holds \in [Keys -> Turn \cup {NoTurn}]
    /\ \A k \in Keys : holds[k] # NoTurn => holds[k] = store[k]

\* Every way a turn ends with a reply.
Ends(t, holds) == Reply(t, holds) \/ \E kind \in Kinds : Ask(t, kind, holds)

\* The store, and the store without the hold a turn took, hold proposals of
\* turns and nothing else.
LEMMA StoreShapes ==
    ASSUME TypeOK, NEW t \in Turn
    PROVE  /\ KeyOf(t) \in Keys
           /\ Mine(t) \in Turn \cup {NoTurn}
           /\ Mine(t) # NoTurn => Mine(t) = store[KeyOf(t)]
           /\ StoreFrom(store)
           /\ StoreFrom(Taken(t))
BY DEF TypeOK, KeyOf, Keys, Requests, Mine, Taken, StoreFrom

\* A turn that ends keeps the store, the holds and the await points well typed,
\* and what is in the store has a hold.
LEMMA EndsShape ==
    ASSUME TypeOK, StoredHeld, NEW t \in Turn, NEW holds, StoreFrom(holds),
           Ends(t, holds)
    PROVE  /\ store' \in [Keys -> Turn \cup {NoTurn}]
           /\ held' \in [Turn -> Holds \cup {NoHold}]
           /\ pc' \in [Turn -> {"idle", "done"} \cup Waits]
           /\ StoredHeld'
<1>1. CASE Reply(t, holds)
  BY <1>1 DEF Reply, Goto, TypeOK, StoredHeld, StoreFrom
<1>2. CASE \E kind \in Kinds : Ask(t, kind, holds)
  <2>1. PICK kind \in Kinds : Ask(t, kind, holds)
    BY <1>2
  <2>2. now + TTL \in Nat
    BY ConstantsOK DEF TypeOK
  <2>3. /\ [kind |-> kind, expires |-> now + TTL] \in Holds
        /\ [kind |-> kind, expires |-> now + TTL] # NoHold
    BY <2>2, ConstantsOK DEF Holds, Kinds
  <2>4. /\ pc' \in [Turn -> {"idle", "done"} \cup Waits]
        /\ held' \in [Turn -> Holds \cup {NoHold}]
    BY <2>1, <2>3 DEF Ask, Goto, TypeOK
  <2>5. /\ KeyOf(t) \in Keys
        /\ store' = [holds EXCEPT ![KeyOf(t)] = t]
    BY <2>1, StoreShapes DEF Ask
  <2>6. held' = [held EXCEPT ![t] = [kind |-> kind, expires |-> now + TTL]]
    BY <2>1 DEF Ask
  <2>7. StoredHeld'
    BY <2>3, <2>5, <2>6 DEF TypeOK, StoredHeld, StoreFrom
  <2> QED BY <2>4, <2>5, <2>7 DEF StoreFrom
<1> QED BY <1>1, <1>2 DEF Ends

\* Running a proposal adds to its own count and to no other.
LEMMA RunShape ==
    ASSUME TypeOK, NEW h, NEW n \in 0..1, Run(h, n)
    PROVE  ran' \in [Turn -> Nat]
<1>1. \A x \in Turn : ran[x] \in Nat /\ ran[x] + n \in Nat
  BY DEF TypeOK
<1>2. ran' = [x \in Turn |-> IF x = h THEN ran[x] + n ELSE ran[x]]
  BY DEF TypeOK, Run
<1> QED BY <1>1, <1>2

\* Every step keeps the types (_async_handle_message and its environment).
LEMMA TypeStep ==
    ASSUME TypeOK, StoredHeld, [Next]_vars
    PROVE  TypeOK' /\ StoredHeld'
<1> USE DEF Waits, Kinds
<1>1. ASSUME NEW t \in Turn, Receive(t) PROVE TypeOK' /\ StoredHeld'
  BY <1>1 DEF Receive, Goto, TypeOK, StoredHeld
<1>2. ASSUME NEW t \in Turn, Confirm(t) PROVE TypeOK' /\ StoredHeld'
  <2>1. /\ Mine(t) \in Turn
        /\ held[Mine(t)] \in Holds
    BY <1>2, StoreShapes DEF Confirm, Confirms, StoredHeld, TypeOK
  <2>2. held[Mine(t)].kind \in Kinds
    BY <2>1 DEF Holds
  <2>3. now \in 0..NoTime
    BY ConstantsOK DEF TypeOK, NoTime
  <2> QED BY <1>2, <2>1, <2>2, <2>3, StoreShapes
          DEF Confirm, Goto, TypeOK, StoredHeld, StoreFrom
<1>3. ASSUME NEW t \in Turn, Deny(t) PROVE TypeOK' /\ StoredHeld'
  <2>1. Ends(t, Taken(t))
    BY <1>3 DEF Deny, Ends
  <2> QED BY <1>3, <2>1, StoreShapes, EndsShape DEF Deny, TypeOK
<1>4. ASSUME NEW t \in Turn, AskDelete(t) PROVE TypeOK' /\ StoredHeld'
  <2>1. Ends(t, Taken(t))
    BY <1>4 DEF AskDelete, Ends
  <2> QED BY <1>4, <2>1, StoreShapes, EndsShape DEF AskDelete, TypeOK
<1>5. ASSUME NEW t \in Turn, StartModify(t) PROVE TypeOK' /\ StoredHeld'
  <2>1. CASE Reply(t, Taken(t))
    <3>1. Ends(t, Taken(t))
      BY <2>1 DEF Ends
    <3> QED BY <1>5, <3>1, StoreShapes, EndsShape DEF StartModify, TypeOK
  <2>2. CASE store' = Taken(t) /\ Goto(t, "config") /\ UNCHANGED held
    BY <1>5, <2>2, StoreShapes
       DEF StartModify, Goto, TypeOK, StoredHeld, StoreFrom
  <2> QED BY <1>5, <2>1, <2>2 DEF StartModify
<1>6. ASSUME NEW t \in Turn, StartRead(t) PROVE TypeOK' /\ StoredHeld'
  BY <1>6, StoreShapes DEF StartRead, Goto, TypeOK, StoredHeld, StoreFrom
<1>7. ASSUME NEW t \in Turn, ConfigRead(t) PROVE TypeOK' /\ StoredHeld'
  <2>1. CASE Reply(t, store)
    <3>1. Ends(t, store)
      BY <2>1 DEF Ends
    <3> QED BY <1>7, <3>1, StoreShapes, EndsShape DEF ConfigRead, TypeOK
  <2>2. CASE Goto(t, "edit") /\ UNCHANGED <<store, held>>
    BY <1>7, <2>2 DEF ConfigRead, Goto, TypeOK, StoredHeld
  <2> QED BY <1>7, <2>1, <2>2 DEF ConfigRead
<1>8. ASSUME NEW t \in Turn, Edited(t) PROVE TypeOK' /\ StoredHeld'
  <2>1. Ends(t, store)
    BY <1>8 DEF Edited, Ends
  <2>2. note' \in [Turn -> {"none", "said", "unsaid"}]
    BY <1>8 DEF Edited, DropSilently, TypeOK
  <2> QED BY <1>8, <2>1, <2>2, StoreShapes, EndsShape DEF Edited, TypeOK
<1>9. ASSUME NEW t \in Turn, ReadAnswered(t) PROVE TypeOK' /\ StoredHeld'
  <2>1. note' \in [Turn -> {"none", "said", "unsaid"}]
    BY <1>9 DEF ReadAnswered, DropMemory, TypeOK
  <2>2. \/ Ends(t, store)
        \/ Goto(t, "auto") /\ UNCHANGED <<store, held>>
        \/ Goto(t, "may_edit") /\ UNCHANGED <<store, held>>
    BY <1>9 DEF ReadAnswered, Ends
  <2>3. CASE Ends(t, store)
    BY <1>9, <2>1, <2>3, StoreShapes, EndsShape DEF ReadAnswered, TypeOK
  <2>4. CASE /\ Goto(t, "auto") \/ Goto(t, "may_edit")
             /\ UNCHANGED <<store, held>>
    BY <1>9, <2>1, <2>4 DEF ReadAnswered, Goto, TypeOK, StoredHeld
  <2> QED BY <2>2, <2>3, <2>4
<1>10. ASSUME NEW t \in Turn, MemoryAsked(t) PROVE TypeOK' /\ StoredHeld'
  <2>1. Ends(t, store)
    BY <1>10 DEF MemoryAsked, Ends
  <2> QED BY <1>10, <2>1, StoreShapes, EndsShape DEF MemoryAsked, TypeOK
<1>11. ASSUME NEW t \in Turn, AutoAnswered(t) PROVE TypeOK' /\ StoredHeld'
  <2>1. Ends(t, store)
    BY <1>11 DEF AutoAnswered, AutoSaid, AutoRefused, Ends
  <2>2. PICK n \in 0..1 : Run(t, n)
    BY <1>11 DEF AutoAnswered, AutoSaid, AutoRefused
  <2>3. note' \in [Turn -> {"none", "said", "unsaid"}]
    BY <1>11 DEF AutoAnswered, AutoSaid, AutoRefused, SayDropped, TypeOK
  <2> QED BY <1>11, <2>1, <2>2, <2>3, StoreShapes, EndsShape, RunShape
          DEF AutoAnswered, TypeOK
<1>12. ASSUME NEW t \in Turn, ConfirmedAnswered(t) PROVE TypeOK' /\ StoredHeld'
  <2>1. Ends(t, store)
    BY <1>12 DEF ConfirmedAnswered, Ends
  <2>2. PICK n \in 0..1 : Run(pending[t], n)
    BY <1>12 DEF ConfirmedAnswered
  <2> QED BY <1>12, <2>1, <2>2, StoreShapes, EndsShape, RunShape
          DEF ConfirmedAnswered, TypeOK
<1>13. ASSUME NEW t \in Turn, Cancel(t) PROVE TypeOK' /\ StoredHeld'
  <2>1. Ends(t, store)
    BY <1>13 DEF Cancel, Ends
  <2>2. ran' \in [Turn -> Nat]
    BY <1>13, RunShape DEF Cancel, TypeOK
  <2> QED BY <1>13, <2>1, <2>2, StoreShapes, EndsShape DEF Cancel, TypeOK
<1>14. CASE Restart
  <2>1. store' = [k \in Keys |-> NoTurn]
    BY <1>14 DEF Restart
  <2>2. /\ pc' \in [Turn -> {"idle", "done"} \cup Waits]
        /\ ran' \in [Turn -> Nat]
        /\ note' \in [Turn -> {"none", "said", "unsaid"}]
    BY <1>14 DEF Restart, TypeOK
  <2> QED BY <1>14, <2>1, <2>2 DEF Restart, TypeOK, StoredHeld
<1>15. CASE Tick
  BY <1>15, ConstantsOK DEF Tick, TypeOK, StoredHeld
<1>16. CASE UNCHANGED vars
  BY <1>16 DEF vars, TypeOK, StoredHeld
<1> QED BY <1>1, <1>2, <1>3, <1>4, <1>5, <1>6, <1>7, <1>8, <1>9, <1>10, <1>11,
           <1>12, <1>13, <1>14, <1>15, <1>16 DEF Next, Handle

\* The empty hass.data the integration starts with is well typed.
LEMMA InitTypes == Init => TypeOK /\ StoredHeld
<1> SUFFICES ASSUME Init PROVE TypeOK /\ StoredHeld
  OBVIOUS
<1>1. Requests # {}
  <2>1. PICK c \in Conv, u \in Caller, e \in Entry, x \in Texts : TRUE
    BY ConstantsOK
  <2>2. [conv |-> c, caller |-> u, entry |-> e, text |-> x] \in Requests
    BY DEF Requests
  <2> QED BY <2>2
<1>2. (CHOOSE r \in Requests : TRUE) \in Requests
  BY <1>1
<1> QED BY <1>2, ConstantsOK DEF Init, TypeOK, StoredHeld, NoTime, Waits

\* The variables of the confirmation protocol keep their types in every
\* reachable state; in particular a hold in the store is one a turn has made.
THEOREM TypeCorrect == Spec => []TypeOK
<1>1. Init => TypeOK /\ StoredHeld
  BY InitTypes
<1>2. TypeOK /\ StoredHeld /\ [Next]_vars => TypeOK' /\ StoredHeld'
  BY TypeStep
<1> QED BY <1>1, <1>2, PTL DEF Spec

-----------------------------------------------------------------------------
(* The inductive invariant behind the safety properties. *)

\* A turn that has not answered has held nothing and run nothing, and has
\* looked for a hold only once it is past its first await.
UnansweredOK ==
    \A t \in Turn :
        /\ pc[t] # "done" => held[t] = NoHold /\ ran[t] = 0
        /\ pc[t] \in {"idle", "words"} => pending[t] = NoTurn

\* A hold in the store is under its own turn's key, and has not run.
StoredOK ==
    \A k \in Keys, h \in Turn :
        store[k] = h => pc[h] = "done" /\ KeyOf(h) = k /\ ran[h] = 0

\* A hold that a turn took was made for that turn's conversation, caller and
\* entry, by an earlier turn.
Belongs(t, h) ==
    /\ pc[h] = "done"
    /\ held[h] # NoHold
    /\ KeyOf(h) = KeyOf(t)
    /\ req[h].entry = req[t].entry
    /\ h # t
TakenOK == \A t, h \in Turn : pending[t] = h => Belongs(t, h)

\* A hold that some turn took, whether it said yes, no, something else, or was
\* too late, is not in the store, and no other turn took it.
AnsweredOnce ==
    \A t \in Turn :
        pending[t] # NoTurn =>
            /\ \A k \in Keys : store[k] # pending[t]
            /\ \A u \in Turn \ {t} : pending[u] # pending[t]

\* A turn that carries out a hold was told yes in time, and the hold has not
\* run yet.
ConfirmedBy(t, h) ==
    /\ pending[t] = h
    /\ req[t].text = "yes"
    /\ confirmedAt[t] <= held[h].expires
ActingOK ==
    \A t \in Turn :
        pc[t] \in Kinds =>
            \E h \in Turn : ConfirmedBy(t, h) /\ ran[h] = 0

\* What has run, ran once: either the turn that proposed it sent it without
\* asking, or it was held and a turn was told to run it.
RanOK ==
    \A h \in Turn :
        /\ ran[h] <= 1
        /\ ran[h] > 0 /\ held[h] # NoHold =>
             \E t \in Turn : ConfirmedBy(t, h)

IInv == UnansweredOK /\ StoredOK /\ TakenOK /\ AnsweredOnce /\ ActingOK /\ RanOK

\* The turn either keeps what it took, or takes the hold it may answer now.
Takes(t, holds) ==
    \/ pending' = pending /\ holds = store
    \/ /\ pc[t] = "words"
       /\ pending' = [pending EXCEPT ![t] = Mine(t)]
       /\ holds = Taken(t)

\* What a turn's step may run: only the proposal it had sent.
RunsOwn(t) ==
    \A h \in Turn :
        \/ ran'[h] = ran[h]
        \/ /\ pc[t] \in Sending
           /\ h = InFlight(t)
           /\ ran'[h] = ran[h] + 1

\* The invariant holds when no message has arrived.
LEMMA InitIInv == Init => IInv
<1> SUFFICES ASSUME Init PROVE IInv
  OBVIOUS
<1>1. UnansweredOK /\ ActingOK
  BY DEF Init, UnansweredOK, ActingOK, Kinds
<1>2. StoredOK /\ TakenOK /\ AnsweredOnce
  BY ConstantsOK DEF Init, StoredOK, TakenOK, AnsweredOnce
<1>3. RanOK
  BY DEF Init, RanOK
<1> QED BY <1>1, <1>2, <1>3 DEF IInv

\* A turn that looks for its hold finds one that is its own, that nobody else
\* has taken, and that has not run.
LEMMA MineShape ==
    ASSUME TypeOK, StoredHeld, IInv, NEW t \in Turn, pc[t] = "words",
           Mine(t) # NoTurn
    PROVE  /\ Mine(t) \in Turn
           /\ Belongs(t, Mine(t))
           /\ ran[Mine(t)] = 0
           /\ \A k \in Keys : Taken(t)[k] # Mine(t)
           /\ \A u \in Turn : pending[u] # Mine(t)
<1>1. /\ KeyOf(t) \in Keys
      /\ Mine(t) \in Turn
      /\ store[KeyOf(t)] = Mine(t)
      /\ req[Mine(t)].entry = req[t].entry
  BY StoreShapes DEF Mine
<1>2. /\ pc[Mine(t)] = "done"
      /\ KeyOf(Mine(t)) = KeyOf(t)
      /\ ran[Mine(t)] = 0
  BY <1>1 DEF IInv, StoredOK
<1>3. held[Mine(t)] # NoHold
  BY <1>1, ConstantsOK DEF StoredHeld
<1>4. \A k \in Keys : Taken(t)[k] # Mine(t)
  <2> SUFFICES ASSUME NEW k \in Keys, Taken(t)[k] = Mine(t) PROVE FALSE
    OBVIOUS
  <2>1. CASE k = KeyOf(t)
    BY <1>1, <2>1, ConstantsOK DEF Taken, TypeOK
  <2>2. CASE k # KeyOf(t)
    <3>1. store[k] = Mine(t)
      BY <1>1, <2>2 DEF Taken, TypeOK
    <3> QED BY <1>1, <1>2, <2>2, <3>1 DEF IInv, StoredOK
  <2> QED BY <2>1, <2>2
<1>5. \A u \in Turn : pending[u] # Mine(t)
  BY <1>1, ConstantsOK DEF IInv, AnsweredOnce
<1> QED BY <1>1, <1>2, <1>3, <1>4, <1>5 DEF Belongs

\* A turn that takes its hold leaves every other hold where it is.
LEMMA TakesShape ==
    ASSUME TypeOK, StoredHeld, IInv, NEW t \in Turn, NEW holds, Takes(t, holds)
    PROVE  /\ StoreFrom(holds)
           /\ pending' \in [Turn -> Turn \cup {NoTurn}]
           /\ \A u \in Turn : u # t \/ pc[t] # "words" => pending'[u] = pending[u]
           /\ \A u, h \in Turn :
                pending'[u] = h =>
                    /\ Belongs(u, h)
                    /\ \A k \in Keys : holds[k] # h
                    /\ \A v \in Turn \ {u} : pending'[v] # h
<1>1. CASE pending' = pending /\ holds = store
  BY <1>1, StoreShapes, ConstantsOK DEF TypeOK, IInv, TakenOK, AnsweredOnce
<1>2. CASE /\ pc[t] = "words"
           /\ pending' = [pending EXCEPT ![t] = Mine(t)]
           /\ holds = Taken(t)
  <2>1. /\ pending' \in [Turn -> Turn \cup {NoTurn}]
        /\ pending'[t] = Mine(t)
        /\ \A u \in Turn \ {t} : pending'[u] = pending[u]
    BY <1>2, StoreShapes DEF TypeOK
  <2>2. pending[t] = NoTurn
    BY <1>2 DEF IInv, UnansweredOK
  <2>3. ASSUME NEW u \in Turn, NEW h \in Turn, pending'[u] = h
        PROVE  /\ Belongs(u, h)
               /\ \A k \in Keys : holds[k] # h
               /\ \A v \in Turn \ {u} : pending'[v] # h
    <3>1. CASE u = t
      BY <1>2, <2>1, <2>3, <3>1, MineShape, ConstantsOK
    <3>2. CASE u # t
      <4>1. /\ pending[u] = h
            /\ Belongs(u, h)
            /\ \A k \in Keys : store[k] # h
            /\ \A v \in Turn \ {u} : pending[v] # h
        BY <2>1, <2>3, <3>2, ConstantsOK DEF IInv, TakenOK, AnsweredOnce
      <4>2. Mine(t) # h
        BY <4>1, StoreShapes, ConstantsOK
      <4>3. \A k \in Keys : holds[k] # h
        BY <1>2, <4>1, StoreShapes, ConstantsOK DEF StoreFrom
      <4> QED BY <2>1, <4>1, <4>2, <4>3
    <3> QED BY <3>1, <3>2
  <2> QED BY <1>2, <2>1, <2>3, StoreShapes
<1> QED BY <1>1, <1>2 DEF Takes

\* A turn that waits for a write or a commit has sent the proposal in flight,
\* its own or the one it took, and nobody else has.
LEMMA SendingShape ==
    ASSUME TypeOK, IInv, NEW t \in Turn, pc[t] \in Sending
    PROVE  /\ InFlight(t) \in Turn
           /\ ran[InFlight(t)] = 0
           /\ pc[t] = "auto" => InFlight(t) = t /\ held[t] = NoHold
           /\ pc[t] # "auto" => /\ ConfirmedBy(t, InFlight(t))
                                /\ pc[InFlight(t)] = "done"
           /\ \A k \in Keys : store[k] # InFlight(t)
           /\ \A u \in Turn \ {t} : /\ pc[u] \in Sending
                                    => InFlight(u) # InFlight(t)
<1>1. ASSUME NEW u \in Turn, pc[u] = "auto"
      PROVE  /\ InFlight(u) = u
             /\ held[u] = NoHold
             /\ ran[u] = 0
             /\ \A k \in Keys : store[k] # u
             /\ \A v \in Turn : pending[v] # u
  BY <1>1 DEF IInv, UnansweredOK, StoredOK, TakenOK, Belongs, InFlight
<1>2. ASSUME NEW u \in Turn, pc[u] \in Kinds
      PROVE  /\ InFlight(u) = pending[u]
             /\ pending[u] \in Turn
             /\ ConfirmedBy(u, pending[u])
             /\ ran[pending[u]] = 0
             /\ pc[pending[u]] = "done"
             /\ \A k \in Keys : store[k] # pending[u]
             /\ \A v \in Turn \ {u} : pending[v] # pending[u]
  <2>1. PICK h \in Turn : ConfirmedBy(u, h) /\ ran[h] = 0
    BY <1>2 DEF IInv, ActingOK
  <2>2. pending[u] = h
    BY <2>1 DEF ConfirmedBy
  <2> QED BY <1>2, <2>1, <2>2, ConstantsOK
          DEF IInv, TakenOK, Belongs, AnsweredOnce, InFlight, Kinds
<1>3. ASSUME NEW u \in Turn \ {t}, pc[u] \in Sending
      PROVE  InFlight(u) # InFlight(t)
  BY <1>1, <1>2, <1>3 DEF Sending
<1> QED BY <1>1, <1>2, <1>3 DEF Sending, Kinds

\* A turn that goes on to another await of its own, none of them a confirmed
\* action.
LEMMA MoveKeeps ==
    ASSUME TypeOK, StoredHeld, IInv, NEW t \in Turn, pc[t] \notin {"idle", "done"},
           NEW where \in {"read", "config", "edit", "may_edit", "auto"},
           pc' = [pc EXCEPT ![t] = where],
           Takes(t, store'),
           UNCHANGED <<req, held, confirmedAt, ran>>
    PROVE  IInv'
<1> USE DEF Kinds
<1>1. UnansweredOK'
  BY TakesShape DEF TypeOK, IInv, UnansweredOK
<1>2. StoredOK'
  <2> SUFFICES ASSUME NEW k \in Keys, NEW h \in Turn, store'[k] = h
               PROVE  pc'[h] = "done" /\ KeyOf(h)' = k /\ ran'[h] = 0
    BY DEF StoredOK
  <2>1. store[k] = h
    BY TakesShape, ConstantsOK DEF StoreFrom
  <2>2. pc[h] = "done" /\ KeyOf(h) = k /\ ran[h] = 0
    BY <2>1 DEF IInv, StoredOK
  <2> QED BY <2>2 DEF KeyOf, TypeOK
<1>3. TakenOK' /\ AnsweredOnce'
  BY TakesShape DEF TypeOK, IInv, TakenOK, AnsweredOnce, Belongs, KeyOf
<1>4. ActingOK'
  BY TakesShape DEF TypeOK, IInv, ActingOK, ConfirmedBy
<1>5. RanOK'
  <2> SUFFICES ASSUME NEW h \in Turn
               PROVE  /\ ran[h] <= 1
                      /\ ran[h] > 0 /\ held[h] # NoHold =>
                           \E u \in Turn : ConfirmedBy(u, h)'
    BY DEF RanOK
  <2>1. ASSUME NEW u \in Turn, ConfirmedBy(u, h) PROVE ConfirmedBy(u, h)'
    <3>1. pending'[u] = pending[u]
      BY <2>1, TakesShape, ConstantsOK DEF ConfirmedBy, IInv, UnansweredOK
    <3> QED BY <2>1, <3>1 DEF ConfirmedBy
  <2> QED BY <2>1 DEF IInv, RanOK
<1> QED BY <1>1, <1>2, <1>3, <1>4, <1>5 DEF IInv

\* A turn that ends with a reply, whether or not the reply is a question, and
\* whatever became of what it had sent.
LEMMA EndKeeps ==
    ASSUME TypeOK, StoredHeld, IInv, NEW t \in Turn, pc[t] \in Waits,
           NEW holds, Ends(t, holds), Takes(t, holds),
           UNCHANGED <<req, confirmedAt, now>>,
           ran' \in [Turn -> Nat], RunsOwn(t),
           pc[t] = "auto" /\ ran'[t] > 0 => Reply(t, holds)
    PROVE  IInv'
<1> USE DEF Kinds
<1>1. /\ pc' = [pc EXCEPT ![t] = "done"]
      /\ pc[t] \notin {"idle", "done"}
      /\ \A h \in Turn \ {t} : held'[h] = held[h]
      /\ \A k \in Keys, h \in Turn :
           store'[k] = h => holds[k] = h \/ (h = t /\ k = KeyOf(t) /\ ~Reply(t, holds))
  <2>1. pc[t] \notin {"idle", "done"}
    BY DEF Waits
  <2>2. CASE Reply(t, holds)
    BY <2>1, <2>2 DEF Reply, Goto
  <2>3. CASE ~Reply(t, holds)
    <3>1. PICK kind \in Kinds : Ask(t, kind, holds)
      BY <2>3 DEF Ends
    <3>2. /\ pc' = [pc EXCEPT ![t] = "done"]
          /\ \A h \in Turn \ {t} : held'[h] = held[h]
      BY <3>1 DEF Ask, Goto, TypeOK
    <3>3. holds \in [Keys -> Turn \cup {NoTurn}]
      BY TakesShape DEF StoreFrom
    <3>4. store' = [holds EXCEPT ![KeyOf(t)] = t]
      BY <3>1 DEF Ask
    <3>5. \A k \in Keys, h \in Turn :
            store'[k] = h => holds[k] = h \/ (h = t /\ k = KeyOf(t))
      BY <3>3, <3>4
    <3> QED BY <2>1, <2>3, <3>2, <3>5
  <2> QED BY <2>2, <2>3
<1>2. held[t] = NoHold /\ ran[t] = 0
  BY <1>1 DEF IInv, UnansweredOK
<1>3. ASSUME NEW h \in Turn, ran'[h] # ran[h]
      PROVE  /\ pc[t] \in Sending
             /\ h = InFlight(t)
             /\ ran[h] = 0
             /\ ran'[h] = 1
  BY <1>3, SendingShape DEF RunsOwn, TypeOK
<1>4. ran'[t] > 0 => Reply(t, holds) /\ held'[t] = NoHold
  <2> SUFFICES ASSUME ran'[t] > 0 PROVE Reply(t, holds) /\ held'[t] = NoHold
    OBVIOUS
  <2>1. pc[t] \in Sending /\ InFlight(t) = t
    BY <1>2, <1>3
  <2>2. pc[t] = "auto"
    BY <1>1, <2>1, SendingShape
  <2> QED BY <1>2, <2>2 DEF Reply
<1>5. UnansweredOK'
  <2> SUFFICES ASSUME NEW u \in Turn, u # t
               PROVE  /\ pc[u] # "done" => held'[u] = NoHold /\ ran'[u] = 0
                      /\ pc[u] \in {"idle", "words"} => pending'[u] = NoTurn
    BY <1>1 DEF UnansweredOK, TypeOK
  <2>1. pc[u] # "done" => ran'[u] = ran[u]
    BY <1>3, SendingShape
  <2> QED BY <1>1, <2>1, TakesShape DEF IInv, UnansweredOK
<1>6. StoredOK'
  <2> SUFFICES ASSUME NEW k \in Keys, NEW h \in Turn, store'[k] = h
               PROVE  pc'[h] = "done" /\ KeyOf(h)' = k /\ ran'[h] = 0
    BY DEF StoredOK
  <2>1. CASE holds[k] = h
    <3>1. store[k] = h
      BY <2>1, TakesShape, ConstantsOK DEF StoreFrom
    <3>2. pc[h] = "done" /\ KeyOf(h) = k /\ ran[h] = 0
      BY <3>1 DEF IInv, StoredOK
    <3>3. ran'[h] = ran[h]
      BY <1>3, <3>1, SendingShape
    <3> QED BY <1>1, <3>2, <3>3 DEF KeyOf, TypeOK
  <2>2. CASE h = t /\ k = KeyOf(t) /\ ~Reply(t, holds)
    <3>1. ran'[h] = 0
      BY <1>4, <2>2
    <3> QED BY <1>1, <2>2, <3>1 DEF KeyOf, TypeOK
  <2> QED BY <1>1, <2>1, <2>2
<1>7. TakenOK' /\ AnsweredOnce'
  <2>1. ASSUME NEW u \in Turn, NEW h \in Turn, pending'[u] = h
        PROVE  /\ Belongs(u, h)'
               /\ \A k \in Keys : store'[k] # h
               /\ \A v \in Turn \ {u} : pending'[v] # h
    <3>1. /\ Belongs(u, h)
          /\ \A k \in Keys : holds[k] # h
          /\ \A v \in Turn \ {u} : pending'[v] # h
      BY <2>1, TakesShape
    <3>2. h # t
      BY <1>1, <3>1 DEF Belongs
    <3> QED BY <1>1, <3>1, <3>2 DEF Belongs, KeyOf, TypeOK
  <2> QED BY <2>1, TakesShape DEF TakenOK, AnsweredOnce
<1>8. ASSUME NEW u \in Turn, NEW h \in Turn, ConfirmedBy(u, h)
      PROVE  ConfirmedBy(u, h)' /\ h # t
  <2>1. pending[u] = h /\ pending'[u] = h
    BY <1>8, TakesShape, ConstantsOK DEF ConfirmedBy, IInv, UnansweredOK
  <2>2. h # t
    BY <1>1, <2>1 DEF IInv, TakenOK, Belongs
  <2> QED BY <1>1, <1>8, <2>1, <2>2 DEF ConfirmedBy
<1>9. ActingOK'
  <2> SUFFICES ASSUME NEW u \in Turn, pc'[u] \in Kinds
               PROVE  \E h \in Turn : ConfirmedBy(u, h)' /\ ran'[h] = 0
    BY DEF ActingOK
  <2>1. u # t /\ pc[u] \in Kinds
    BY <1>1 DEF TypeOK
  <2>2. PICK h \in Turn : ConfirmedBy(u, h) /\ ran[h] = 0
    BY <2>1 DEF IInv, ActingOK
  <2>3. InFlight(u) = h
    BY <2>1, <2>2 DEF InFlight, ConfirmedBy
  <2>4. ran'[h] = 0
    BY <1>3, <2>1, <2>2, <2>3, SendingShape DEF Sending
  <2> QED BY <1>8, <2>2, <2>4
<1>10. RanOK'
  <2> SUFFICES ASSUME NEW h \in Turn
               PROVE  /\ ran'[h] <= 1
                      /\ ran'[h] > 0 /\ held'[h] # NoHold =>
                           \E u \in Turn : ConfirmedBy(u, h)'
    BY DEF RanOK
  <2>1. ran'[h] <= 1
    BY <1>3 DEF IInv, RanOK
  <2>2. ASSUME ran'[h] > 0, held'[h] # NoHold
        PROVE  \E u \in Turn : ConfirmedBy(u, h)'
    <3>1. h # t /\ held[h] # NoHold
      BY <1>1, <1>4, <2>2
    <3>2. CASE ran'[h] = ran[h]
      BY <1>8, <2>2, <3>1, <3>2 DEF IInv, RanOK
    <3>3. CASE ran'[h] # ran[h]
      <4>1. pc[t] # "auto" /\ ConfirmedBy(t, h)
        BY <1>3, <3>1, <3>3, SendingShape
      <4> QED BY <1>8, <4>1
    <3> QED BY <3>2, <3>3
  <2> QED BY <2>1, <2>2
<1> QED BY <1>5, <1>6, <1>7, <1>9, <1>10 DEF IInv

\* A message that arrives changes nothing the invariant speaks of.
LEMMA ReceiveKeeps ==
    ASSUME TypeOK, IInv, NEW t \in Turn, Receive(t)
    PROVE  IInv'
<1> USE DEF Kinds
<1>1. /\ pc[t] = "idle"
      /\ pc' = [pc EXCEPT ![t] = "words"]
      /\ \A u \in Turn \ {t} : req'[u] = req[u]
      /\ UNCHANGED <<store, held, pending, confirmedAt, ran, now>>
  BY DEF Receive, Goto, TypeOK
<1>2. /\ pending[t] = NoTurn
      /\ \A k \in Keys : store[k] # t
      /\ \A u \in Turn : pending[u] # t
  BY <1>1 DEF IInv, UnansweredOK, StoredOK, TakenOK, Belongs
<1>3. UnansweredOK'
  BY <1>1 DEF IInv, UnansweredOK, TypeOK
<1>4. StoredOK'
  <2> SUFFICES ASSUME NEW k \in Keys, NEW h \in Turn, store[k] = h
               PROVE  pc'[h] = "done" /\ KeyOf(h)' = k /\ ran[h] = 0
    BY <1>1 DEF StoredOK
  <2>1. h # t /\ pc[h] = "done" /\ KeyOf(h) = k /\ ran[h] = 0
    BY <1>2 DEF IInv, StoredOK
  <2> QED BY <1>1, <2>1 DEF KeyOf, TypeOK
<1>5. TakenOK'
  <2> SUFFICES ASSUME NEW u \in Turn, NEW h \in Turn, pending[u] = h
               PROVE  Belongs(u, h)'
    BY <1>1 DEF TakenOK
  <2>1. u # t /\ h # t /\ Belongs(u, h)
    BY <1>2, ConstantsOK DEF IInv, TakenOK
  <2> QED BY <1>1, <2>1 DEF Belongs, KeyOf, TypeOK
<1>6. AnsweredOnce'
  BY <1>1 DEF IInv, AnsweredOnce
<1>7. ASSUME NEW u \in Turn, NEW h \in Turn, ConfirmedBy(u, h)
      PROVE  ConfirmedBy(u, h)'
  BY <1>1, <1>2, <1>7, ConstantsOK DEF ConfirmedBy
<1>8. ActingOK'
  BY <1>1, <1>7 DEF IInv, ActingOK, TypeOK
<1>9. RanOK'
  BY <1>1, <1>7 DEF IInv, RanOK
<1> QED BY <1>3, <1>4, <1>5, <1>6, <1>8, <1>9 DEF IInv

\* A yes takes the hold and sends its proposal: it is the first to do so.
LEMMA ConfirmKeeps ==
    ASSUME TypeOK, StoredHeld, IInv, NEW t \in Turn, Confirm(t)
    PROVE  IInv'
<1> USE DEF Kinds
<1>1. /\ pc[t] = "words"
      /\ req[t].text = "yes"
      /\ Mine(t) \in Turn
      /\ held[Mine(t)] \in Holds
      /\ pc' = [pc EXCEPT ![t] = held[Mine(t)].kind]
      /\ held[Mine(t)].kind \in Kinds
      /\ held[Mine(t)].expires >= now
      /\ UNCHANGED <<req, held, ran, now>>
  BY StoreShapes DEF Confirm, Confirms, InTime, Goto, TypeOK, StoredHeld, Holds
<1>2. Takes(t, store')
  BY DEF Confirm, Takes
<1>3. /\ \A u \in Turn \ {t} : confirmedAt'[u] = confirmedAt[u]
      /\ confirmedAt'[t] = now
      /\ pending'[t] = Mine(t)
  BY DEF Confirm, TypeOK
<1>4. UnansweredOK'
  BY <1>1, <1>2, TakesShape DEF TypeOK, IInv, UnansweredOK
<1>5. StoredOK'
  <2> SUFFICES ASSUME NEW k \in Keys, NEW h \in Turn, store'[k] = h
               PROVE  pc'[h] = "done" /\ KeyOf(h)' = k /\ ran'[h] = 0
    BY DEF StoredOK
  <2>1. store[k] = h
    BY <1>2, TakesShape, ConstantsOK DEF StoreFrom
  <2>2. pc[h] = "done" /\ KeyOf(h) = k /\ ran[h] = 0
    BY <2>1 DEF IInv, StoredOK
  <2> QED BY <1>1, <2>2 DEF KeyOf, TypeOK
<1>6. TakenOK' /\ AnsweredOnce'
  <2>1. ASSUME NEW u \in Turn, NEW h \in Turn, pending'[u] = h
        PROVE  Belongs(u, h)'
    <3>1. Belongs(u, h) /\ h # t
      BY <1>1, <1>2, <2>1, TakesShape DEF Belongs
    <3> QED BY <1>1, <3>1 DEF Belongs, KeyOf, TypeOK
  <2> QED BY <1>2, <2>1, TakesShape DEF TakenOK, AnsweredOnce
<1>7. ASSUME NEW u \in Turn, NEW h \in Turn, ConfirmedBy(u, h)
      PROVE  ConfirmedBy(u, h)'
  <2>1. u # t
    BY <1>1, <1>7, ConstantsOK DEF ConfirmedBy, IInv, UnansweredOK
  <2> QED BY <1>1, <1>2, <1>3, <1>7, <2>1, TakesShape DEF ConfirmedBy
<1>8. PICK h \in Turn : h = Mine(t)
  BY <1>1
<1>9. ran[h] = 0
  BY <1>1, <1>8, MineShape, ConstantsOK
<1>10. ConfirmedBy(t, h)'
  <2>1. held[h].expires \in Nat /\ now \in Nat
    BY <1>1, <1>8, ConstantsOK DEF Holds, TypeOK
  <2> QED BY <1>1, <1>3, <1>8, <2>1 DEF ConfirmedBy
<1>11. ActingOK'
  <2> SUFFICES ASSUME NEW u \in Turn, pc'[u] \in Kinds
               PROVE  \E x \in Turn : ConfirmedBy(u, x)' /\ ran'[x] = 0
    BY DEF ActingOK
  <2>1. CASE u = t
    BY <1>1, <1>9, <1>10, <2>1
  <2>2. CASE u # t
    <3>1. pc[u] \in Kinds
      BY <1>1, <2>2 DEF TypeOK
    <3> QED BY <1>1, <1>7, <3>1 DEF IInv, ActingOK
  <2> QED BY <2>1, <2>2
<1>12. RanOK'
  <2> SUFFICES ASSUME NEW x \in Turn
               PROVE  /\ ran[x] <= 1
                      /\ ran[x] > 0 /\ held[x] # NoHold =>
                           \E u \in Turn : ConfirmedBy(u, x)'
    BY <1>1 DEF RanOK
  <2> QED BY <1>7 DEF IInv, RanOK
<1> QED BY <1>4, <1>5, <1>6, <1>11, <1>12 DEF IInv

\* After a restart there is no hold, and what had been sent ran once at most.
LEMMA RestartKeeps ==
    ASSUME TypeOK, IInv, Restart
    PROVE  IInv'
<1> USE DEF Kinds
<1>1. PICK sent \in SUBSET {t \in Turn : pc[t] \in Sending} :
        ran' = [h \in Turn |->
                  IF \E t \in sent : InFlight(t) = h THEN ran[h] + 1 ELSE ran[h]]
  BY DEF Restart
<1>2. /\ pc' = [t \in Turn |-> IF pc[t] = "idle" THEN "idle" ELSE "done"]
      /\ store' = [k \in Keys |-> NoTurn]
      /\ UNCHANGED <<req, held, pending, confirmedAt, now>>
  BY DEF Restart
<1>3. ASSUME NEW h \in Turn, ran'[h] # ran[h]
      PROVE  /\ ran[h] = 0
             /\ ran'[h] = 1
             /\ pc[h] # "idle"
             /\ held[h] # NoHold => \E t \in Turn : ConfirmedBy(t, h)
  <2>1. PICK t \in sent : InFlight(t) = h
    BY <1>1, <1>3
  <2>2. t \in Turn /\ pc[t] \in Sending
    BY <2>1
  <2>3. ran[h] = 0 /\ ran'[h] = 1
    BY <1>1, <2>1, <2>2, SendingShape
  <2> QED BY <2>1, <2>2, <2>3, SendingShape
<1>4. UnansweredOK'
  BY <1>2, <1>3 DEF IInv, UnansweredOK
<1>5. StoredOK'
  BY <1>2, ConstantsOK DEF StoredOK
<1>6. TakenOK'
  BY <1>2 DEF IInv, TakenOK, Belongs, KeyOf
<1>7. AnsweredOnce'
  BY <1>2 DEF IInv, AnsweredOnce
<1>8. ActingOK'
  BY <1>2 DEF ActingOK
<1>9. RanOK'
  <2> SUFFICES ASSUME NEW h \in Turn
               PROVE  /\ ran'[h] <= 1
                      /\ ran'[h] > 0 /\ held[h] # NoHold =>
                           \E t \in Turn : ConfirmedBy(t, h)
    BY <1>2 DEF RanOK, ConfirmedBy
  <2>1. CASE ran'[h] = ran[h]
    BY <2>1 DEF IInv, RanOK
  <2>2. CASE ran'[h] # ran[h]
    BY <1>3, <2>2
  <2> QED BY <2>1, <2>2
<1> QED BY <1>4, <1>5, <1>6, <1>7, <1>8, <1>9 DEF IInv

\* A step that changes nothing keeps the invariant.
LEMMA StutterKeeps ==
    ASSUME IInv, UNCHANGED <<pc, req, store, held, pending, confirmedAt, ran>>
    PROVE  IInv'
BY DEF IInv, UnansweredOK, StoredOK, TakenOK, Belongs, AnsweredOnce, ActingOK,
       ConfirmedBy, RanOK, KeyOf

-----------------------------------------------------------------------------
(* The step and the theorems.  They assume what the code assumes of the app: *)
(* an "internal" error does not follow a write that ran.                     *)

\* Steps of a turn that send and run nothing.
LEMMA NothingRuns ==
    ASSUME TypeOK, NEW t \in Turn, UNCHANGED ran, pc[t] # "auto"
    PROVE  /\ RunsOwn(t)
           /\ ran' \in [Turn -> Nat]
           /\ \A holds : pc[t] = "auto" /\ ran'[t] > 0 => Reply(t, holds)
BY DEF RunsOwn, TypeOK

\* Steps that run at most the proposal the turn had sent.
LEMMA OwnRuns ==
    ASSUME TypeOK, NEW t \in Turn, pc[t] \in Sending,
           NEW n \in 0..1, Run(InFlight(t), n)
    PROVE  RunsOwn(t) /\ ran' \in [Turn -> Nat]
<1>1. ran' = [h \in Turn |-> IF h = InFlight(t) THEN ran[h] + n ELSE ran[h]]
  BY DEF Run, TypeOK
<1>2. \A h \in Turn : ran[h] \in Nat
  BY DEF TypeOK
<1> QED BY <1>1, <1>2, RunShape DEF RunsOwn

\* Every step keeps the invariant.
LEMMA IInvStep ==
    ASSUME InternalMayRun = FALSE, TypeOK, StoredHeld, IInv, [Next]_vars
    PROVE  IInv'
<1>1. ASSUME NEW t \in Turn, Receive(t) PROVE IInv'
  BY <1>1, ReceiveKeeps
<1>2. ASSUME NEW t \in Turn, Confirm(t) PROVE IInv'
  BY <1>2, ConfirmKeeps
<1>3. ASSUME NEW t \in Turn, Deny(t) PROVE IInv'
  <2>1. Ends(t, Taken(t)) /\ Takes(t, Taken(t)) /\ pc[t] = "words"
    BY <1>3 DEF Deny, Ends, Takes
  <2> QED BY <1>3, <2>1, NothingRuns, EndKeeps DEF Deny, Waits
<1>4. ASSUME NEW t \in Turn, AskDelete(t) PROVE IInv'
  <2>1. Ends(t, Taken(t)) /\ Takes(t, Taken(t)) /\ pc[t] = "words"
    BY <1>4 DEF AskDelete, Ends, Takes, Kinds
  <2> QED BY <1>4, <2>1, NothingRuns, EndKeeps DEF AskDelete, Waits
<1>5. ASSUME NEW t \in Turn, StartModify(t) PROVE IInv'
  <2>1. pc[t] = "words" /\ Takes(t, Taken(t))
    BY <1>5 DEF StartModify, Takes
  <2>2. CASE Reply(t, Taken(t))
    BY <1>5, <2>1, <2>2, NothingRuns, EndKeeps DEF StartModify, Waits, Ends
  <2>3. CASE store' = Taken(t) /\ Goto(t, "config") /\ UNCHANGED held
    BY <1>5, <2>1, <2>3, MoveKeeps DEF StartModify, Goto
  <2> QED BY <1>5, <2>2, <2>3 DEF StartModify
<1>6. ASSUME NEW t \in Turn, StartRead(t) PROVE IInv'
  <2>1. pc[t] = "words" /\ Takes(t, store')
    BY <1>6 DEF StartRead, Takes
  <2> QED BY <1>6, <2>1, MoveKeeps DEF StartRead, Goto
<1>7. ASSUME NEW t \in Turn, ConfigRead(t) PROVE IInv'
  <2>1. pc[t] = "config" /\ Takes(t, store)
    BY <1>7 DEF ConfigRead, Takes
  <2>2. CASE Reply(t, store)
    BY <1>7, <2>1, <2>2, NothingRuns, EndKeeps DEF ConfigRead, Waits, Ends
  <2>3. CASE Goto(t, "edit") /\ UNCHANGED <<store, held>>
    BY <1>7, <2>1, <2>3, MoveKeeps DEF ConfigRead, Goto
  <2> QED BY <1>7, <2>2, <2>3 DEF ConfigRead
<1>8. ASSUME NEW t \in Turn, Edited(t) PROVE IInv'
  <2>1. pc[t] = "edit" /\ Takes(t, store) /\ Ends(t, store)
    BY <1>8 DEF Edited, Takes, Ends, Kinds
  <2> QED BY <1>8, <2>1, NothingRuns, EndKeeps DEF Edited, Waits
<1>9. ASSUME NEW t \in Turn, ReadAnswered(t) PROVE IInv'
  <2>1. pc[t] = "read" /\ Takes(t, store)
    BY <1>9 DEF ReadAnswered, Takes
  <2>2. \/ Ends(t, store)
        \/ Goto(t, "auto") /\ UNCHANGED <<store, held>>
        \/ Goto(t, "may_edit") /\ UNCHANGED <<store, held>>
    BY <1>9 DEF ReadAnswered, Ends, Kinds
  <2>3. CASE Ends(t, store)
    BY <1>9, <2>1, <2>3, NothingRuns, EndKeeps DEF ReadAnswered, Waits
  <2>4. CASE Goto(t, "auto") /\ UNCHANGED <<store, held>>
    BY <1>9, <2>1, <2>4, MoveKeeps DEF ReadAnswered, Goto
  <2>5. CASE Goto(t, "may_edit") /\ UNCHANGED <<store, held>>
    BY <1>9, <2>1, <2>5, MoveKeeps DEF ReadAnswered, Goto
  <2> QED BY <2>2, <2>3, <2>4, <2>5
<1>10. ASSUME NEW t \in Turn, MemoryAsked(t) PROVE IInv'
  <2>1. pc[t] = "may_edit" /\ Takes(t, store) /\ Ends(t, store)
    BY <1>10 DEF MemoryAsked, Takes, Ends, Kinds
  <2> QED BY <1>10, <2>1, NothingRuns, EndKeeps DEF MemoryAsked, Waits
<1>11. ASSUME NEW t \in Turn, AutoAnswered(t) PROVE IInv'
  <2>1. /\ pc[t] = "auto" /\ pc[t] \in Sending /\ pc[t] \in Waits
        /\ InFlight(t) = t
        /\ Takes(t, store)
        /\ Ends(t, store)
    BY <1>11 DEF AutoAnswered, AutoSaid, AutoRefused, InFlight, Takes, Ends,
                 Sending, Waits, Kinds
  <2>2. RunsOwn(t) /\ ran' \in [Turn -> Nat]
    <3>1. PICK n \in 0..1 : Run(t, n)
      BY <1>11 DEF AutoAnswered, AutoSaid, AutoRefused
    <3> QED BY <2>1, <3>1, OwnRuns
  <2>3. ran'[t] > 0 => Reply(t, store)
    <3>1. CASE AutoSaid(t)
      BY <3>1 DEF AutoSaid
    <3>2. CASE AutoRefused(t)
      <4>1. Run(t, 0)
        BY <3>2 DEF AutoRefused
      <4>2. ran[t] = 0
        BY <2>1 DEF IInv, UnansweredOK
      <4>3. ran'[t] = 0
        BY <4>1, <4>2 DEF Run, TypeOK
      <4> QED BY <4>3
    <3> QED BY <1>11, <3>1, <3>2 DEF AutoAnswered
  <2> QED BY <1>11, <2>1, <2>2, <2>3, EndKeeps DEF AutoAnswered
<1>12. ASSUME NEW t \in Turn, ConfirmedAnswered(t) PROVE IInv'
  <2>1. /\ pc[t] # "auto" /\ pc[t] \in Sending /\ pc[t] \in Waits
        /\ InFlight(t) = pending[t]
        /\ Takes(t, store)
        /\ Ends(t, store)
    BY <1>12 DEF ConfirmedAnswered, InFlight, Takes, Ends, Sending, Waits, Kinds
  <2>2. RunsOwn(t) /\ ran' \in [Turn -> Nat]
    <3>1. PICK n \in 0..1 : Run(pending[t], n)
      BY <1>12 DEF ConfirmedAnswered
    <3> QED BY <2>1, <3>1, OwnRuns
  <2> QED BY <1>12, <2>1, <2>2, EndKeeps DEF ConfirmedAnswered
<1>13. ASSUME NEW t \in Turn, Cancel(t) PROVE IInv'
  <2>1. pc[t] \in Waits /\ Takes(t, store) /\ Ends(t, store) /\ Reply(t, store)
    BY <1>13 DEF Cancel, Takes, Ends
  <2>2. RunsOwn(t) /\ ran' \in [Turn -> Nat]
    <3>1. CASE pc[t] \in Sending
      BY <1>13, <3>1, OwnRuns DEF Cancel
    <3>2. CASE pc[t] \notin Sending
      BY <1>13, <3>2 DEF Cancel, RunsOwn, TypeOK
    <3> QED BY <3>1, <3>2
  <2> QED BY <1>13, <2>1, <2>2, EndKeeps DEF Cancel
<1>14. CASE Restart
  BY <1>14, RestartKeeps
<1>15. CASE Tick
  BY <1>15, StutterKeeps DEF Tick
<1>16. CASE UNCHANGED vars
  BY <1>16, StutterKeeps DEF vars
<1> QED BY <1>1, <1>2, <1>3, <1>4, <1>5, <1>6, <1>7, <1>8, <1>9, <1>10, <1>11,
           <1>12, <1>13, <1>14, <1>15, <1>16 DEF Next, Handle

\* The invariant holds in every reachable state.
LEMMA IInvAlways ==
    ASSUME InternalMayRun = FALSE
    PROVE  Spec => [](TypeOK /\ StoredHeld /\ IInv)
<1>1. Init => TypeOK /\ StoredHeld /\ IInv
  BY InitTypes, InitIInv
<1>2. TypeOK /\ StoredHeld /\ IInv /\ [Next]_vars
        => (TypeOK /\ StoredHeld /\ IInv)'
  BY TypeStep, IInvStep
<1> QED BY <1>1, <1>2, PTL DEF Spec

\* No proposal runs twice, however many turns say yes to it and whatever
\* becomes of the answers, if the app's "internal" errors do not follow a
\* write that ran.
THEOREM RunsAtMostOnce ==
    ASSUME InternalMayRun = FALSE
    PROVE  Spec => []AtMostOnce
<1>1. IInv => AtMostOnce
  BY DEF IInv, RanOK, AtMostOnce
<1> QED BY <1>1, IInvAlways, PTL

\* What was held runs only for a turn of the same conversation, caller and
\* entry that said yes while the hold was good.
THEOREM RunsOnlyWhenConfirmed ==
    ASSUME InternalMayRun = FALSE
    PROVE  Spec => []OnlyAConfirmedHoldRuns
<1>1. TypeOK /\ IInv => OnlyAConfirmedHoldRuns
  <2> SUFFICES ASSUME TypeOK, IInv, NEW h \in Turn, ran[h] > 0, held[h] # NoHold
               PROVE  \E t \in Turn \ {h} :
                        /\ pending[t] = h
                        /\ req[t].text = "yes"
                        /\ req[t].conv = req[h].conv
                        /\ req[t].caller = req[h].caller
                        /\ req[t].entry = req[h].entry
                        /\ confirmedAt[t] <= held[h].expires
    BY DEF OnlyAConfirmedHoldRuns
  <2>1. PICK t \in Turn : ConfirmedBy(t, h)
    BY DEF IInv, RanOK
  <2>2. Belongs(t, h)
    BY <2>1 DEF IInv, TakenOK, ConfirmedBy
  <2> QED BY <2>1, <2>2 DEF Belongs, ConfirmedBy, KeyOf
<1> QED BY <1>1, IInvAlways, PTL

\* A question that was answered, with whatever words, is never open again.
THEOREM HoldsAreAnsweredOnce ==
    ASSUME InternalMayRun = FALSE
    PROVE  Spec => []AnsweredOnce
<1>1. IInv => AnsweredOnce
  BY DEF IInv
<1> QED BY <1>1, IInvAlways, PTL

-----------------------------------------------------------------------------
(* Nobody else's hold: an action property.  It needs no assumption about the *)
(* app, only where holds are.                                                *)

\* A hold in the store is under its own turn's key, and that turn is done.
DoneHolds ==
    \A k \in Keys, h \in Turn : store[k] = h => pc[h] = "done" /\ KeyOf(h) = k

\* A step of one turn: it goes on to another await or ends, and touches the
\* store under its own key only, where it may leave its own proposal when it
\* ends.
StepsAt(t) ==
    /\ pc[t] # "done"
    /\ pc' = [pc EXCEPT ![t] = pc'[t]]
    /\ pc'[t] # pc[t]
    /\ \A k \in Keys : store'[k] = store[k] \/ k = KeyOf(t)
    /\ \A k \in Keys, h \in Turn :
         store'[k] = h => store[k] = h \/ (h = t /\ pc'[t] = "done")

\* A turn that ends, asking or not, touches the store under its own key only.
LEMMA EndStepsAt ==
    ASSUME TypeOK, StoredHeld, NEW t \in Turn, pc[t] \in Waits,
           NEW holds \in {store, Taken(t)}, Ends(t, holds)
    PROVE  StepsAt(t)
<1> USE DEF Waits, Kinds
<1>1. /\ holds \in [Keys -> Turn \cup {NoTurn}]
      /\ \A k \in Keys : holds[k] = store[k] \/ k = KeyOf(t)
      /\ \A k \in Keys, h \in Turn : holds[k] = h => store[k] = h
  BY StoreShapes, ConstantsOK DEF Taken, TypeOK, StoreFrom
<1>2. KeyOf(t) \in Keys
  BY DEF KeyOf, Keys, TypeOK, Requests
<1>3. CASE Reply(t, holds)
  BY <1>1, <1>3 DEF Reply, Goto, StepsAt, TypeOK
<1>4. ASSUME NEW kind \in Kinds, Ask(t, kind, holds)
      PROVE  StepsAt(t)
  <2>1. /\ pc' = [pc EXCEPT ![t] = "done"]
        /\ store' = [holds EXCEPT ![KeyOf(t)] = t]
    BY <1>4 DEF Ask, Goto
  <2>2. /\ \A k \in Keys : store'[k] = holds[k] \/ k = KeyOf(t)
        /\ \A k \in Keys, h \in Turn : store'[k] = h => holds[k] = h \/ h = t
    BY <1>1, <1>2, <2>1
  <2>3. pc'[t] = "done" /\ pc[t] # "done"
    BY <2>1 DEF TypeOK
  <2> QED BY <1>1, <2>1, <2>2, <2>3 DEF StepsAt
<1> QED BY <1>3, <1>4 DEF Ends

\* So does a turn that goes on.
LEMMA MoveStepsAt ==
    ASSUME TypeOK, StoredHeld, NEW t \in Turn, pc[t] \in Waits,
           NEW where \in Waits, where # pc[t],
           pc' = [pc EXCEPT ![t] = where],
           store' = store \/ store' = Taken(t)
    PROVE  StepsAt(t)
<1> USE DEF Waits, Kinds
<1>1. /\ \A k \in Keys : store'[k] = store[k] \/ k = KeyOf(t)
      /\ \A k \in Keys, h \in Turn : store'[k] = h => store[k] = h
  BY StoreShapes, ConstantsOK DEF Taken, TypeOK, StoreFrom
<1> QED BY <1>1 DEF StepsAt, TypeOK

\* Every step of a received turn is one of the two, and no request changes.
LEMMA HandleStepsAt ==
    ASSUME TypeOK, StoredHeld, NEW t \in Turn, Handle(t) \/ Cancel(t)
    PROVE  StepsAt(t) /\ UNCHANGED req
<1> USE DEF Waits, Kinds
<1>1. CASE Confirm(t)
  <2>1. Mine(t) \in Turn /\ store[KeyOf(t)] = Mine(t) /\ KeyOf(t) \in Keys
    BY <1>1, StoreShapes DEF Confirm, Confirms
  <2>2. held[Mine(t)] # NoHold
    BY <2>1, ConstantsOK DEF StoredHeld
  <2>3. held[Mine(t)].kind \in Kinds
    BY <2>1, <2>2 DEF TypeOK, Holds
  <2> QED BY <1>1, <2>3, MoveStepsAt DEF Confirm, Goto
<1>2. CASE Deny(t)
  <2>1. Ends(t, Taken(t))
    BY <1>2 DEF Deny, Ends
  <2> QED BY <1>2, <2>1, EndStepsAt DEF Deny
<1>3. CASE AskDelete(t)
  <2>1. Ends(t, Taken(t))
    BY <1>3 DEF AskDelete, Ends
  <2> QED BY <1>3, <2>1, EndStepsAt DEF AskDelete
<1>4. CASE StartModify(t)
  <2>1. CASE Reply(t, Taken(t))
    <3>1. Ends(t, Taken(t))
      BY <2>1 DEF Ends
    <3> QED BY <1>4, <3>1, EndStepsAt DEF StartModify
  <2>2. CASE store' = Taken(t) /\ Goto(t, "config")
    BY <1>4, <2>2, MoveStepsAt DEF StartModify, Goto
  <2> QED BY <1>4, <2>1, <2>2 DEF StartModify
<1>5. CASE StartRead(t)
  BY <1>5, MoveStepsAt DEF StartRead, Goto
<1>6. CASE ConfigRead(t)
  <2>1. CASE Reply(t, store)
    BY <1>6, <2>1, EndStepsAt DEF ConfigRead, Ends
  <2>2. CASE Goto(t, "edit") /\ UNCHANGED <<store, held>>
    BY <1>6, <2>2, MoveStepsAt DEF ConfigRead, Goto
  <2> QED BY <1>6, <2>1, <2>2 DEF ConfigRead
<1>7. CASE Edited(t)
  <2>1. Ends(t, store)
    BY <1>7 DEF Edited, Ends
  <2> QED BY <1>7, <2>1, EndStepsAt DEF Edited
<1>8. CASE ReadAnswered(t)
  <2>1. CASE Ends(t, store)
    BY <1>8, <2>1, EndStepsAt DEF ReadAnswered
  <2>2. CASE Goto(t, "auto") /\ UNCHANGED <<store, held>>
    BY <1>8, <2>2, MoveStepsAt DEF ReadAnswered, Goto
  <2>3. CASE Goto(t, "may_edit") /\ UNCHANGED <<store, held>>
    BY <1>8, <2>3, MoveStepsAt DEF ReadAnswered, Goto
  <2> QED BY <1>8, <2>1, <2>2, <2>3 DEF ReadAnswered, Ends
<1>9. CASE MemoryAsked(t)
  <2>1. Ends(t, store)
    BY <1>9 DEF MemoryAsked, Ends
  <2> QED BY <1>9, <2>1, EndStepsAt DEF MemoryAsked
<1>10. CASE AutoAnswered(t)
  <2>1. Ends(t, store)
    BY <1>10 DEF AutoAnswered, AutoSaid, AutoRefused, Ends
  <2> QED BY <1>10, <2>1, EndStepsAt DEF AutoAnswered
<1>11. CASE ConfirmedAnswered(t)
  BY <1>11, EndStepsAt DEF ConfirmedAnswered, Ends
<1>12. CASE Cancel(t)
  BY <1>12, EndStepsAt DEF Cancel, Ends
<1> QED BY <1>1, <1>2, <1>3, <1>4, <1>5, <1>6, <1>7, <1>8, <1>9, <1>10, <1>11,
           <1>12 DEF Handle

\* Holds stay under their own turn's key.
LEMMA DoneHoldsStep ==
    ASSUME TypeOK, StoredHeld, DoneHolds, [Next]_vars
    PROVE  DoneHolds'
<1> SUFFICES ASSUME NEW k \in Keys, NEW h \in Turn, store'[k] = h
             PROVE  pc'[h] = "done" /\ KeyOf(h)' = k
  BY DEF DoneHolds
<1>1. ASSUME NEW t \in Turn, Receive(t) PROVE pc'[h] = "done" /\ KeyOf(h)' = k
  <2>1. pc[h] = "done" /\ KeyOf(h) = k
    BY <1>1 DEF Receive, DoneHolds
  <2>2. h # t
    BY <1>1, <2>1 DEF Receive
  <2>3. req'[h] = req[h] /\ pc'[h] = pc[h]
    BY <1>1, <2>2 DEF Receive, Goto, TypeOK
  <2> QED BY <2>1, <2>3 DEF KeyOf
<1>2. ASSUME NEW t \in Turn, Handle(t) \/ Cancel(t)
      PROVE  pc'[h] = "done" /\ KeyOf(h)' = k
  <2>1. StepsAt(t) /\ UNCHANGED req
    BY <1>2, HandleStepsAt
  <2>2. CASE store[k] = h
    <3>1. pc[h] = "done" /\ KeyOf(h) = k
      BY <2>2 DEF DoneHolds
    <3>2. pc'[h] = pc[h]
      BY <2>1, <3>1 DEF StepsAt, TypeOK
    <3> QED BY <2>1, <3>1, <3>2 DEF KeyOf
  <2>3. CASE store[k] # h
    <3>1. h = t /\ pc'[t] = "done" /\ k = KeyOf(t)
      BY <2>1, <2>3 DEF StepsAt
    <3> QED BY <2>1, <3>1 DEF KeyOf
  <2> QED BY <2>2, <2>3
<1>3. CASE Restart
  BY <1>3, ConstantsOK DEF Restart
<1>4. CASE Tick \/ UNCHANGED vars
  BY <1>4 DEF Tick, vars, DoneHolds, KeyOf
<1> QED BY <1>1, <1>2, <1>3, <1>4 DEF Next

\* A step that takes a hold out of the store is one of its own caller's, in its
\* own conversation, or a restart.
LEMMA HoldsLeave ==
    ASSUME TypeOK, StoredHeld, DoneHolds, [Next]_vars,
           NEW h \in Turn, IsHeld(h), ~IsHeld(h)'
    PROVE  \/ \E t \in Turn \ {h} :
                 /\ pc'[t] # pc[t]
                 /\ req[t].conv = req[h].conv
                 /\ req[t].caller = req[h].caller
           \/ Restart
<1>1. PICK k \in Keys : store[k] = h
  BY DEF IsHeld
<1>2. store'[k] # h
  BY DEF IsHeld
<1>3. pc[h] = "done" /\ KeyOf(h) = k
  BY <1>1 DEF DoneHolds
<1>4. ASSUME NEW t \in Turn, Handle(t) \/ Cancel(t)
      PROVE  \E u \in Turn \ {h} :
                 /\ pc'[u] # pc[u]
                 /\ req[u].conv = req[h].conv
                 /\ req[u].caller = req[h].caller
  <2>1. StepsAt(t)
    BY <1>4, HandleStepsAt
  <2>2. t # h /\ pc'[t] # pc[t] /\ KeyOf(t) = k
    BY <1>1, <1>2, <1>3, <2>1 DEF StepsAt
  <2>3. req[t].conv = req[h].conv /\ req[t].caller = req[h].caller
    BY <1>3, <2>2 DEF KeyOf
  <2> QED BY <2>2, <2>3
<1>5. \A t \in Turn : ~Receive(t)
  BY <1>1, <1>2 DEF Receive
<1>6. ~Tick /\ ~UNCHANGED vars
  BY <1>1, <1>2 DEF Tick, vars
<1> QED BY <1>4, <1>5, <1>6 DEF Next

\* In a conversation several users or entries share, nobody replaces, discards
\* or answers the hold of another, whatever the app does.
THEOREM OthersAreLeftAlone == Spec => OthersHoldsUntouched
<1>1. Init => TypeOK /\ StoredHeld /\ DoneHolds
  <2>1. Init => DoneHolds
    BY ConstantsOK DEF Init, DoneHolds
  <2> QED BY <2>1, InitTypes
<1>2. TypeOK /\ StoredHeld /\ DoneHolds /\ [Next]_vars
        => (TypeOK /\ StoredHeld /\ DoneHolds)'
  BY TypeStep, DoneHoldsStep
<1>3. TypeOK /\ StoredHeld /\ DoneHolds /\ [Next]_vars
        => [\A h \in Turn :
              IsHeld(h) /\ ~IsHeld(h)' =>
                \/ \E t \in Turn \ {h} :
                      /\ pc'[t] # pc[t]
                      /\ req[t].conv = req[h].conv
                      /\ req[t].caller = req[h].caller
                \/ Restart]_vars
  BY HoldsLeave
<1> QED BY <1>1, <1>2, <1>3, PTL DEF Spec, OthersHoldsUntouched

-----------------------------------------------------------------------------
(* The protocol implements ProposalLife. *)

\* A turn that was told yes is carrying out this hold.
Acted(h) == \E t \in Turn : pc[t] \in Kinds /\ pending[t] = h

\* What each of these conditions excludes.
LEMMA StagesApart ==
    ASSUME TypeOK, StoredHeld, IInv, NEW h \in Turn
    PROVE  /\ IsHeld(h) => pc[h] = "done" /\ ran[h] = 0 /\ ~Acted(h)
           /\ pc[h] # "done" => ran[h] = 0 /\ ~IsHeld(h) /\ ~Acted(h)
           /\ Acted(h) => pc[h] = "done" /\ ran[h] = 0 /\ ~IsHeld(h)
<1>1. IsHeld(h) => pc[h] = "done" /\ ran[h] = 0
  BY DEF IsHeld, IInv, StoredOK
<1>2. ASSUME NEW t \in Turn, pc[t] \in Kinds, pending[t] = h
      PROVE  pc[h] = "done" /\ ran[h] = 0 /\ ~IsHeld(h)
  <2>1. InFlight(t) = h /\ pc[t] \in Sending /\ pc[t] # "auto"
    BY <1>2 DEF InFlight, Sending, Kinds
  <2> QED BY <2>1, SendingShape DEF IsHeld
<1>3. pc[h] # "done" => ran[h] = 0
  BY DEF IInv, UnansweredOK
<1> QED BY <1>1, <1>2, <1>3 DEF Acted

\* What the stage of a proposal says of the turn that made it.
StageFits(h) ==
    \/ /\ StageOf(h) = "new" /\ pc[h] \notin {"auto", "done"}
       /\ ran[h] = 0 /\ ~IsHeld(h) /\ ~Acted(h)
    \/ StageOf(h) = "open" /\ pc[h] = "done" /\ ran[h] = 0 /\ IsHeld(h) /\ ~Acted(h)
    \/ StageOf(h) = "unasked" /\ pc[h] = "auto" /\ ran[h] = 0 /\ ~IsHeld(h) /\ ~Acted(h)
    \/ StageOf(h) = "approved" /\ pc[h] = "done" /\ ran[h] = 0 /\ ~IsHeld(h) /\ Acted(h)
    \/ StageOf(h) = "ran" /\ pc[h] = "done" /\ ran[h] = 1 /\ ~IsHeld(h) /\ ~Acted(h)
    \/ StageOf(h) = "gone" /\ pc[h] = "done" /\ ran[h] = 0 /\ ~IsHeld(h) /\ ~Acted(h)
StagesFit == \A h \in Turn : StageFits(h)

\* With the invariant, every proposal is at one of the stages.
LEMMA StageIs ==
    ASSUME TypeOK, StoredHeld, IInv, NEW h \in Turn
    PROVE  StageFits(h)
<1> DEFINE sent == pc[h] = "auto" \/ \E t \in Takers(h) : pc[t] \in Kinds
<1>1. sent <=> pc[h] = "auto" \/ Acted(h)
  BY DEF Takers, Acted
<1>2. IsHeld(h) => Takers(h) = {}
  BY ConstantsOK DEF IsHeld, Takers, IInv, AnsweredOnce
<1>3. pc[h] # "done" => Takers(h) = {}
  BY DEF Takers, IInv, TakenOK, Belongs
<1>4. ASSUME Acted(h) PROVE \E t \in Takers(h) : Takers(h) = {t}
  <2>1. PICK t \in Turn : pending[t] = h
    BY <1>4 DEF Acted
  <2>2. Takers(h) = {t}
    BY <2>1, ConstantsOK DEF Takers, IInv, AnsweredOnce
  <2> QED BY <2>1, <2>2
<1>5. ran[h] \in {0, 1}
  BY DEF TypeOK, IInv, RanOK
<1>6. pc[h] = "auto" => ran[h] = 0 /\ ~IsHeld(h)
  BY StagesApart
<1>7. CASE ran[h] # 0
  BY <1>1, <1>5, <1>6, <1>7, StagesApart DEF StageOf, StageFits
<1>8. CASE IsHeld(h)
  BY <1>1, <1>2, <1>6, <1>8, StagesApart DEF StageOf, StageFits
<1>9. CASE pc[h] = "auto"
  BY <1>3, <1>6, <1>9, StagesApart DEF StageOf, StageFits
<1>10. CASE Acted(h)
  BY <1>1, <1>4, <1>10, StagesApart DEF StageOf, StageFits
<1>11. CASE ran[h] = 0 /\ ~IsHeld(h) /\ pc[h] # "auto" /\ ~Acted(h)
  BY <1>1, <1>11 DEF StageOf, StageFits
<1> QED BY <1>7, <1>8, <1>9, <1>10, <1>11

\* A step of a turn ends it or takes it to its next await; it is the turn's yes
\* that sends a hold, and an unconfirmed write ends with its answer.
LEMMA HandleSends ==
    ASSUME TypeOK, NEW t \in Turn, Handle(t) \/ Cancel(t)
    PROVE  /\ pc[t] = "auto" => pc'[t] = "done"
           /\ pc'[t] \in Kinds => Confirm(t)
           /\ \A u \in Turn \ {t} : pending'[u] = pending[u]
<1> USE DEF Kinds, Waits
<1>1. CASE Confirm(t)
  BY <1>1 DEF Confirm, TypeOK
<1>2. ASSUME Cancel(t) \/ Deny(t) \/ AskDelete(t) \/ Edited(t) \/ MemoryAsked(t)
             \/ AutoAnswered(t) \/ ConfirmedAnswered(t)
      PROVE  /\ pc'[t] = "done"
             /\ \A u \in Turn \ {t} : pending'[u] = pending[u]
  BY <1>2 DEF Cancel, Deny, AskDelete, Edited, MemoryAsked, AutoAnswered, AutoSaid,
              AutoRefused, ConfirmedAnswered, Reply, Ask, Goto, TypeOK
<1>3. ASSUME StartModify(t) \/ StartRead(t) \/ ConfigRead(t) \/ ReadAnswered(t)
      PROVE  /\ pc[t] # "auto"
             /\ pc'[t] \notin Kinds
             /\ \A u \in Turn \ {t} : pending'[u] = pending[u]
  BY <1>3 DEF StartModify, StartRead, ConfigRead, ReadAnswered, Reply, Ask, Goto, TypeOK
<1> QED BY <1>1, <1>2, <1>3 DEF Handle

\* A step of a turn runs only what the turn had sent.
LEMMA HandleRuns ==
    ASSUME TypeOK, NEW t \in Turn, Handle(t) \/ Cancel(t)
    PROVE  RunsOwn(t)
<1>1. CASE AutoAnswered(t) \/ ConfirmedAnswered(t)
  <2>1. pc[t] \in Sending
    BY <1>1 DEF AutoAnswered, ConfirmedAnswered, Sending
  <2>2. PICK n \in 0..1 : Run(InFlight(t), n)
    BY <1>1 DEF AutoAnswered, AutoSaid, AutoRefused, ConfirmedAnswered, InFlight, Kinds
  <2> QED BY <2>1, <2>2, OwnRuns
<1>2. CASE Cancel(t) /\ pc[t] \in Sending
  BY <1>2, OwnRuns DEF Cancel
<1>3. CASE UNCHANGED ran
  BY <1>3 DEF RunsOwn
<1> QED BY <1>1, <1>2, <1>3 DEF Handle, Cancel, Confirm, Deny, AskDelete, StartModify,
           StartRead, ConfigRead, Edited, ReadAnswered, MemoryAsked

\* What one step does to the proposal of a turn: it runs only if it had been
\* sent; it is held only by its own turn's reply; it is sent only for a turn
\* that took it out of the store.
Lives(h) ==
    /\ ran'[h] # ran[h] => pc[h] = "auto" \/ Acted(h)
    /\ pc[h] = "done" => pc'[h] = "done"
    /\ pc[h] = "auto" => pc'[h] \in {"auto", "done"}
    /\ IsHeld(h)' => IsHeld(h) \/ pc[h] # "done"
    /\ Acted(h)' => Acted(h) \/ IsHeld(h)

\* A hold is sent only by the step that says yes to it.
LEMMA TurnLives ==
    ASSUME TypeOK, StoredHeld, IInv, NEW t \in Turn, Handle(t) \/ Cancel(t),
           NEW h \in Turn
    PROVE  /\ Lives(h)
           /\ Acted(h)' /\ ~Acted(h) => pending'[t] = h
<1>1. StepsAt(t)
  BY HandleStepsAt
<1>2. ran'[h] # ran[h] => pc[h] = "auto" \/ Acted(h)
  <2> SUFFICES ASSUME ran'[h] # ran[h] PROVE pc[h] = "auto" \/ Acted(h)
    OBVIOUS
  <2>1. pc[t] \in Sending /\ h = InFlight(t)
    BY HandleRuns DEF RunsOwn
  <2> QED BY <2>1 DEF InFlight, Sending, Acted
<1>3. /\ pc[h] = "done" => pc'[h] = "done"
      /\ pc[h] = "auto" => pc'[h] \in {"auto", "done"}
  BY <1>1, HandleSends DEF StepsAt, TypeOK
<1>4. IsHeld(h)' => IsHeld(h) \/ pc[h] # "done"
  BY <1>1 DEF StepsAt, IsHeld
<1>5. ASSUME Acted(h)', ~Acted(h)
      PROVE  pending'[t] = h /\ IsHeld(h)
  <2>1. PICK u \in Turn : pc'[u] \in Kinds /\ pending'[u] = h
    BY <1>5 DEF Acted
  <2>2. u = t
    <3> SUFFICES ASSUME u # t PROVE FALSE
      OBVIOUS
    <3>1. pc'[u] = pc[u] /\ pending'[u] = pending[u]
      BY <1>1, HandleSends DEF StepsAt, TypeOK
    <3> QED BY <1>5, <2>1, <3>1 DEF Acted
  <2>3. Confirm(t)
    BY <2>1, <2>2, HandleSends
  <2>4. pending'[t] = Mine(t) /\ Mine(t) # NoTurn
    BY <2>3 DEF Confirm, Confirms, TypeOK
  <2> QED BY <2>1, <2>2, <2>4, StoreShapes DEF IsHeld
<1> QED BY <1>2, <1>3, <1>4, <1>5 DEF Lives

\* So does every other step, and one step sends at most one hold.
LEMMA EachLives ==
    ASSUME TypeOK, StoredHeld, IInv, [Next]_vars
    PROVE  /\ \A h \in Turn : Lives(h)
           /\ \A g, h \in Turn :
                Acted(g)' /\ ~Acted(g) /\ Acted(h)' /\ ~Acted(h) => g = h
<1>1. ASSUME NEW t \in Turn, Handle(t) \/ Cancel(t)
      PROVE  /\ \A h \in Turn : Lives(h)
             /\ \A g, h \in Turn :
                  Acted(g)' /\ ~Acted(g) /\ Acted(h)' /\ ~Acted(h) => g = h
  BY <1>1, TurnLives
<1>2. ASSUME NEW t \in Turn, Receive(t), NEW h \in Turn
      PROVE  Lives(h) /\ (Acted(h)' => Acted(h))
  <2>1. /\ pc[t] = "idle" /\ pc' = [pc EXCEPT ![t] = "words"]
        /\ UNCHANGED <<store, pending, ran>>
    BY <1>2 DEF Receive, Goto
  <2>2. Acted(h)' => Acted(h)
    BY <2>1 DEF Acted, Kinds, TypeOK
  <2> QED BY <2>1, <2>2 DEF Lives, IsHeld, TypeOK
<1>3. ASSUME Restart, NEW h \in Turn
      PROVE  Lives(h) /\ ~Acted(h)'
  <2>1. /\ pc' = [t \in Turn |-> IF pc[t] = "idle" THEN "idle" ELSE "done"]
        /\ store' = [k \in Keys |-> NoTurn]
    BY <1>3 DEF Restart
  <2>2. ~Acted(h)' /\ ~IsHeld(h)'
    BY <2>1, ConstantsOK DEF Acted, Kinds, IsHeld
  <2>3. ran'[h] # ran[h] => \E t \in Turn : pc[t] \in Sending /\ InFlight(t) = h
    BY <1>3 DEF Restart
  <2>4. ran'[h] # ran[h] => pc[h] = "auto" \/ Acted(h)
    BY <2>3 DEF InFlight, Sending, Acted
  <2> QED BY <2>1, <2>2, <2>4 DEF Lives
<1>4. ASSUME Tick \/ UNCHANGED vars, NEW h \in Turn
      PROVE  Lives(h) /\ (Acted(h)' => Acted(h))
  <2>1. UNCHANGED <<pc, store, pending, ran>>
    BY <1>4 DEF Tick, vars
  <2> QED BY <2>1 DEF Lives, Acted, IsHeld
<1> QED BY <1>1, <1>2, <1>3, <1>4 DEF Next

\* A proposal goes from one stage to the next as ProposalLife says.
LEMMA StageStep ==
    ASSUME StagesFit, StagesFit', NEW h \in Turn, Lives(h), StageOf(h)' # StageOf(h)
    PROVE  /\ StageOf(h)' \in Life!After[StageOf(h)]
           /\ StageOf(h)' = "approved" => Acted(h)' /\ ~Acted(h)
<1>1. StageFits(h) /\ StageFits(h)'
  BY DEF StagesFit
<1>2. /\ ran'[h] # ran[h] => pc[h] = "auto" \/ Acted(h)
      /\ pc[h] = "done" => pc'[h] = "done"
      /\ pc[h] = "auto" => pc'[h] \in {"auto", "done"}
      /\ IsHeld(h)' => IsHeld(h) \/ pc[h] # "done"
      /\ Acted(h)' => Acted(h) \/ IsHeld(h)
  BY DEF Lives
<1>3. /\ StageOf(h) = "new" => StageOf(h)' \in {"open", "unasked", "gone"}
      /\ StageOf(h) = "open" => StageOf(h)' \in {"approved", "gone"}
      /\ StageOf(h) = "unasked" => StageOf(h)' \in {"ran", "open", "gone"}
      /\ StageOf(h) = "approved" => StageOf(h)' \in {"ran", "gone"}
      /\ StageOf(h) \notin {"ran", "gone"}
  BY <1>1, <1>2 DEF StageFits
<1>4. StageOf(h)' \in Life!After[StageOf(h)]
  BY <1>1, <1>3 DEF StageFits, Life!After
<1>5. StageOf(h)' = "approved" => Acted(h)' /\ ~Acted(h)
  BY <1>1, <1>3 DEF StageFits
<1> QED BY <1>4, <1>5

\* Every step is one of ProposalLife's.
LEMMA LifeStep ==
    ASSUME TypeOK, StoredHeld, IInv, StagesFit, StagesFit', [Next]_vars
    PROVE  Life!Next
<1> DEFINE was == [h \in Turn |-> StageOf(h)]
           is == [h \in Turn |-> StageOf(h)']
<1>1. was \in [Turn -> Life!Stages] /\ is \in [Turn -> Life!Stages]
  BY DEF StagesFit, StageFits, Life!Stages
<1>2. ASSUME NEW h \in Turn, is[h] # was[h]
      PROVE  /\ is[h] \in Life!After[was[h]]
             /\ is[h] = "approved" => Acted(h)' /\ ~Acted(h)
  <2>1. Lives(h)
    BY EachLives
  <2> QED BY <1>2, <2>1, StageStep
<1>3. ASSUME NEW g \in Turn, NEW h \in Turn, is[g] # was[g], is[h] # was[h],
             is[g] = "approved", is[h] = "approved"
      PROVE  g = h
  <2>1. Acted(g)' /\ ~Acted(g) /\ Acted(h)' /\ ~Acted(h)
    BY <1>2, <1>3
  <2> QED BY <2>1, EachLives
<1>4. Life!Moves(was, is)
  BY <1>1, <1>2, <1>3 DEF Life!Moves
<1> QED BY <1>4 DEF Life!Next

\* Whatever turns, restarts and cancelled pipelines come in between, a proposal
\* waits for one answer, runs only if it was confirmed or never asked about,
\* and once at most, and stays as it ended: the protocol implements
\* ProposalLife, if an "internal" error does not follow a write that ran.
THEOREM ImplementsProposalLife ==
    ASSUME InternalMayRun = FALSE
    PROVE  Spec => ImplementsLife
<1>1. Init => Life!Init
  <2> SUFFICES ASSUME Init, NEW h \in Turn PROVE StageOf(h) = "new"
    BY DEF Life!Init
  <2>1. /\ pc[h] = "idle" /\ ran[h] = 0 /\ ~IsHeld(h)
        /\ \A t \in Turn : pc[t] \notin Kinds
    BY ConstantsOK DEF Init, IsHeld, Kinds
  <2> QED BY <2>1 DEF StageOf, Takers
<1>2. TypeOK /\ StoredHeld /\ IInv => StagesFit
  BY StageIs DEF StagesFit
<1>3. TypeOK /\ StoredHeld /\ IInv /\ StagesFit /\ StagesFit' /\ [Next]_vars
        => [Life!Next]_[h \in Turn |-> StageOf(h)]
  BY LifeStep
<1> QED BY <1>1, <1>2, <1>3, IInvAlways, PTL DEF Spec, ImplementsLife, Life!Spec

=============================================================================
