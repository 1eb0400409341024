------------------------- MODULE CardResource_proofs -------------------------
(***************************************************************************)
(* Proofs about CardResource, for any number of entries, of resources and  *)
(* of attempts.                                                            *)
(***************************************************************************)
EXTENDS CardResource, FiniteSetTheorems, WellFoundedInduction, TLAPS

USE CardConstants

-----------------------------------------------------------------------------
(* What is known while an entry is set up or removed. *)

Holding == {"read", "create", "update", "dedupe", "rmread", "rmdelete"}

\* An entry has the lock exactly while it reads and writes the resources.
CardLockOK == \A e \in Home : cardLock = e <=> cardPc[e] \in Holding

\* What is under way is of entries that are listed and have to be set up anew;
\* ids are given in order; and two removals at once were noticed.
ListedOK ==
    /\ \A e \in Home : cardPc[e] # "idle" => e \in listed /\ e \notin ready
    /\ \A i \in CardId : i > lastCard => cards[i] = "none"
    /\ ~overlapped => \A e, o \in Home : {cardPc[e], cardPc[o]} \subseteq Removing => e = o

\* One resource that is not in S is this version's, and it is the only one.
OneBeside(S) ==
    \E k \in CardId \ S :
        /\ "deleted" \notin touched => cards[k] = "new"
        /\ "added" \notin touched => Ours \subseteq S \cup {k}

\* What an entry that has the lock read is what is there, up to the user's doing.
Work(e) ==
    /\ cardPc[e] = "create" /\ "added" \notin touched => Ours = {}
    /\ cardPc[e] \in {"update", "rmdelete"} /\ "added" \notin touched => Ours \subseteq snapshot[e]
    /\ cardPc[e] \in {"update", "dedupe", "rmdelete"} => snapshot[e] # {}
    /\ cardPc[e] = "dedupe" => OneBeside(snapshot[e])
    /\ cardPc[e] \in {"rmread", "rmdelete"} => ready = {}

WorkOK == \A e \in Home : cardLock = e => Work(e)

\* While nobody reads or writes there is one resource for the entries set up.
FreeOK ==
    ready # {} /\ cardLock = NoHome =>
        /\ "deleted" \notin touched => \E i \in CardId : cards[i] = "new"
        /\ "added" \notin touched => \E k \in CardId : Ours \subseteq {k}

\* None is there when the last entry goes, or has gone.
GoneOK ==
    ~overlapped /\ "added" \notin touched =>
        /\ listed = {} => Ours = {}
        /\ \A e \in Home : cardPc[e] = "hooked" /\ listed = {e} => Ours = {}

CardInv == CardTypeOK /\ CardLockOK /\ ListedOK /\ WorkOK /\ FreeOK /\ GoneOK

-----------------------------------------------------------------------------
(* Helpers. *)

\* Min of a set of naturals is its least element.
LEMMA MinIsLeast ==
    ASSUME NEW S \in SUBSET Nat, S # {}
    PROVE  Min(S) \in S /\ \A y \in S : Min(S) <= y
<1> DEFINE Least(z) == z \in S /\ \A y \in S : z <= y
<1>1. IsWellFoundedOn(OpToRel(<, Nat), Nat)
  BY NatLessThanWellFounded
<1>2. PICK x \in S : \A y \in S : ~(<<y, x>> \in OpToRel(<, Nat))
  BY <1>1, WFMin
<1>3. \A y \in S : ~(y < x)
  BY <1>2 DEF OpToRel
<1>4. Least(x)
  BY <1>3
<1>5. Min(S) = CHOOSE z : Least(z)
  BY Zenon DEF Min
<1>6. Least(CHOOSE z : Least(z))
  BY <1>4, Zenon
<1> QED
  BY <1>5, <1>6

\* A set of ids has a first one, and only that one if it has no more than one.
LEMMA FirstOf ==
    ASSUME NEW S \in SUBSET CardId, S # {}
    PROVE  /\ Min(S) \in S /\ Min(S) \in CardId
           /\ Cardinality(S) <= 1 => S = {Min(S)}
           /\ Cardinality(S) > 1 => S \ {Min(S)} # {}
<1>1. Min(S) \in S /\ Min(S) \in CardId
  <2>1. S \in SUBSET Nat
    BY DEF CardId
  <2> QED
    BY <2>1, MinIsLeast
<1>2. IsFiniteSet(S)
  <2>1. IsFiniteSet(CardId)
    BY FS_Interval DEF CardId
  <2> QED
    BY <2>1, FS_Subset
<1>3. Cardinality({Min(S)}) = 1
  BY FS_Singleton
<1>4. {Min(S)} \in SUBSET S
  BY <1>1
<1>5. Cardinality({Min(S)}) <= Cardinality(S)
  BY <1>2, <1>4, FS_Subset
<1>6. Cardinality(S) = Cardinality({Min(S)}) => S = {Min(S)}
  BY <1>2, <1>4, FS_Subset
<1>7. Cardinality(S) \in Nat
  BY <1>2, FS_CardinalityType
<1>8. Cardinality(S) <= 1 => S = {Min(S)}
  BY <1>3, <1>5, <1>6, <1>7
<1>9. Cardinality(S) > 1 => S \ {Min(S)} # {}
  <2> SUFFICES ASSUME Cardinality(S) > 1, S \ {Min(S)} = {}
               PROVE  FALSE
    OBVIOUS
  <2>1. S = {Min(S)}
    BY <1>1
  <2> QED
    BY <1>3, <2>1
<1> QED
  BY <1>1, <1>8, <1>9

\* What at most one id bounds is at most one.
LEMMA AtMostOne ==
    ASSUME NEW k, NEW S, S \subseteq {k}
    PROVE  Cardinality(S) <= 1
<1>1. IsFiniteSet({k}) /\ Cardinality({k}) = 1
  BY FS_Singleton
<1>2. Cardinality(S) <= Cardinality({k})
  BY <1>1, FS_Subset
<1> QED
  BY <1>1, <1>2

Pcs == [Home -> CardAwaits]
Snapshots == [Home -> SUBSET CardId]
Attempts == [Home -> 0..MaxAttempts]
AllCards == [CardId -> {"none", "old", "new"}]

\* Where an entry goes is where it is, and the others stay.
Goes(e, where) == cardPc'[e] = where /\ \A o \in Home \ {e} : cardPc'[o] = cardPc[o]

\* Going somewhere is just that.
LEMMA GoEffect ==
    ASSUME CardTypeOK, NEW e \in Home, NEW where \in CardAwaits, GoCard(e, where)
    PROVE  cardPc' \in Pcs /\ Goes(e, where)
BY DEF CardTypeOK, GoCard, Pcs, Goes

\* So is the release of the lock.
LEMMA ReleaseEffect ==
    ASSUME CardTypeOK, NEW e \in Home, NEW where \in CardAwaits, Release(e, where)
    PROVE  /\ cardLock' = NoHome
           /\ attempt' \in Attempts /\ snapshot' \in Snapshots
           /\ cardPc' \in Pcs /\ Goes(e, where)
<1>1. attempt' \in Attempts /\ snapshot' \in Snapshots
  BY DEF Release, CardTypeOK, Attempts, Snapshots
<1> QED
  BY <1>1, GoEffect DEF Release

\* The set-up of an entry is done.
LEMMA DoneEffect ==
    ASSUME CardTypeOK, NEW e \in Home, EnsureDone(e)
    PROVE  /\ cardLock' = NoHome /\ ready' = ready \cup {e}
           /\ attempt' \in Attempts /\ snapshot' \in Snapshots
           /\ cardPc' \in Pcs /\ Goes(e, "idle")
BY ReleaseEffect DEF EnsureDone, CardAwaits

\* The resources of the card are those that are there.
LEMMA OursEffect ==
    ASSUME CardTypeOK
    PROVE  /\ Ours \subseteq CardId
           /\ \A i \in CardId : i \in Ours <=> cards[i] # "none"
BY DEF Ours

\* The next id of a snapshot is deleted, and then the rest is left, or none.
LEMMA DeleteEffect ==
    ASSUME CardTypeOK, NEW e \in Home, snapshot[e] # {}, DeleteNext(e),
           cardPc[e] \in {"dedupe", "rmdelete"}
    PROVE  /\ cards' \in AllCards
           /\ \A i \in CardId \ snapshot[e] : cards'[i] = cards[i]
           /\ \E m \in snapshot[e] :
                /\ cards'[m] = "none"
                /\ \A i \in CardId \ {m} : cards'[i] = cards[i]
                /\ \/ /\ snapshot'[e] = snapshot[e] \ {m} /\ snapshot'[e] # {}
                      /\ snapshot' \in Snapshots
                      /\ UNCHANGED <<ready, cardPc, attempt, cardLock>>
                   \/ /\ snapshot[e] = {m}
                      /\ \/ cardPc[e] = "dedupe" /\ EnsureDone(e)
                         \/ cardPc[e] = "rmdelete" /\ Release(e, "hooked") /\ UNCHANGED ready
<1> DEFINE m == Min(snapshot[e])
<1>1. snapshot[e] \in SUBSET CardId
  BY DEF CardTypeOK
<1>2. /\ m \in snapshot[e] /\ m \in CardId
      /\ Cardinality(snapshot[e]) <= 1 => snapshot[e] = {m}
      /\ Cardinality(snapshot[e]) > 1 => snapshot[e] \ {m} # {}
  BY <1>1, FirstOf
<1>3. Cardinality(snapshot[e]) \in Nat
  <2>1. IsFiniteSet(snapshot[e])
    BY <1>1, FS_Interval, FS_Subset DEF CardId
  <2> QED
    BY <2>1, FS_CardinalityType
<1>4. cards' = [cards EXCEPT ![m] = "none"]
  BY DEF DeleteNext
<1> HIDE DEF m
<1>5. /\ cards' \in AllCards /\ cards'[m] = "none"
      /\ \A i \in CardId \ {m} : cards'[i] = cards[i]
  BY <1>2, <1>4 DEF CardTypeOK, AllCards
<1>6. CASE Cardinality(snapshot[e]) > 1
  <2>1. /\ snapshot' = [snapshot EXCEPT ![e] = snapshot[e] \ {m}]
        /\ UNCHANGED <<ready, cardPc, attempt, cardLock>>
    BY <1>6 DEF DeleteNext, m
  <2>2. snapshot' \in Snapshots /\ snapshot'[e] = snapshot[e] \ {m}
    BY <1>1, <2>1 DEF CardTypeOK, Snapshots
  <2> QED
    BY <1>2, <1>5, <1>6, <2>1, <2>2
<1>7. CASE ~(Cardinality(snapshot[e]) > 1)
  <2>1. snapshot[e] = {m}
    BY <1>2, <1>3, <1>7
  <2>2. \/ cardPc[e] = "dedupe" /\ EnsureDone(e)
        \/ cardPc[e] = "rmdelete" /\ Release(e, "hooked") /\ UNCHANGED ready
    BY <1>7 DEF DeleteNext
  <2> QED
    BY <1>2, <1>5, <2>1, <2>2
<1> QED
  BY <1>6, <1>7

-----------------------------------------------------------------------------
(* Steps of an entry that does not have the lock. *)

\* Such a step leaves the resources, and what is known of them, alone.
Waits(e, where) ==
    /\ cardPc[e] \notin Holding /\ where \in CardAwaits \ Holding
    /\ GoCard(e, where)
    /\ ready' \subseteq ready /\ e \notin ready'
    /\ listed' \subseteq Home /\ ready' \subseteq listed'
    /\ UNCHANGED <<cards, lastCard, snapshot, attempt, cardLock, touched>>

\* It keeps the types, the lock, and what the one with the lock relies on.
LEMMA WaitsStep ==
    ASSUME CardInv, NEW e \in Home, NEW where, Waits(e, where), overlapped' \in BOOLEAN
    PROVE  CardTypeOK' /\ CardLockOK' /\ WorkOK' /\ FreeOK'
<1> USE DEF CardInv
<1>1. cardPc' \in Pcs /\ Goes(e, where)
  BY GoEffect DEF Waits
<1>2. CardTypeOK'
  BY <1>1 DEF Waits, CardTypeOK, Pcs
<1>3. CardLockOK'
  BY <1>1 DEF Waits, CardLockOK, Goes
<1>4. WorkOK'
  <2> SUFFICES ASSUME NEW o \in Home, cardLock = o
               PROVE  Work(o)'
    BY DEF WorkOK, Waits
  <2>1. o # e
    BY DEF CardLockOK, Waits
  <2>2. cardPc'[o] = cardPc[o] /\ Work(o)
    BY <1>1, <2>1 DEF Goes, WorkOK
  <2> QED
    BY <2>2 DEF Work, Waits, Ours, OneBeside
<1>5. FreeOK'
  BY DEF FreeOK, Waits, Ours
<1> QED
  BY <1>2, <1>3, <1>4, <1>5

\* An entry is added, set up again or reloaded.
LEMMA SetUpStep ==
    ASSUME CardInv, NEW e \in Home, SetUpHome(e)
    PROVE  CardInv'
<1> USE DEF CardInv
<1>1. Waits(e, "lock") /\ UNCHANGED overlapped
  BY DEF SetUpHome, Waits, CardAwaits, Holding, CardTypeOK
<1>2. CardTypeOK' /\ CardLockOK' /\ WorkOK' /\ FreeOK'
  BY <1>1, WaitsStep DEF CardTypeOK
<1>3. Goes(e, "lock")
  BY GoEffect DEF SetUpHome, CardAwaits
<1>4. listed' = listed \cup {e} /\ UNCHANGED <<cards, lastCard, touched>>
  BY DEF SetUpHome
<1>5. ListedOK'
  BY <1>1, <1>3, <1>4 DEF ListedOK, Goes, Removing, Waits
<1>6. GoneOK'
  <2>1. \A o \in Home : cardPc'[o] = "hooked" => o # e
    BY <1>3 DEF Goes
  <2> QED
    BY <1>4, <2>1 DEF GoneOK
<1> QED
  BY <1>2, <1>5, <1>6

\* The removal of an entry begins.
LEMMA RemoveStep ==
    ASSUME CardInv, NEW e \in Home, RemoveHome(e)
    PROVE  CardInv'
<1> USE DEF CardInv
<1>1. Waits(e, "rmlock")
  BY DEF RemoveHome, Waits, CardAwaits, Holding, CardTypeOK
<1>2. overlapped' \in BOOLEAN
  BY DEF RemoveHome, CardTypeOK
<1>3. CardTypeOK' /\ CardLockOK' /\ WorkOK' /\ FreeOK'
  BY <1>1, <1>2, WaitsStep
<1>4. Goes(e, "rmlock")
  BY GoEffect DEF RemoveHome, CardAwaits
<1>5. /\ e \in listed
      /\ ~overlapped' => ~overlapped /\ \A o \in Home : cardPc[o] \notin Removing
      /\ UNCHANGED <<cards, lastCard, listed, touched>>
  BY DEF RemoveHome
<1>6. ListedOK'
  <2>1. \A o \in Home : cardPc'[o] # "idle" => o \in listed' /\ o \notin ready'
    BY <1>1, <1>4, <1>5 DEF ListedOK, Goes, Waits
  <2>2. ~overlapped' => \A o \in Home : cardPc'[o] \in Removing => o = e
    BY <1>4, <1>5 DEF Goes
  <2>3. \A i \in CardId : i > lastCard' => cards'[i] = "none"
    BY <1>5 DEF ListedOK
  <2>4. ~overlapped' => \A a, o \in Home : {cardPc'[a], cardPc'[o]} \subseteq Removing => a = o
    BY <2>2
  <2> QED
    BY <2>1, <2>3, <2>4 DEF ListedOK
<1>7. GoneOK'
  <2>1. \A o \in Home : cardPc'[o] = "hooked" => cardPc[o] = "hooked"
    BY <1>4 DEF Goes
  <2> QED
    BY <1>5, <2>1 DEF GoneOK, Ours
<1> QED
  BY <1>3, <1>6, <1>7

\* Home Assistant takes an entry off its list.
LEMMA UnlistStep ==
    ASSUME CardInv, NEW e \in Home, Unlist(e)
    PROVE  CardInv'
<1> USE DEF CardInv
<1>1. cardPc[e] = "hooked" /\ e \in listed /\ e \notin ready
  BY DEF Unlist, ListedOK
<1>2. Waits(e, "idle") /\ UNCHANGED overlapped
  BY <1>1 DEF Unlist, Waits, CardAwaits, Holding, CardTypeOK
<1>3. CardTypeOK' /\ CardLockOK' /\ WorkOK' /\ FreeOK'
  BY <1>2, WaitsStep DEF CardTypeOK
<1>4. Goes(e, "idle")
  BY GoEffect DEF Unlist, CardAwaits
<1>5. listed' = listed \ {e} /\ UNCHANGED <<cards, lastCard, ready, touched, overlapped>>
  BY DEF Unlist
<1>6. ListedOK'
  BY <1>4, <1>5 DEF ListedOK, Goes, Removing
<1>7. GoneOK'
  <2> SUFFICES ASSUME ~overlapped, "added" \notin touched
               PROVE  /\ listed' = {} => Ours' = {}
                      /\ \A o \in Home : cardPc'[o] = "hooked" /\ listed' = {o} => Ours' = {}
    BY <1>5 DEF GoneOK
  <2>1. listed' = {} => Ours' = {}
    <3>1. listed' = {} => listed = {e}
      BY <1>1, <1>5
    <3> QED
      BY <1>1, <1>5, <3>1 DEF GoneOK, Ours
  <2>2. \A o \in Home : cardPc'[o] # "hooked"
    BY <1>1, <1>4 DEF ListedOK, Goes, Removing
  <2> QED
    BY <2>1, <2>2
<1> QED
  BY <1>3, <1>6, <1>7

-----------------------------------------------------------------------------
(* Steps that take the lock, keep it or let it go. *)

\* With one entry that has the lock, what it relies on is all there is to show.
LEMMA HoldsStep ==
    ASSUME CardInv, NEW e \in Home, NEW where \in Holding, Goes(e, where),
           cardPc[e] \in Holding \/ cardLock = NoHome, cardLock' = e, Work(e)'
    PROVE  CardLockOK' /\ WorkOK' /\ FreeOK'
<1>1. \A o \in Home \ {e} : cardPc[o] \notin Holding
  BY DEF CardInv, CardLockOK
<1>2. CardLockOK'
  BY <1>1 DEF CardLockOK, Goes
<1>3. WorkOK'
  BY DEF WorkOK
<1>4. FreeOK'
  BY DEF FreeOK
<1> QED
  BY <1>2, <1>3, <1>4

\* Once the lock is free, nobody relies on anything.
LEMMA FreedStep ==
    ASSUME CardInv, NEW e \in Home, NEW where, where \notin Holding, Goes(e, where),
           cardPc[e] \in Holding, cardLock' = NoHome
    PROVE  CardLockOK' /\ WorkOK'
<1>1. \A o \in Home \ {e} : cardPc[o] \notin Holding
  BY DEF CardInv, CardLockOK
<1> QED
  BY <1>1 DEF CardLockOK, WorkOK, Goes

\* A step of the one with the lock, while it sets up its entry, leaves the list
\* of entries as it is: with its own entry on it.
LEMMA EnsuringStep ==
    ASSUME CardInv, NEW e \in Home, NEW where, Goes(e, where),
           cardPc[e] \in Holding, cardPc[e] \notin Removing, where \notin Removing,
           where = "idle" \/ e \notin ready',
           ready' \subseteq ready \cup {e},
           \A i \in CardId : i > lastCard' => cards'[i] = "none",
           UNCHANGED <<listed, overlapped>>
    PROVE  ListedOK' /\ GoneOK'
<1> USE DEF CardInv
<1>1. e \in listed
  BY DEF ListedOK, Holding
<1>2. \A o \in Home : cardPc'[o] \in Removing => o # e /\ cardPc[o] = cardPc'[o]
  BY DEF Goes
<1>3. ListedOK'
  <2>1. \A o \in Home : cardPc'[o] # "idle" => o \in listed' /\ o \notin ready'
    BY <1>1 DEF ListedOK, Goes
  <2>2. ~overlapped' => \A a, o \in Home : {cardPc'[a], cardPc'[o]} \subseteq Removing => a = o
    BY <1>2 DEF ListedOK
  <2> QED
    BY <2>1, <2>2 DEF ListedOK
<1>4. GoneOK'
  BY <1>1, <1>2 DEF GoneOK, Removing
<1> QED
  BY <1>3, <1>4

\* The set-up of an entry gets the lock.
LEMMA EnsureStep ==
    ASSUME CardInv, NEW e \in Home, EnsureCard(e)
    PROVE  CardInv'
<1> USE DEF CardInv
<1>1. /\ cardPc[e] = "lock" /\ cardLock = NoHome /\ cardLock' = e
      /\ UNCHANGED <<cards, lastCard, listed, ready, snapshot, touched, overlapped>>
  BY DEF EnsureCard, CardFree
<1>2. cardPc' \in Pcs /\ Goes(e, "read")
  BY GoEffect DEF EnsureCard, CardAwaits
<1>3. attempt' \in Attempts
  BY DEF EnsureCard, CardTypeOK, Attempts
<1>4. CardTypeOK'
  BY <1>1, <1>2, <1>3 DEF CardTypeOK, Pcs, Attempts
<1>5. Work(e)'
  BY <1>2 DEF Work, Goes
<1>6. CardLockOK' /\ WorkOK' /\ FreeOK'
  BY <1>1, <1>2, <1>5, HoldsStep DEF Holding
<1>7. ListedOK'
  BY <1>1, <1>2 DEF ListedOK, Goes, Removing
<1>8. GoneOK'
  BY <1>1, <1>2 DEF GoneOK, Goes, Ours
<1> QED
  BY <1>4, <1>6, <1>7, <1>8

\* The removal of an entry gets the lock, or has nothing to do.
LEMMA RemoveCardStep ==
    ASSUME CardInv, NEW e \in Home, RemoveCard(e)
    PROVE  CardInv'
<1> USE DEF CardInv
<1>1. /\ cardPc[e] = "rmlock" /\ cardLock = NoHome
      /\ UNCHANGED <<cards, lastCard, listed, ready, snapshot, attempt, touched, overlapped>>
  BY DEF RemoveCard, CardFree
<1>2. e \in listed /\ e \notin ready
  BY <1>1 DEF ListedOK
<1>3. CASE listed \ {e} # {} /\ GoCard(e, "hooked") /\ UNCHANGED cardLock
  <2>1. Waits(e, "hooked")
    BY <1>1, <1>2, <1>3 DEF Waits, CardAwaits, Holding, CardTypeOK
  <2>2. CardTypeOK' /\ CardLockOK' /\ WorkOK' /\ FreeOK'
    BY <1>1, <2>1, WaitsStep DEF CardTypeOK
  <2>3. Goes(e, "hooked")
    BY <1>3, GoEffect DEF CardAwaits
  <2>4. ListedOK'
    BY <1>1, <2>3 DEF ListedOK, Goes, Removing
  <2>5. GoneOK'
    BY <1>1, <1>3, <2>3 DEF GoneOK, Goes, Ours
  <2> QED
    BY <2>2, <2>4, <2>5
<1>4. CASE listed \ {e} = {} /\ GoCard(e, "rmread") /\ cardLock' = e
  <2>1. cardPc' \in Pcs /\ Goes(e, "rmread")
    BY <1>4, GoEffect DEF CardAwaits
  <2>2. CardTypeOK'
    BY <1>1, <1>4, <2>1 DEF CardTypeOK, Pcs
  <2>3. ready = {}
    BY <1>2, <1>4 DEF CardTypeOK
  <2>4. Work(e)'
    BY <1>1, <2>1, <2>3 DEF Work, Goes
  <2>5. CardLockOK' /\ WorkOK' /\ FreeOK'
    BY <1>1, <1>4, <2>1, <2>4, HoldsStep DEF Holding
  <2>6. ListedOK'
    BY <1>1, <2>1 DEF ListedOK, Goes, Removing
  <2>7. GoneOK'
    BY <1>1, <2>1 DEF GoneOK, Goes, Ours
  <2> QED
    BY <2>2, <2>5, <2>6, <2>7
<1> QED
  BY <1>3, <1>4 DEF RemoveCard, Remaining

\* A set-up reads the resources.
LEMMA ReconcileStep ==
    ASSUME CardInv, NEW e \in Home, Reconcile(e)
    PROVE  CardInv'
<1> USE DEF CardInv
<1>1. /\ cardPc[e] = "read" /\ touched' = {}
      /\ UNCHANGED <<cards, lastCard, listed, overlapped>>
  BY DEF Reconcile
<1>2. cardPc[e] \in Holding /\ cardPc[e] \notin Removing /\ cardLock = e
  BY <1>1 DEF Holding, Removing, CardLockOK
<1>3. e \notin ready
  BY <1>1 DEF ListedOK
<1>4. \A i \in CardId : i > lastCard' => cards'[i] = "none"
  BY <1>1 DEF ListedOK
<1>5. Ours' = Ours /\ Ours \in SUBSET CardId /\ \A i \in Ours : cards[i] # "none"
  BY <1>1 DEF Ours
<1>6. Ours # {} => Min(Ours) \in Ours /\ Min(Ours) \in CardId
  BY <1>5, FirstOf
<1>7. ASSUME NEW where \in {"create", "update", "dedupe"}, GoCard(e, where),
             snapshot' \in Snapshots, Work(e)', UNCHANGED <<ready, attempt, cardLock>>
      PROVE  CardInv'
  <2>1. cardPc' \in Pcs /\ Goes(e, where)
    BY <1>7, GoEffect DEF CardAwaits
  <2>2. CardTypeOK'
    BY <1>1, <1>7, <2>1 DEF CardTypeOK, Pcs, Snapshots
  <2>3. where \in Holding /\ where \notin Removing
    BY DEF Holding, Removing
  <2>4. CardLockOK' /\ WorkOK' /\ FreeOK'
    BY <1>2, <1>7, <2>1, <2>3, HoldsStep
  <2>5. ListedOK' /\ GoneOK'
    BY <1>1, <1>2, <1>3, <1>4, <1>7, <2>1, <2>3, EnsuringStep
  <2> QED
    BY <2>2, <2>4, <2>5
<1>8. CASE Ours = {} /\ GoCard(e, "create") /\ UNCHANGED <<ready, snapshot, attempt, cardLock>>
  <2>1. Goes(e, "create")
    BY <1>8, GoEffect DEF CardAwaits
  <2>2. Work(e)'
    BY <1>5, <1>8, <2>1 DEF Work, Goes
  <2> QED
    BY <1>7, <1>8, <2>2 DEF CardTypeOK, Snapshots
<1>9. CASE /\ Ours # {} /\ snapshot' = [snapshot EXCEPT ![e] = Ours]
           /\ GoCard(e, "update") /\ UNCHANGED <<ready, attempt, cardLock>>
  <2>1. Goes(e, "update")
    BY <1>9, GoEffect DEF CardAwaits
  <2>2. snapshot' \in Snapshots /\ snapshot'[e] = Ours
    BY <1>5, <1>9 DEF CardTypeOK, Snapshots
  <2>3. Work(e)'
    BY <1>5, <1>9, <2>1, <2>2 DEF Work, Goes
  <2> QED
    BY <1>7, <1>9, <2>2, <2>3
<1>10. CASE /\ Ours # {} /\ cards[Min(Ours)] = "new" /\ Duplicates(Ours) # {}
            /\ snapshot' = [snapshot EXCEPT ![e] = Duplicates(Ours)]
            /\ GoCard(e, "dedupe") /\ UNCHANGED <<ready, attempt, cardLock>>
  <2>1. Goes(e, "dedupe")
    BY <1>10, GoEffect DEF CardAwaits
  <2>2. snapshot' \in Snapshots /\ snapshot'[e] = Ours \ {Min(Ours)}
    BY <1>5, <1>10 DEF CardTypeOK, Snapshots, Duplicates
  <2>3. /\ Min(Ours) \in CardId \ snapshot'[e] /\ cards'[Min(Ours)] = "new"
        /\ Ours' \subseteq snapshot'[e] \cup {Min(Ours)}
    BY <1>1, <1>5, <1>6, <1>10, <2>2
  <2>4. OneBeside(snapshot[e])'
    BY <2>3 DEF OneBeside
  <2>5. Work(e)'
    BY <1>10, <2>1, <2>2, <2>4 DEF Work, Goes, Duplicates
  <2> QED
    BY <1>7, <1>10, <2>2, <2>5
<1>11. CASE /\ Ours # {} /\ cards[Min(Ours)] = "new" /\ Duplicates(Ours) = {}
            /\ EnsureDone(e)
  <2>1. /\ cardLock' = NoHome /\ ready' = ready \cup {e}
        /\ attempt' \in Attempts /\ snapshot' \in Snapshots
        /\ cardPc' \in Pcs /\ Goes(e, "idle")
    BY <1>11, DoneEffect
  <2>2. e \in listed
    BY <1>1 DEF ListedOK
  <2>3. CardTypeOK'
    BY <1>1, <2>1, <2>2 DEF CardTypeOK, Pcs, Snapshots, Attempts
  <2>4. CardLockOK' /\ WorkOK'
    BY <1>2, <2>1, FreedStep DEF Holding
  <2>5. ListedOK' /\ GoneOK'
    BY <1>1, <1>2, <1>4, <2>1, EnsuringStep DEF Removing
  <2>6. Ours' \subseteq {Min(Ours)} /\ cards'[Min(Ours)] = "new" /\ Min(Ours) \in CardId
    BY <1>1, <1>5, <1>6, <1>11 DEF Duplicates
  <2>7. FreeOK'
    BY <2>6 DEF FreeOK
  <2> QED
    BY <2>3, <2>4, <2>5, <2>7
<1>12. \/ Ours = {} /\ GoCard(e, "create") /\ UNCHANGED <<ready, snapshot, attempt, cardLock>>
       \/ /\ Ours # {} /\ snapshot' = [snapshot EXCEPT ![e] = Ours]
          /\ GoCard(e, "update") /\ UNCHANGED <<ready, attempt, cardLock>>
       \/ /\ Ours # {} /\ cards[Min(Ours)] = "new" /\ Duplicates(Ours) # {}
          /\ snapshot' = [snapshot EXCEPT ![e] = Duplicates(Ours)]
          /\ GoCard(e, "dedupe") /\ UNCHANGED <<ready, attempt, cardLock>>
       \/ /\ Ours # {} /\ cards[Min(Ours)] = "new" /\ Duplicates(Ours) = {}
          /\ EnsureDone(e)
  <2>1. Ours # {} => cards[Min(Ours)] \in {"old", "new"}
    BY <1>5, <1>6 DEF CardTypeOK
  <2>2. CASE Ours = {}
    BY <2>2 DEF Reconcile
  <2>3. CASE Ours # {} /\ cards[Min(Ours)] = "old"
    BY <2>3 DEF Reconcile
  <2>4. CASE Ours # {} /\ cards[Min(Ours)] = "new" /\ Duplicates(Ours) # {}
    BY <2>4 DEF Reconcile
  <2>5. CASE Ours # {} /\ cards[Min(Ours)] = "new" /\ Duplicates(Ours) = {}
    BY <2>5 DEF Reconcile
  <2> QED
    BY <2>1, <2>2, <2>3, <2>4, <2>5
<1> QED
  BY <1>8, <1>9, <1>10, <1>11, <1>12

\* What the resources are after a step of the one with the lock.
CardsOK ==
    /\ cards \in AllCards /\ lastCard \in 0..MaxCards
    /\ touched \subseteq {"added", "deleted"}
    /\ \A i \in CardId : i > lastCard => cards[i] = "none"

\* A set-up that is done leaves one resource.
LEMMA DoneStep ==
    ASSUME CardInv, NEW e \in Home, EnsureDone(e),
           cardPc[e] \in Holding, cardPc[e] \notin Removing, CardsOK', OneBeside({})',
           UNCHANGED <<listed, overlapped>>
    PROVE  CardInv'
<1> USE DEF CardInv
<1>1. /\ cardLock' = NoHome /\ ready' = ready \cup {e}
      /\ attempt' \in Attempts /\ snapshot' \in Snapshots
      /\ cardPc' \in Pcs /\ Goes(e, "idle")
  BY DoneEffect
<1>2. e \in listed
  BY DEF ListedOK, Holding
<1>3. CardTypeOK'
  BY <1>1, <1>2 DEF CardTypeOK, Pcs, Snapshots, Attempts, CardsOK, AllCards
<1>4. CardLockOK' /\ WorkOK'
  BY <1>1, FreedStep DEF Holding
<1>5. ListedOK' /\ GoneOK'
  BY <1>1, EnsuringStep DEF Removing, CardsOK
<1>6. FreeOK'
  BY DEF FreeOK, OneBeside
<1> QED
  BY <1>3, <1>4, <1>5, <1>6

\* A set-up makes the resource.
LEMMA CreateStep ==
    ASSUME CardInv, NEW e \in Home, CreateCard(e)
    PROVE  CardInv'
<1> USE DEF CardInv
<1>1. /\ cardPc[e] = "create" /\ lastCard < MaxCards /\ lastCard' = lastCard + 1
      /\ cards' = [cards EXCEPT ![lastCard + 1] = "new"]
      /\ touched' = touched \ {"deleted"} /\ EnsureDone(e)
      /\ UNCHANGED <<listed, overlapped>>
  BY DEF CreateCard
<1>2. cardLock = e
  BY <1>1 DEF CardLockOK, Holding
<1>3. lastCard + 1 \in CardId /\ lastCard' \in 0..MaxCards
  BY <1>1 DEF CardTypeOK, CardId
<1>4. /\ cards' \in AllCards /\ cards'[lastCard + 1] = "new"
      /\ \A i \in CardId \ {lastCard + 1} : cards'[i] = cards[i]
  BY <1>1, <1>3 DEF CardTypeOK, AllCards
<1>5. CardsOK'
  <2>1. \A i \in CardId : i > lastCard' => cards'[i] = "none"
    <3> SUFFICES ASSUME NEW i \in CardId, i > lastCard'
                 PROVE  cards'[i] = "none"
      OBVIOUS
    <3>1. i > lastCard /\ i # lastCard + 1
      BY <1>1 DEF CardTypeOK, CardId
    <3> QED
      BY <1>4, <3>1 DEF ListedOK
  <2> QED
    BY <1>1, <1>3, <1>4, <2>1 DEF CardsOK, CardTypeOK
<1>6. "added" \notin touched' => Ours' \subseteq {lastCard + 1}
  <2>1. "added" \notin touched => Ours = {}
    BY <1>1, <1>2 DEF WorkOK, Work
  <2> QED
    BY <1>1, <1>4, <2>1 DEF Ours
<1>7. OneBeside({})'
  BY <1>1, <1>3, <1>4, <1>6 DEF OneBeside
<1> QED
  BY <1>1, <1>5, <1>7, DoneStep DEF Holding, Removing

\* A set-up that goes on with its writes.
LEMMA WritesStep ==
    ASSUME CardInv, NEW e \in Home, NEW where \in Holding \ Removing, Goes(e, where),
           cardPc' \in Pcs, snapshot' \in Snapshots, attempt' \in Attempts,
           cardPc[e] \in Holding, cardPc[e] \notin Removing, CardsOK', Work(e)',
           UNCHANGED <<listed, ready, overlapped, cardLock>>
    PROVE  CardInv'
<1> USE DEF CardInv
<1>1. cardLock = e /\ e \notin ready
  BY DEF CardLockOK, ListedOK, Holding
<1>2. CardTypeOK'
  BY DEF CardTypeOK, Pcs, Snapshots, Attempts, CardsOK, AllCards
<1>3. CardLockOK' /\ WorkOK' /\ FreeOK'
  BY <1>1, HoldsStep
<1>4. ListedOK' /\ GoneOK'
  BY <1>1, EnsuringStep DEF CardsOK
<1> QED
  BY <1>2, <1>3, <1>4

\* A set-up brings the first resource to this version, or reads them again, or
\* has failed.
LEMMA UpdateStep ==
    ASSUME CardInv, NEW e \in Home, UpdateCard(e)
    PROVE  CardInv'
<1> USE DEF CardInv
<1> DEFINE first == Min(snapshot[e])
           rest == Duplicates(snapshot[e])
<1>1. cardPc[e] = "update" /\ UNCHANGED <<lastCard, listed, overlapped>>
  BY DEF UpdateCard
<1>2. cardLock = e /\ Work(e)
  BY <1>1 DEF CardLockOK, Holding, WorkOK
<1>3. snapshot[e] # {} /\ snapshot[e] \in SUBSET CardId
  BY <1>1, <1>2 DEF Work, CardTypeOK
<1>4. first \in snapshot[e] /\ first \in CardId
  BY <1>3, FirstOf
<1>5. rest = snapshot[e] \ {first}
  BY DEF Duplicates
<1>6. "added" \notin touched => Ours \subseteq rest \cup {first}
  BY <1>1, <1>2, <1>5 DEF Work
<1>7. cardPc[e] \in Holding /\ cardPc[e] \notin Removing
  BY <1>1 DEF Holding, Removing
<1>8. CASE /\ cards[first] # "none" /\ cards' = [cards EXCEPT ![first] = "new"]
           /\ touched' = touched \ {"deleted"}
           /\ IF rest = {} THEN EnsureDone(e)
              ELSE /\ snapshot' = [snapshot EXCEPT ![e] = rest]
                   /\ GoCard(e, "dedupe")
                   /\ UNCHANGED <<ready, attempt, cardLock>>
  <2> HIDE DEF first, rest
  <2>1. /\ cards' \in AllCards /\ cards'[first] = "new"
        /\ \A i \in CardId \ {first} : cards'[i] = cards[i]
    BY <1>4, <1>8 DEF CardTypeOK, AllCards
  <2>2. first <= lastCard
    BY <1>4, <1>8 DEF ListedOK, CardTypeOK, CardId
  <2>3. CardsOK'
    <3>1. \A i \in CardId : i > lastCard' => cards'[i] = "none"
      BY <1>1, <1>4, <2>1, <2>2 DEF ListedOK, CardTypeOK, CardId
    <3> QED
      BY <1>1, <1>8, <2>1, <3>1 DEF CardsOK, CardTypeOK
  <2>4. "added" \notin touched' => Ours' \subseteq rest \cup {first}
    BY <1>4, <1>6, <1>8, <2>1 DEF Ours
  <2>5. CASE rest = {} /\ EnsureDone(e)
    <3>1. OneBeside({})'
      BY <1>4, <1>8, <2>1, <2>4, <2>5 DEF OneBeside
    <3> QED
      BY <1>1, <1>7, <2>3, <2>5, <3>1, DoneStep
  <2>6. CASE /\ rest # {} /\ snapshot' = [snapshot EXCEPT ![e] = rest]
             /\ GoCard(e, "dedupe") /\ UNCHANGED <<ready, attempt, cardLock>>
    <3>1. cardPc' \in Pcs /\ Goes(e, "dedupe")
      BY <2>6, GoEffect DEF CardAwaits
    <3>2. snapshot' \in Snapshots /\ snapshot'[e] = rest /\ attempt' \in Attempts
      BY <1>3, <1>5, <2>6 DEF CardTypeOK, Snapshots, Attempts
    <3>3. OneBeside(snapshot[e])'
      BY <1>4, <1>5, <1>8, <2>1, <2>4, <3>2 DEF OneBeside
    <3>4. Work(e)'
      BY <2>6, <3>1, <3>2, <3>3 DEF Work, Goes
    <3> QED
      BY <1>1, <1>7, <2>3, <2>6, <3>1, <3>2, <3>4, WritesStep DEF Holding, Removing
  <2> QED
    BY <1>8, <2>5, <2>6
<1>9. CASE /\ attempt[e] < MaxAttempts /\ attempt' = [attempt EXCEPT ![e] = @ + 1]
           /\ snapshot' = [snapshot EXCEPT ![e] = {}]
           /\ GoCard(e, "read")
           /\ UNCHANGED <<cards, touched, ready, cardLock>>
  <2>1. cardPc' \in Pcs /\ Goes(e, "read")
    BY <1>9, GoEffect DEF CardAwaits
  <2>2. snapshot' \in Snapshots
    BY <1>9 DEF CardTypeOK, Snapshots
  <2>3. attempt' \in Attempts
    <3>1. attempt[e] + 1 \in 0..MaxAttempts
      BY <1>9 DEF CardTypeOK
    <3> QED
      BY <1>9, <3>1 DEF CardTypeOK, Attempts
  <2>4. CardsOK'
    BY <1>1, <1>9 DEF CardsOK, CardTypeOK, ListedOK, AllCards
  <2>5. Work(e)'
    BY <2>1 DEF Work, Goes
  <2> QED
    BY <1>1, <1>7, <1>9, <2>1, <2>2, <2>3, <2>4, <2>5, WritesStep DEF Holding, Removing
<1>10. CASE /\ Release(e, "idle") /\ touched' = {"added", "deleted"}
            /\ UNCHANGED <<cards, ready>>
  <2>1. /\ cardLock' = NoHome
        /\ attempt' \in Attempts /\ snapshot' \in Snapshots
        /\ cardPc' \in Pcs /\ Goes(e, "idle")
    BY <1>10, ReleaseEffect DEF CardAwaits
  <2>2. CardTypeOK'
    BY <1>1, <1>10, <2>1 DEF CardTypeOK, Pcs, Snapshots, Attempts
  <2>3. CardLockOK' /\ WorkOK'
    BY <1>7, <2>1, FreedStep DEF Holding
  <2>4. \A i \in CardId : i > lastCard' => cards'[i] = "none"
    BY <1>1, <1>10 DEF ListedOK
  <2>5. ListedOK' /\ GoneOK'
    BY <1>1, <1>7, <1>10, <2>1, <2>4, EnsuringStep DEF Removing
  <2>6. FreeOK'
    BY <1>10 DEF FreeOK
  <2> QED
    BY <2>2, <2>3, <2>5, <2>6
<1> QED
  BY <1>8, <1>9, <1>10 DEF UpdateCard

\* A set-up deletes a duplicate.
LEMMA DedupeStep ==
    ASSUME CardInv, NEW e \in Home, Dedupe(e)
    PROVE  CardInv'
<1> USE DEF CardInv
<1>1. /\ cardPc[e] = "dedupe" /\ DeleteNext(e)
      /\ UNCHANGED <<lastCard, listed, touched, overlapped>>
  BY DEF Dedupe
<1>2. cardLock = e /\ Work(e) /\ cardPc[e] \in Holding /\ cardPc[e] \notin Removing
  BY <1>1 DEF CardLockOK, Holding, Removing, WorkOK
<1>3. snapshot[e] # {} /\ OneBeside(snapshot[e])
  BY <1>1, <1>2 DEF Work
<1>4. cards' \in AllCards /\ \A i \in CardId \ snapshot[e] : cards'[i] = cards[i]
  BY <1>1, <1>3, DeleteEffect
<1>5. PICK m \in snapshot[e] :
        /\ cards'[m] = "none"
        /\ \A i \in CardId \ {m} : cards'[i] = cards[i]
        /\ \/ /\ snapshot'[e] = snapshot[e] \ {m} /\ snapshot'[e] # {}
              /\ snapshot' \in Snapshots
              /\ UNCHANGED <<ready, cardPc, attempt, cardLock>>
           \/ snapshot[e] = {m} /\ EnsureDone(e)
  BY <1>1, <1>3, DeleteEffect
<1>6. CardsOK'
  <2>1. \A i \in CardId : i > lastCard' => cards'[i] = "none"
    BY <1>1, <1>5 DEF ListedOK
  <2> QED
    BY <1>1, <1>4, <2>1 DEF CardsOK, CardTypeOK
<1>7. PICK k \in CardId \ snapshot[e] :
        /\ "deleted" \notin touched => cards[k] = "new"
        /\ "added" \notin touched => Ours \subseteq snapshot[e] \cup {k}
  BY <1>3 DEF OneBeside
<1>8. cards'[k] = cards[k]
  BY <1>4
<1>9. "added" \notin touched => Ours' \subseteq (snapshot[e] \ {m}) \cup {k}
  BY <1>5, <1>7 DEF Ours
<1>10. CASE snapshot[e] = {m} /\ EnsureDone(e)
  <2>1. OneBeside({})'
    BY <1>1, <1>7, <1>8, <1>9, <1>10 DEF OneBeside
  <2> QED
    BY <1>1, <1>2, <1>6, <1>10, <2>1, DoneStep
<1>11. CASE /\ snapshot'[e] = snapshot[e] \ {m} /\ snapshot'[e] # {}
            /\ snapshot' \in Snapshots
            /\ UNCHANGED <<ready, cardPc, attempt, cardLock>>
  <2>1. OneBeside(snapshot[e])'
    BY <1>1, <1>7, <1>8, <1>9, <1>11 DEF OneBeside
  <2>2. Work(e)'
    BY <1>1, <1>11, <2>1 DEF Work
  <2>3. Goes(e, "dedupe") /\ cardPc' \in Pcs /\ attempt' \in Attempts
    BY <1>1, <1>11 DEF Goes, Pcs, Attempts, CardTypeOK
  <2> QED
    BY <1>1, <1>2, <1>6, <1>11, <2>2, <2>3, WritesStep DEF Holding, Removing
<1> QED
  BY <1>5, <1>10, <1>11

\* A removal that is through with the resources leaves none.
LEMMA HookedStep ==
    ASSUME CardInv, NEW e \in Home, Release(e, "hooked"),
           cardPc[e] \in {"rmread", "rmdelete"}, CardsOK',
           "added" \notin touched' => Ours' = {},
           UNCHANGED <<listed, ready, overlapped>>
    PROVE  CardInv'
<1> USE DEF CardInv
<1>1. /\ cardLock' = NoHome
      /\ attempt' \in Attempts /\ snapshot' \in Snapshots
      /\ cardPc' \in Pcs /\ Goes(e, "hooked")
  BY ReleaseEffect DEF CardAwaits
<1>2. /\ cardPc[e] \in Holding /\ cardPc[e] \in Removing /\ "hooked" \notin Holding
      /\ e \in listed /\ e \notin ready
  BY DEF Holding, Removing, ListedOK
<1>3. cardLock = e
  BY <1>2 DEF CardLockOK
<1>4. ready = {}
  BY <1>3 DEF WorkOK, Work
<1>5. CardTypeOK'
  BY <1>1 DEF CardTypeOK, Pcs, Snapshots, Attempts, CardsOK, AllCards
<1>6. CardLockOK' /\ WorkOK'
  BY <1>1, <1>2, FreedStep
<1>7. FreeOK'
  BY <1>4 DEF FreeOK
<1>8. \A o \in Home : cardPc'[o] \in Removing => cardPc[o] \in Removing
  BY <1>1, <1>2 DEF Goes
<1>9. ListedOK'
  <2>1. \A o \in Home : cardPc'[o] # "idle" => o \in listed' /\ o \notin ready'
    BY <1>1, <1>2 DEF ListedOK, Goes
  <2>2. ~overlapped' => \A a, o \in Home : {cardPc'[a], cardPc'[o]} \subseteq Removing => a = o
    BY <1>8 DEF ListedOK
  <2> QED
    BY <2>1, <2>2 DEF ListedOK, CardsOK
<1>10. GoneOK'
  <2>1. ~overlapped => \A o \in Home : cardPc'[o] = "hooked" => o = e
    BY <1>2, <1>8 DEF ListedOK, Removing
  <2> QED
    BY <1>2, <2>1 DEF GoneOK
<1> QED
  BY <1>5, <1>6, <1>7, <1>9, <1>10

\* A removal that goes on with its deletions.
LEMMA DeletesStep ==
    ASSUME CardInv, NEW e \in Home, Goes(e, "rmdelete"),
           cardPc' \in Pcs, snapshot' \in Snapshots, attempt' \in Attempts,
           cardPc[e] \in {"rmread", "rmdelete"}, CardsOK',
           snapshot'[e] # {}, "added" \notin touched' => Ours' \subseteq snapshot'[e],
           UNCHANGED <<listed, ready, overlapped, cardLock>>
    PROVE  CardInv'
<1> USE DEF CardInv
<1>1. /\ cardPc[e] \in Holding /\ cardPc[e] \in Removing
      /\ e \in listed /\ e \notin ready
  BY DEF Holding, Removing, ListedOK
<1>2. cardLock = e
  BY <1>1 DEF CardLockOK
<1>3. ready = {}
  BY <1>2 DEF WorkOK, Work
<1>4. CardTypeOK'
  BY DEF CardTypeOK, Pcs, Snapshots, Attempts, CardsOK, AllCards
<1>5. Work(e)'
  BY <1>3 DEF Work, Goes
<1>6. CardLockOK' /\ WorkOK' /\ FreeOK'
  BY <1>1, <1>2, <1>5, HoldsStep DEF Holding
<1>7. \A o \in Home : cardPc'[o] \in Removing => cardPc[o] \in Removing
  BY <1>1 DEF Goes
<1>8. ListedOK'
  <2>1. \A o \in Home : cardPc'[o] # "idle" => o \in listed' /\ o \notin ready'
    BY <1>1 DEF ListedOK, Goes
  <2>2. ~overlapped' => \A a, o \in Home : {cardPc'[a], cardPc'[o]} \subseteq Removing => a = o
    BY <1>7 DEF ListedOK
  <2> QED
    BY <2>1, <2>2 DEF ListedOK, CardsOK
<1>9. GoneOK'
  <2>1. ~overlapped => \A o \in Home : cardPc'[o] # "hooked"
    BY <1>1, <1>7 DEF ListedOK, Removing, Goes
  <2> QED
    BY <1>1, <2>1 DEF GoneOK
<1> QED
  BY <1>4, <1>6, <1>8, <1>9

\* The removal of the last entry reads the resources and deletes them all.
LEMMA RemoveAllStep ==
    ASSUME CardInv, NEW e \in Home, RemoveAll(e)
    PROVE  CardInv'
<1> USE DEF CardInv
<1>1. UNCHANGED <<lastCard, listed, overlapped>>
  BY DEF RemoveAll
<1>2. CASE /\ cardPc[e] = "rmread" /\ touched' = {} /\ UNCHANGED <<cards, ready>>
           /\ IF Ours = {} THEN Release(e, "hooked")
              ELSE /\ snapshot' = [snapshot EXCEPT ![e] = Ours]
                   /\ GoCard(e, "rmdelete")
                   /\ UNCHANGED <<attempt, cardLock>>
  <2>1. CardsOK'
    BY <1>1, <1>2 DEF CardsOK, CardTypeOK, ListedOK, AllCards
  <2>2. Ours' = Ours /\ Ours \in SUBSET CardId
    BY <1>2 DEF Ours
  <2>3. CASE Ours = {} /\ Release(e, "hooked")
    BY <1>1, <1>2, <2>1, <2>2, <2>3, HookedStep
  <2>4. CASE /\ Ours # {} /\ snapshot' = [snapshot EXCEPT ![e] = Ours]
             /\ GoCard(e, "rmdelete") /\ UNCHANGED <<attempt, cardLock>>
    <3>1. cardPc' \in Pcs /\ Goes(e, "rmdelete")
      BY <2>4, GoEffect DEF CardAwaits
    <3>2. snapshot' \in Snapshots /\ snapshot'[e] = Ours /\ attempt' \in Attempts
      BY <2>2, <2>4 DEF CardTypeOK, Snapshots, Attempts
    <3> QED
      BY <1>1, <1>2, <2>1, <2>2, <2>4, <3>1, <3>2, DeletesStep
  <2> QED
    BY <1>2, <2>3, <2>4
<1>3. CASE cardPc[e] = "rmdelete" /\ DeleteNext(e) /\ UNCHANGED touched
  <2>1. cardLock = e
    BY <1>3 DEF CardLockOK, Holding
  <2>2. snapshot[e] # {} /\ ("added" \notin touched => Ours \subseteq snapshot[e])
    BY <1>3, <2>1 DEF WorkOK, Work
  <2>3. PICK m \in snapshot[e] :
          /\ cards'[m] = "none"
          /\ \A i \in CardId \ {m} : cards'[i] = cards[i]
          /\ \/ /\ snapshot'[e] = snapshot[e] \ {m} /\ snapshot'[e] # {}
                /\ snapshot' \in Snapshots
                /\ UNCHANGED <<ready, cardPc, attempt, cardLock>>
             \/ snapshot[e] = {m} /\ Release(e, "hooked") /\ UNCHANGED ready
    BY <1>3, <2>2, DeleteEffect
  <2>4. cards' \in AllCards
    BY <1>3, <2>2, DeleteEffect
  <2>5. CardsOK'
    <3>1. \A i \in CardId : i > lastCard' => cards'[i] = "none"
      BY <1>1, <2>3 DEF ListedOK
    <3> QED
      BY <1>1, <1>3, <2>4, <3>1 DEF CardsOK, CardTypeOK
  <2>6. "added" \notin touched' => Ours' \subseteq snapshot[e] \ {m}
    BY <1>3, <2>2, <2>3 DEF Ours
  <2>7. CASE snapshot[e] = {m} /\ Release(e, "hooked") /\ UNCHANGED ready
    BY <1>1, <1>3, <2>5, <2>6, <2>7, HookedStep
  <2>8. CASE /\ snapshot'[e] = snapshot[e] \ {m} /\ snapshot'[e] # {}
             /\ snapshot' \in Snapshots
             /\ UNCHANGED <<ready, cardPc, attempt, cardLock>>
    <3>1. Goes(e, "rmdelete") /\ cardPc' \in Pcs /\ attempt' \in Attempts
      BY <1>3, <2>8 DEF Goes, Pcs, Attempts, CardTypeOK
    <3> QED
      BY <1>1, <1>3, <2>5, <2>6, <2>8, <3>1, DeletesStep
  <2> QED
    BY <2>3, <2>7, <2>8
<1> QED
  BY <1>2, <1>3 DEF RemoveAll

-----------------------------------------------------------------------------
(* The user, and a new version. *)

\* The user adds a resource or deletes one, and is noticed.
LEMMA UserStep ==
    ASSUME CardInv, UserCard
    PROVE  CardInv'
<1> USE DEF CardInv
<1>1. UNCHANGED <<listed, ready, cardPc, snapshot, attempt, cardLock, overlapped>>
  BY DEF UserCard
<1>2. CASE /\ lastCard < MaxCards /\ lastCard' = lastCard + 1
           /\ cards' = [cards EXCEPT ![lastCard + 1] = "old"]
           /\ touched' = touched \cup {"added"}
  <2>1. lastCard + 1 \in CardId /\ lastCard' \in 0..MaxCards
    BY <1>2 DEF CardTypeOK, CardId
  <2>2. /\ cards' \in AllCards
        /\ \A i \in CardId \ {lastCard + 1} : cards'[i] = cards[i]
        /\ cards[lastCard + 1] = "none"
    BY <1>2, <2>1 DEF CardTypeOK, AllCards, ListedOK
  <2>3. CardTypeOK'
    BY <1>1, <1>2, <2>1, <2>2 DEF CardTypeOK, AllCards
  <2>4. ListedOK'
    <3>1. \A i \in CardId : i > lastCard' => cards'[i] = "none"
      BY <1>2, <2>2 DEF ListedOK, CardTypeOK, CardId
    <3> QED
      BY <1>1, <3>1 DEF ListedOK
  <2>5. \A k \in CardId : cards[k] = "new" => cards'[k] = "new"
    BY <2>2
  <2>6. WorkOK'
    BY <1>1, <1>2, <2>5 DEF WorkOK, Work, OneBeside
  <2>7. FreeOK'
    BY <1>1, <1>2, <2>5 DEF FreeOK
  <2>8. CardLockOK' /\ GoneOK'
    BY <1>1, <1>2 DEF CardLockOK, GoneOK
  <2> QED
    BY <2>3, <2>4, <2>6, <2>7, <2>8
<1>3. CASE /\ \E i \in Ours : cards' = [cards EXCEPT ![i] = "none"]
           /\ touched' = touched \cup {"deleted"} /\ UNCHANGED lastCard
  <2>1. PICK d \in Ours : cards' = [cards EXCEPT ![d] = "none"]
    BY <1>3
  <2>2. d \in CardId
    BY DEF Ours
  <2>3. /\ cards' \in AllCards
        /\ \A i \in CardId : cards'[i] = cards[i] \/ cards'[i] = "none"
    BY <2>1, <2>2 DEF CardTypeOK, AllCards
  <2>4. Ours' \subseteq Ours
    BY <2>3 DEF Ours
  <2>5. CardTypeOK'
    BY <1>1, <1>3, <2>3 DEF CardTypeOK, AllCards
  <2>6. ListedOK'
    BY <1>1, <1>3, <2>3 DEF ListedOK
  <2>7. WorkOK'
    <3> SUFFICES ASSUME NEW e \in Home, cardLock = e
                 PROVE  Work(e)'
      BY <1>1 DEF WorkOK
    <3>1. Work(e)
      BY DEF WorkOK
    <3>2. OneBeside(snapshot[e]) => OneBeside(snapshot[e])'
      BY <1>1, <1>3, <2>4 DEF OneBeside
    <3> QED
      BY <1>1, <1>3, <2>4, <3>1, <3>2 DEF Work
  <2>8. FreeOK'
    BY <1>1, <1>3, <2>4 DEF FreeOK
  <2>9. CardLockOK' /\ GoneOK'
    BY <1>1, <1>3, <2>4 DEF CardLockOK, GoneOK
  <2> QED
    BY <2>5, <2>6, <2>7, <2>8, <2>9
<1> QED
  BY <1>2, <1>3 DEF UserCard

\* A restart with a new version leaves only the resources and the list.
LEMMA UpgradeStep ==
    ASSUME CardInv, Upgrade
    PROVE  CardInv'
<1> USE DEF CardInv
<1>1. /\ ready' = {} /\ cardLock' = NoHome
      /\ \A e \in Home : cardPc'[e] = "idle"
      /\ UNCHANGED <<lastCard, listed, touched, overlapped>>
  BY DEF Upgrade
<1>2. \A i \in CardId : cards'[i] # "none" <=> cards[i] # "none"
  BY DEF Upgrade
<1>3. Ours' = Ours
  BY <1>2 DEF Ours
<1>4. CardTypeOK'
  <2>1. cards' \in AllCards
    BY DEF Upgrade, CardTypeOK, AllCards
  <2>2. cardPc' \in Pcs /\ snapshot' \in Snapshots /\ attempt' \in Attempts
    BY DEF Upgrade, Pcs, Snapshots, Attempts, CardAwaits
  <2> QED
    BY <1>1, <2>1, <2>2 DEF CardTypeOK, AllCards, Pcs, Snapshots, Attempts
<1>5. ListedOK'
  BY <1>1, <1>2 DEF ListedOK, Removing
<1>6. CardLockOK' /\ WorkOK' /\ FreeOK'
  BY <1>1 DEF CardLockOK, WorkOK, FreeOK, Holding
<1>7. GoneOK'
  BY <1>1, <1>3 DEF GoneOK
<1> QED
  BY <1>4, <1>5, <1>6, <1>7

-----------------------------------------------------------------------------
(* The theorem. *)

\* At the start nobody has an entry, and what is there counts as added.
LEMMA CardInvAtInit == CardInit => CardInv
<1> SUFFICES ASSUME CardInit
             PROVE  CardInv
  OBVIOUS
<1>1. CardTypeOK
  <2>1. overlapped \in BOOLEAN
    BY Zenon DEF CardInit
  <2>2. lastCard \in 0..MaxCards
    BY DEF CardInit
  <2>3. cards \in AllCards
    BY DEF CardInit, AllCards
  <2>4. cardPc \in Pcs /\ snapshot \in Snapshots /\ attempt \in Attempts
    BY DEF CardInit, Pcs, Snapshots, Attempts, CardAwaits
  <2> QED
    BY <2>1, <2>2, <2>3, <2>4 DEF CardInit, CardTypeOK, AllCards, Pcs, Snapshots, Attempts
<1>2. ListedOK
  <2>1. \A i \in CardId : i > lastCard => cards[i] = "none"
    <3> SUFFICES ASSUME NEW i \in CardId, i > lastCard
                 PROVE  cards[i] = "none"
      OBVIOUS
    <3>1. ~(i <= lastCard)
      BY <1>1 DEF CardTypeOK, CardId
    <3> QED
      BY <3>1 DEF CardInit
  <2> QED
    BY <2>1 DEF CardInit, ListedOK, Removing
<1>3. CardLockOK /\ WorkOK /\ FreeOK /\ GoneOK
  BY DEF CardInit, CardLockOK, WorkOK, FreeOK, GoneOK, Holding
<1> QED
  BY <1>1, <1>2, <1>3 DEF CardInv

\* Every step keeps the invariant.
LEMMA CardInvStep == CardInv /\ [CardNext]_cardVars => CardInv'
<1> SUFFICES ASSUME CardInv, [CardNext]_cardVars
             PROVE  CardInv'
  OBVIOUS
<1>1. CASE UNCHANGED cardVars
  BY <1>1 DEF cardVars, CardInv, CardTypeOK, CardLockOK, ListedOK, WorkOK, Work, OneBeside,
              FreeOK, GoneOK, Ours
<1>2. CASE CardNext
  BY <1>2, SetUpStep, EnsureStep, ReconcileStep, CreateStep, UpdateStep, DedupeStep,
     RemoveStep, RemoveCardStep, RemoveAllStep, UnlistStep, UserStep, UpgradeStep DEF CardNext
<1> QED
  BY <1>1, <1>2

\* Every reachable state satisfies it.
LEMMA CardInvariance == CardSpec => []CardInv
BY CardInvAtInit, CardInvStep, PTL DEF CardSpec

\* Every set-up that is done leaves one resource of the card, and the removal of
\* the last entry none, but for what the user did since, for any number of
\* entries, resources and attempts (async_ensure_card_resource,
\* async_remove_card_resource).
THEOREM OneCardForAll == CardSpec => []OneCard
<1>1. CardInv => OneCard
  <2> SUFFICES ASSUME CardInv
               PROVE  OneCard
    OBVIOUS
  <2> USE DEF CardInv
  <2>1. ASSUME ready # {}, cardLock = NoHome, "deleted" \notin touched
        PROVE  \E i \in Ours : cards[i] = "new"
    BY <2>1 DEF FreeOK, Ours
  <2>2. ASSUME ready # {}, cardLock = NoHome, "added" \notin touched
        PROVE  Cardinality(Ours) <= 1
    BY <2>2, AtMostOne DEF FreeOK
  <2> QED
    BY <2>1, <2>2 DEF OneCard, OneWhileSetUp, GoneOK
<1> QED
  BY <1>1, CardInvariance, PTL

=============================================================================
