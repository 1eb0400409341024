----------------------------- MODULE Memory_proofs -----------------------------
(***************************************************************************)
(* Proofs about the remembered facts: Memory, for any finite number of     *)
(* calls, of users and of texts, any MAX_FACTS and any number of reloads   *)
(* and restarts.                                                           *)
(***************************************************************************)
EXTENDS Memory, FiniteSetTheorems, SequenceTheorems, TLAPS

USE MemoryConstants

-----------------------------------------------------------------------------
(* What is known of the facts and of the calls. *)

Owners == User \cup {NoUser}
Bounded(F) == \A o \in Owners : Cardinality(Set(F, o)) <= MaxFacts

\* A fact that was ever made is stored, listed, written, removed or gone.
Seen(f) ==
    \/ f \in disk \/ f \in gone
    \/ \E g \in Gen : f \in facts[g]
    \/ \E c \in Call : f \in out[c] \/ f \in removed[c]

\* None of these texts was made a fact by the call, in the set of the owner.
Fresh(c, o, texts) ==
    \A i \in DOMAIN texts, f \in Fact :
       f.by = c /\ f.owner = o /\ f.text = texts[i] => ~Seen(f)

Distinct(texts) == \A i, j \in DOMAIN texts : texts[i] = texts[j] => i = j

\* A call makes each of its facts once: none before it starts, and none of what
\* it has still to remember before it comes to it.  What is left of a call is
\* for its own user's set.
CallsOK ==
    \A c \in Call :
       /\ pc[c] \in {"idle", "held"}
          => removed[c] = {} /\ \A f \in Fact : Seen(f) => f.by # c
       /\ pc[c] \in {"save", "writing"} => Fresh(c, owner[c], todo[c])
       /\ pc[c] \in {"held", "save", "writing"} /\ todo[c] # <<>> => owner[c] = user[c]
       /\ Distinct(todo[c])

\* What is to be written is the list as it is, by one call at a time for one
\* Memory, and no set of it is too large; nor is the file's, once written.  While
\* a cancelled call's write is not yet made, the file is doubtful.
StoreOK ==
    /\ \A g \in Gen : \A F \in data[g] : F = facts[g]
    /\ \A g \in Gen : g > gen => data[g] = {}
    /\ \A c \in Call : mem[c] <= gen
    /\ \A c, d \in Call :
          pc[c] = "writing" /\ pc[d] = "writing" /\ mem[c] = mem[d] => c = d
    /\ \A c \in Call : Bounded(out[c])
    /\ Bounded(disk) \/ \A f \in disk : f.by = Old
    /\ \A c \in Call : pc[c] = "orphan" => doubtful

UnderWayOf(c) == pc[c] \in {"save", "writing"}

\* While no Memory was replaced or dropped under a save: calls under way are at
\* the present one, ...
PresentOK ==
    /\ \A c \in Call : UnderWayOf(c) => loaded /\ mem[c] = gen
    /\ ~loaded => kept = {}
    /\ \A f \in kept : f.by # Old

\* ... what was told holds of the list and of what is written, ...
ToldOK ==
    /\ loaded => kept \subseteq facts[gen] /\ gone \cap facts[gen] = {}
    /\ \A c \in Call : pc[c] = "writing" => kept \subseteq out[c] /\ gone \cap out[c] = {}

\* ... what a call will tell holds of the list, and of what is written, ...
TellingOK ==
    /\ \A c \in Call : UnderWayOf(c) => removed[c] \cap facts[gen] = {}
    /\ \A c \in Call : pc[c] = "writing" =>
          /\ removed[c] \cap out[c] = {}
          /\ \A f \in facts[gen] : f.by = c => f \in out[c]
          /\ data[gen] = {} => out[c] = facts[gen]

\* ... and both hold of the file, if no cancelled write makes it doubtful.
FileOK ==
    /\ kept \subseteq disk /\ gone \cap disk = {}
    /\ loaded /\ data[gen] = {} /\ (\A c \in Call : pc[c] # "writing")
       => /\ facts[gen] \subseteq disk
          /\ \A c \in Call : pc[c] = "save" => removed[c] \cap disk = {}

PromisesOK == ~overlapped => PresentOK /\ ToldOK /\ TellingOK /\ (doubtful \/ FileOK)

MemoryInv == TypeOK /\ SetsBounded /\ CallsOK /\ StoreOK /\ PromisesOK

-----------------------------------------------------------------------------
(* Facts, sets of them, and what is left of a call. *)

\* There are finitely many facts: they are chosen from finite sets.
LEMMA FactsFinite == IsFiniteSet(Fact)
<1> DEFINE B == Call \cup {Old}
           O == User \cup {NoUser}
           P == (B \X O) \X Text
           f == [p \in P |-> [by |-> p[1][1], owner |-> p[1][2], text |-> p[2]]]
<1>1. IsFiniteSet(B) /\ IsFiniteSet(O)
  BY FS_Singleton, FS_Union
<1>2. IsFiniteSet(P)
  <2>1. IsFiniteSet(B \X O)
    BY <1>1, FS_Product
  <2> QED
    BY <2>1, FS_Product
<1>3. f \in Surjection(P, Fact)
  <2>1. f \in [P -> Fact]
    BY DEF Fact
  <2>2. ASSUME NEW x \in Fact
        PROVE  \E p \in P : f[p] = x
    <3>1. x.by \in B /\ x.owner \in O /\ x.text \in Text
          /\ x = [by |-> x.by, owner |-> x.owner, text |-> x.text]
      BY DEF Fact
    <3>2. <<<<x.by, x.owner>>, x.text>> \in P
      BY <3>1
    <3> QED
      BY <3>1, <3>2
  <2> QED
    BY <2>1, <2>2 DEF Surjection
<1> QED
  BY <1>2, <1>3, FS_Surjection

\* So any list of facts, and any set of it, is finite.
LEMMA SetFinite ==
    ASSUME NEW F \in SUBSET Fact, NEW o
    PROVE  IsFiniteSet(Set(F, o)) /\ Cardinality(Set(F, o)) \in Nat
<1>1. Set(F, o) \in SUBSET Fact
  BY DEF Set
<1> QED
  BY <1>1, FactsFinite, FS_Subset, FS_CardinalityType

\* A part of a list whose sets are bounded has bounded sets.
LEMMA PartBounded ==
    ASSUME NEW F \in SUBSET Fact, NEW E \in SUBSET F, Bounded(F)
    PROVE  Bounded(E)
<1>1. ASSUME NEW o \in Owners
      PROVE  Cardinality(Set(E, o)) <= MaxFacts
  <2>1. Set(E, o) \in SUBSET Set(F, o)
    BY DEF Set
  <2>2. IsFiniteSet(Set(F, o)) /\ Cardinality(Set(F, o)) \in Nat
    BY SetFinite
  <2>3. Cardinality(Set(E, o)) <= Cardinality(Set(F, o)) /\ Cardinality(Set(E, o)) \in Nat
    BY <2>1, <2>2, FS_Subset, FS_CardinalityType
  <2>4. Cardinality(Set(F, o)) <= MaxFacts
    BY DEF Bounded
  <2> QED
    BY <2>2, <2>3, <2>4
<1> QED
  BY <1>1 DEF Bounded

\* So has one to which a fact was added whose set was not full.
LEMMA AddedBounded ==
    ASSUME NEW F \in SUBSET Fact, NEW x \in Fact, Bounded(F), ~Full(F, x.owner)
    PROVE  Bounded(F \cup {x})
<1>1. ASSUME NEW o \in Owners
      PROVE  Cardinality(Set(F \cup {x}, o)) <= MaxFacts
  <2>1. IsFiniteSet(Set(F, o)) /\ Cardinality(Set(F, o)) \in Nat
    BY SetFinite
  <2>2. CASE x.owner = o
    <3>1. Set(F \cup {x}, o) = Set(F, o) \cup {x}
      BY <2>2 DEF Set
    <3>2. Cardinality(Set(F, o)) < MaxFacts
      BY <2>1, <2>2 DEF Full
    <3>3. Cardinality(Set(F, o) \cup {x}) = IF x \in Set(F, o) THEN Cardinality(Set(F, o))
                                           ELSE Cardinality(Set(F, o)) + 1
      BY <2>1, FS_AddElement, Zenon
    <3>4. \A n \in Nat : n < MaxFacts => n <= MaxFacts /\ n + 1 <= MaxFacts
      OBVIOUS
    <3> HIDE DEF Set
    <3> QED
      BY <2>1, <3>1, <3>2, <3>3, <3>4
  <2>3. CASE x.owner # o
    <3>1. Set(F \cup {x}, o) = Set(F, o)
      BY <2>3 DEF Set
    <3> QED
      BY <3>1 DEF Bounded
  <2> QED
    BY <2>2, <2>3
<1> QED
  BY <1>1 DEF Bounded

\* No list at all is bounded.
LEMMA NothingBounded == Bounded({})
<1>1. \A o \in Owners : Set({}, o) = {}
  BY DEF Set
<1> QED
  BY <1>1, FS_EmptySet DEF Bounded

\* What is loaded of a file is bounded, and all of a file that is bounded.
LEMMA LoadedFacts ==
    ASSUME NEW d \in SUBSET Fact, NEW F \in Loaded(d)
    PROVE  F \subseteq d /\ Bounded(F) /\ (Bounded(d) => F = d)
<1>1. F \subseteq d /\ Bounded(F)
  BY DEF Loaded, Bounded, Owners
<1>2. ASSUME Bounded(d), NEW f \in d
      PROVE  f \in F
  <2>1. f.owner \in Owners
    BY DEF Fact, Owners
  <2>2. Set(F, f.owner) = Set(d, f.owner)
    BY <1>2, <2>1 DEF Loaded, Bounded, Owners
  <2> QED
    BY <2>2 DEF Set
<1> QED
  BY <1>1, <1>2

\* What is left after one of the texts is the text that follows it, if any.
LEMMA LeftOver ==
    ASSUME NEW s \in Todos, NEW i \in DOMAIN s
    PROVE  \/ SubSeq(s, i + 1, Len(s)) = <<>>
           \/ /\ i = 1 /\ DOMAIN s = {1, 2} /\ s[2] \in Text
              /\ SubSeq(s, i + 1, Len(s)) = <<s[2]>>
<1>1. CASE s = <<>>
  BY <1>1
<1>2. CASE \E t \in Text : s = <<t>>
  <2>1. i = 1 /\ Len(s) = 1
    BY <1>2
  <2> QED
    BY <2>1, SubSeqEmpty
<1>3. CASE \E t, u \in Text : s = <<t, u>>
  <2>1. PICK t \in Text, u \in Text : s = <<t, u>>
    BY <1>3
  <2>2. Len(s) = 2 /\ i \in {1, 2} /\ DOMAIN s = {1, 2} /\ s[2] = u /\ s \in Seq(Text)
    BY <2>1
  <2>3. CASE i = 2
    BY <2>2, <2>3, SubSeqEmpty
  <2>4. CASE i = 1
    <3>1. SubSeq(s, 2, 2) = <<s[2]>> \o SubSeq(s, 3, 2)
      BY <2>2, SubSeqRecursiveFirst
    <3>2. SubSeq(s, 3, 2) = <<>>
      BY SubSeqEmpty
    <3>3. <<s[2]>> \o <<>> = <<s[2]>>
      BY <2>2
    <3>4. SubSeq(s, 2, 2) = <<s[2]>>
      BY <3>1, <3>2, <3>3, Zenon
    <3>5. i + 1 = 2 /\ s[2] \in Text
      BY <2>1, <2>4
    <3> QED
      BY <2>2, <2>4, <3>4, <3>5, Zenon
  <2> QED
    BY <2>2, <2>3, <2>4
<1> QED
  BY <1>1, <1>2, <1>3 DEF Todos

-----------------------------------------------------------------------------
(* What a call does to the list. *)

\* The types of what a call changes, and of the rest.
ListTypes ==
    /\ pc \in [Call -> {"idle", "held", "save", "writing", "orphan", "done"}]
    /\ todo \in [Call -> Todos]
    /\ facts \in [Gen -> SUBSET Fact]
    /\ data \in [Gen -> SUBSET SUBSET Fact]
    /\ kept \subseteq Fact
    /\ gone \subseteq Fact

RequestTypes ==
    /\ user \in [Call -> User \cup {NoUser}]
    /\ owner \in [Call -> User \cup {NoUser}]
    /\ forget \in [Call -> SUBSET Fact]
    /\ mem \in [Call -> Gen]
    /\ removed \in [Call -> SUBSET Fact]

EntryTypes ==
    /\ admins \subseteq User
    /\ gen \in Gen
    /\ loaded \in BOOLEAN
    /\ overlapped \in BOOLEAN

FileTypes == out \in [Call -> SUBSET Fact] /\ disk \subseteq Fact /\ doubtful \in BOOLEAN

\* The call tells, ...
Tells(c) ==
    /\ pc'[c] = "done"
    /\ facts'[mem'[c]] = facts[mem'[c]] /\ data'[mem'[c]] = data[mem'[c]]
    /\ kept' = kept \cup {f \in facts[mem'[c]] : f.by = c}
    /\ gone' = gone \cup removed'[c] /\ removed'[c] = removed[c]

\* ... or fails, ...
Stops(c) ==
    /\ pc'[c] = "done"
    /\ facts'[mem'[c]] = facts[mem'[c]] /\ data'[mem'[c]] = data[mem'[c]]
    /\ kept' = kept /\ gone' = gone
    /\ removed'[c] = removed[c]

\* ... or changes the list and has it saved, ...
Stores(c) ==
    /\ pc'[c] = "save"
    /\ data'[mem'[c]] = {facts'[mem'[c]]}
    /\ kept' = kept \ removed'[c] /\ gone' = gone
    /\ Fresh(c, owner'[c], todo'[c])
    /\ todo'[c] # <<>> => owner'[c] = user'[c]

\* ... which removes facts that are its user's to remove, or adds one.
Drops(c) ==
    /\ Stores(c)
    /\ pc[c] \in {"idle", "held"}
    /\ removed'[c] \subseteq Editable(facts[mem'[c]], user'[c])
    /\ facts'[mem'[c]] = facts[mem'[c]] \ removed'[c]

Allowed(c) ==
    \/ owner'[c] = user'[c]
    \/ owner'[c] = NoUser /\ MayEditHousehold(user'[c])

Adds(c, x) ==
    /\ Stores(c)
    /\ removed'[c] = removed[c]
    /\ x.by = c /\ x.owner = owner'[c] /\ ~Seen(x)
    /\ ~Full(facts[mem'[c]], x.owner)
    /\ facts'[mem'[c]] = facts[mem'[c]] \cup {x}
    /\ \A i \in DOMAIN todo'[c] : todo'[c][i] # x.text
    /\ pc[c] = "save" => todo'[c] # todo[c]
    /\ Allowed(c)

Outcome(c) ==
    /\ ListTypes'
    /\ \A g \in Gen \ {mem'[c]} : facts'[g] = facts[g] /\ data'[g] = data[g]
    /\ \A d \in Call \ {c} : pc'[d] = pc[d] /\ todo'[d] = todo[d]
    /\ Distinct(todo'[c])
    /\ Tells(c) \/ Stops(c) \/ Drops(c) \/ \E x \in Fact : Adds(c, x)

\* The types are of these four parts.
LEMMA MemoryTypeParts ==
    TypeOK <=> ListTypes /\ RequestTypes /\ EntryTypes /\ FileTypes
BY DEF TypeOK, ListTypes, RequestTypes, EntryTypes, FileTypes

\* The same of the next state.
LEMMA MemoryTypePartsNext ==
    TypeOK' <=> ListTypes' /\ RequestTypes' /\ EntryTypes' /\ FileTypes'
BY MemoryTypeParts, PTL

\* A list is saved in one Memory, and the call waits for it.
LEMMA SaveEffect ==
    ASSUME ListTypes, NEW c \in Call, NEW F \in SUBSET Fact, Save(c, F), mem'[c] \in Gen,
           removed'[c] \subseteq Fact
    PROVE  /\ pc' \in [Call -> {"idle", "held", "save", "writing", "orphan", "done"}]
           /\ facts' \in [Gen -> SUBSET Fact]
           /\ data' \in [Gen -> SUBSET SUBSET Fact]
           /\ kept' \subseteq Fact /\ gone' \subseteq Fact
           /\ pc'[c] = "save" /\ \A d \in Call \ {c} : pc'[d] = pc[d]
           /\ facts'[mem'[c]] = F /\ data'[mem'[c]] = {F}
           /\ \A g \in Gen \ {mem'[c]} : facts'[g] = facts[g] /\ data'[g] = data[g]
           /\ kept' = kept \ removed'[c] /\ gone' = gone
<1>1. pc' \in [Call -> {"idle", "held", "save", "writing", "orphan", "done"}]
      /\ pc'[c] = "save" /\ \A d \in Call \ {c} : pc'[d] = pc[d]
  BY DEF Save, ListTypes
<1>2. facts' \in [Gen -> SUBSET Fact] /\ facts'[mem'[c]] = F
      /\ \A g \in Gen \ {mem'[c]} : facts'[g] = facts[g]
  BY DEF Save, ListTypes
<1>3. data' \in [Gen -> SUBSET SUBSET Fact] /\ data'[mem'[c]] = {F}
      /\ \A g \in Gen \ {mem'[c]} : data'[g] = data[g]
  <2>1. {F} \in SUBSET SUBSET Fact
    OBVIOUS
  <2> QED
    BY <2>1 DEF Save, ListTypes
<1>4. kept' \subseteq Fact /\ gone' \subseteq Fact /\ kept' = kept \ removed'[c] /\ gone' = gone
  BY DEF Save, ListTypes
<1> QED
  BY <1>1, <1>2, <1>3, <1>4

\* A call that tells or fails is done, and leaves the list alone.
LEMMA DoneEffect ==
    ASSUME ListTypes, NEW c \in Call, Told(c) \/ Failed(c), mem'[c] \in Gen,
           removed'[c] \subseteq Fact, removed'[c] = removed[c]
    PROVE  /\ pc' \in [Call -> {"idle", "held", "save", "writing", "orphan", "done"}]
           /\ facts' = facts /\ data' = data
           /\ kept' \subseteq Fact /\ gone' \subseteq Fact
           /\ pc'[c] = "done" /\ \A d \in Call \ {c} : pc'[d] = pc[d]
           /\ Tells(c) \/ Stops(c)
<1>1. pc' \in [Call -> {"idle", "held", "save", "writing", "orphan", "done"}]
      /\ pc'[c] = "done" /\ \A d \in Call \ {c} : pc'[d] = pc[d]
  BY DEF Told, Failed, ListTypes
<1>2. facts' = facts /\ data' = data
  BY DEF Told, Failed
<1>3. CASE Told(c)
  <2>1. kept' = kept \cup {f \in facts[mem'[c]] : f.by = c} /\ gone' = gone \cup removed'[c]
    BY <1>3 DEF Told
  <2>2. {f \in facts[mem'[c]] : f.by = c} \subseteq Fact
    BY DEF ListTypes
  <2>3. kept' \subseteq Fact /\ gone' \subseteq Fact
    BY <2>1, <2>2 DEF ListTypes
  <2>4. Tells(c)
    BY <1>1, <1>2, <2>1 DEF Tells
  <2> QED
    BY <1>1, <1>2, <2>3, <2>4
<1>4. CASE Failed(c)
  <2>1. kept' = kept /\ gone' = gone
    BY <1>4 DEF Failed
  <2>2. Stops(c)
    BY <1>1, <1>2, <2>1 DEF Stops
  <2> QED
    BY <1>1, <1>2, <2>1, <2>2 DEF ListTypes
<1> QED
  BY <1>3, <1>4

\* What a call has left to remember, with nothing else of the calls changed.
LEMMA TodoEffect ==
    ASSUME ListTypes, NEW c \in Call, NEW s \in Todos, todo' = [todo EXCEPT ![c] = s]
    PROVE  /\ todo' \in [Call -> Todos]
           /\ todo'[c] = s /\ \A d \in Call \ {c} : todo'[d] = todo[d]
BY DEF ListTypes

\* Nothing left to remember.
LEMMA NothingLeft ==
    /\ <<>> \in Todos /\ Distinct(<<>>) /\ DOMAIN <<>> = {}
    /\ \A c, o : Fresh(c, o, <<>>)
BY DEF Todos, Distinct, Fresh

\* A call that remembers tells, fails, or adds one fact that never was.
LEMMA RememberEffect ==
    ASSUME ListTypes, NEW c \in Call, NEW texts \in Todos, Remember(c, texts),
           mem'[c] \in Gen, owner'[c] \in Owners,
           removed'[c] = removed[c], removed'[c] \subseteq Fact,
           Fresh(c, owner'[c], texts), Distinct(texts),
           texts # <<>> => Allowed(c),
           Len(texts) = 2 => owner'[c] = user'[c],
           pc[c] = "save" => texts = todo[c]
    PROVE  Outcome(c)
<1> DEFINE m == mem'[c]
           o == owner'[c]
           new == {i \in DOMAIN texts : ~Has(facts[m], o, texts[i])}
<1>1. CASE (Told(c) \/ Failed(c)) /\ todo' = [todo EXCEPT ![c] = <<>>]
  <2>1. todo' \in [Call -> Todos] /\ todo'[c] = <<>>
        /\ \A d \in Call \ {c} : todo'[d] = todo[d]
    BY <1>1, TodoEffect, NothingLeft
  <2>2. /\ pc' \in [Call -> {"idle", "held", "save", "writing", "orphan", "done"}]
        /\ facts' = facts /\ data' = data
        /\ kept' \subseteq Fact /\ gone' \subseteq Fact
        /\ \A d \in Call \ {c} : pc'[d] = pc[d]
        /\ Tells(c) \/ Stops(c)
    BY <1>1, DoneEffect
  <2>3. ListTypes'
    BY <2>1, <2>2 DEF ListTypes
  <2>4. Distinct(todo'[c])
    BY <2>1, NothingLeft
  <2> QED
    BY <2>1, <2>2, <2>3, <2>4 DEF Outcome
<1>2. CASE \E i \in new :
             /\ ~Full(facts[m], o)
             /\ Save(c, facts[m] \cup {[by |-> c, owner |-> o, text |-> texts[i]]})
             /\ todo' = [todo EXCEPT ![c] = SubSeq(texts, i + 1, Len(texts))]
  <2>1. PICK i \in new :
             /\ ~Full(facts[m], o)
             /\ Save(c, facts[m] \cup {[by |-> c, owner |-> o, text |-> texts[i]]})
             /\ todo' = [todo EXCEPT ![c] = SubSeq(texts, i + 1, Len(texts))]
    BY <1>2
  <2> DEFINE x == [by |-> c, owner |-> o, text |-> texts[i]]
             s == SubSeq(texts, i + 1, Len(texts))
  <2>2. i \in DOMAIN texts /\ texts[i] \in Text
    BY <2>1 DEF Todos
  <2>3. x \in Fact /\ x.by = c /\ x.owner = o /\ x.text = texts[i]
    BY <2>2 DEF Fact, Owners
  <2>4. s = <<>> \/ /\ i = 1 /\ DOMAIN texts = {1, 2} /\ texts[2] \in Text
                    /\ s = <<texts[2]>>
    BY <2>2, LeftOver
  <2>5. s \in Todos /\ Distinct(s) /\ Fresh(c, o, s) /\ (\A j \in DOMAIN s : s[j] # texts[i])
        /\ (s # <<>> => o = user'[c]) /\ s # texts /\ texts # <<>>
    <3>1. texts # <<>>
      BY <2>2
    <3>2. CASE s = <<>>
      BY <3>1, <3>2, NothingLeft
    <3>3. CASE i = 1 /\ DOMAIN texts = {1, 2} /\ texts[2] \in Text /\ s = <<texts[2]>>
      <4>1. s \in Todos
        BY <3>3 DEF Todos
      <4>2. texts[1] # texts[2] /\ 2 \in DOMAIN texts
        BY <3>3 DEF Distinct
      <4>3. DOMAIN s = {1} /\ s[1] = texts[2]
        BY <3>3
      <4>4. Len(texts) = 2
        BY <3>3 DEF Todos
      <4>5. s # texts
        BY <4>2, <4>3
      <4>6. Distinct(s)
        BY <4>3 DEF Distinct
      <4>7. Fresh(c, o, s)
        BY <4>2, <4>3 DEF Fresh
      <4>8. \A j \in DOMAIN s : s[j] # texts[i]
        BY <3>3, <4>2, <4>3
      <4> HIDE DEF s
      <4> QED
        BY <3>1, <4>1, <4>4, <4>5, <4>6, <4>7, <4>8
    <3> QED
      BY <2>4, <3>2, <3>3
  <2>6. ~Seen(x)
    BY <2>2, <2>3 DEF Fresh
  <2> HIDE DEF x, s
  <2>7. facts[m] \cup {x} \in SUBSET Fact
    BY <2>3 DEF ListTypes
  <2>8. Save(c, facts[m] \cup {x}) /\ todo' = [todo EXCEPT ![c] = s]
    BY <2>1 DEF x, s
  <2>9. /\ pc' \in [Call -> {"idle", "held", "save", "writing", "orphan", "done"}]
        /\ facts' \in [Gen -> SUBSET Fact]
        /\ data' \in [Gen -> SUBSET SUBSET Fact]
        /\ kept' \subseteq Fact /\ gone' \subseteq Fact
        /\ pc'[c] = "save" /\ \A d \in Call \ {c} : pc'[d] = pc[d]
        /\ facts'[m] = facts[m] \cup {x} /\ data'[m] = {facts[m] \cup {x}}
        /\ \A g \in Gen \ {m} : facts'[g] = facts[g] /\ data'[g] = data[g]
        /\ kept' = kept \ removed'[c] /\ gone' = gone
    BY <2>7, <2>8, SaveEffect
  <2>10. todo' \in [Call -> Todos] /\ todo'[c] = s /\ \A d \in Call \ {c} : todo'[d] = todo[d]
    BY <2>5, <2>8, TodoEffect
  <2>11. ListTypes'
    BY <2>9, <2>10 DEF ListTypes
  <2>12. Stores(c)
    BY <2>5, <2>9, <2>10 DEF Stores
  <2>13. Adds(c, x)
    <3>1. ~Full(facts[m], x.owner)
      BY <2>1, <2>3
    <3>2. \A j \in DOMAIN todo'[c] : todo'[c][j] # x.text
      BY <2>3, <2>5, <2>10
    <3>3. (pc[c] = "save" => todo'[c] # todo[c]) /\ Allowed(c)
      BY <2>5, <2>10
    <3> QED
      BY <2>3, <2>6, <2>9, <2>12, <3>1, <3>2, <3>3, Zenon DEF Adds
  <2> QED
    BY <2>3, <2>5, <2>9, <2>10, <2>11, <2>13 DEF Outcome
<1> QED
  BY <1>1, <1>2 DEF Remember

\* A call that removes facts first does that, or goes on as one that remembers.
LEMMA ForgetEffect ==
    ASSUME ListTypes, RequestTypes, NEW c \in Call, NEW ids, NEW texts \in Todos,
           Forget(c, ids, texts),
           pc[c] \in {"idle", "held"}, removed[c] = {},
           mem'[c] \in Gen, owner'[c] \in Owners,
           Fresh(c, owner'[c], texts), Distinct(texts),
           texts # <<>> => owner'[c] = user'[c]
    PROVE  /\ Outcome(c)
           /\ removed' \in [Call -> SUBSET Fact]
           /\ \A d \in Call \ {c} : removed'[d] = removed[d]
<1> DEFINE F == facts[mem'[c]]
           R == Removable(F, user'[c], ids)
<1>1. /\ F \in SUBSET Fact
      /\ R \subseteq Editable(F, user'[c]) /\ Editable(F, user'[c]) \subseteq F
  BY DEF ListTypes, Removable, Editable
<1>2. CASE /\ R # {}
           /\ removed' = [removed EXCEPT ![c] = R]
           /\ Save(c, F \ R)
           /\ todo' = [todo EXCEPT ![c] = texts]
  <2> HIDE DEF R, F
  <2>1. removed' \in [Call -> SUBSET Fact] /\ removed'[c] = R
        /\ \A d \in Call \ {c} : removed'[d] = removed[d]
    BY <1>1, <1>2 DEF RequestTypes
  <2>2. F \ R \in SUBSET Fact /\ removed'[c] \subseteq Fact
    BY <1>1, <2>1
  <2>3. /\ pc' \in [Call -> {"idle", "held", "save", "writing", "orphan", "done"}]
        /\ facts' \in [Gen -> SUBSET Fact]
        /\ data' \in [Gen -> SUBSET SUBSET Fact]
        /\ kept' \subseteq Fact /\ gone' \subseteq Fact
        /\ pc'[c] = "save" /\ \A d \in Call \ {c} : pc'[d] = pc[d]
        /\ facts'[mem'[c]] = F \ R /\ data'[mem'[c]] = {F \ R}
        /\ \A g \in Gen \ {mem'[c]} : facts'[g] = facts[g] /\ data'[g] = data[g]
        /\ kept' = kept \ removed'[c] /\ gone' = gone
    BY <1>2, <2>2, SaveEffect
  <2>4. todo' \in [Call -> Todos] /\ todo'[c] = texts
        /\ \A d \in Call \ {c} : todo'[d] = todo[d]
    BY <1>2, TodoEffect
  <2>5. ListTypes'
    BY <2>3, <2>4 DEF ListTypes
  <2>6. Stores(c)
    BY <2>3, <2>4 DEF Stores
  <2>7. Drops(c)
    <3>1. removed'[c] \subseteq Editable(facts[mem'[c]], user'[c])
      BY <1>1, <2>1 DEF F
    <3>2. facts'[mem'[c]] = facts[mem'[c]] \ removed'[c]
      BY <2>1, <2>3 DEF F
    <3> QED
      BY <2>6, <3>1, <3>2 DEF Drops
  <2> QED
    BY <2>1, <2>3, <2>4, <2>5, <2>7 DEF Outcome
<1>3. CASE R = {} /\ UNCHANGED removed /\ Remember(c, texts)
  <2>1. /\ removed'[c] = removed[c] /\ removed'[c] \subseteq Fact
        /\ removed' \in [Call -> SUBSET Fact]
    BY <1>3 DEF RequestTypes
  <2>2. pc[c] # "save" /\ (texts # <<>> => Allowed(c)) /\ (Len(texts) = 2 => texts # <<>>)
    BY DEF Allowed
  <2>3. Outcome(c)
    BY <1>3, <2>1, <2>2, RememberEffect
  <2> QED
    BY <1>3, <2>1, <2>3
<1> QED
  BY <1>2, <1>3 DEF Forget

\* A call acts on one Memory, and on nothing of other calls.
CallStep(c) ==
    /\ TypeOK'
    /\ UNCHANGED entryVars
    /\ Outcome(c)
    /\ \A d \in Call \ {c} : /\ user'[d] = user[d] /\ owner'[d] = owner[d]
                             /\ mem'[d] = mem[d] /\ removed'[d] = removed[d]

\* It begins with the present one.
Begins(c) ==
    /\ pc[c] \in {"idle", "held"} /\ loaded
    /\ mem'[c] = gen
    /\ UNCHANGED storeVars

\* It goes on with the one it has.
Continues(c) ==
    /\ pc[c] \in {"save", "writing"}
    /\ mem'[c] = mem[c] /\ removed'[c] = removed[c]
    /\ owner'[c] = owner[c] /\ user'[c] = user[c]

\* The three ways a call begins.
LEMMA BeginSteps ==
    ASSUME MemoryInv, NEW c \in Call, ServiceRemember(c) \/ ServiceForget(c) \/ ApplyChange(c)
    PROVE  CallStep(c) /\ Begins(c)
<1>1. ListTypes /\ RequestTypes /\ EntryTypes /\ FileTypes
  BY MemoryTypeParts DEF MemoryInv
<1>2. pc[c] \in {"idle", "held"} /\ loaded /\ mem' = [mem EXCEPT ![c] = gen]
      /\ UNCHANGED <<entryVars, storeVars>>
  BY DEF ServiceRemember, ServiceForget, ApplyChange, Start
<1>3. mem' \in [Call -> Gen] /\ mem'[c] = gen /\ \A d \in Call \ {c} : mem'[d] = mem[d]
  BY <1>1, <1>2 DEF RequestTypes, EntryTypes
<1>4. removed[c] = {} /\ \A f \in Fact : Seen(f) => f.by # c
  BY <1>2 DEF MemoryInv, CallsOK
<1>5. \A o, texts : Fresh(c, o, texts)
  BY <1>4 DEF Fresh
<1>6. EntryTypes' /\ FileTypes' /\ Begins(c)
  <2>1. EntryTypes'
    BY <1>1, <1>2 DEF EntryTypes, entryVars
  <2>2. FileTypes'
    BY <1>1, <1>2 DEF FileTypes, storeVars
  <2> QED
    BY <1>2, <1>3, <2>1, <2>2 DEF Begins
<1>7. ASSUME Outcome(c), RequestTypes',
             \A d \in Call \ {c} : user'[d] = user[d] /\ owner'[d] = owner[d]
                                   /\ removed'[d] = removed[d]
      PROVE  CallStep(c) /\ Begins(c)
  <2>1. TypeOK'
    BY <1>6, <1>7, MemoryTypePartsNext DEF Outcome
  <2> QED
    BY <1>2, <1>3, <1>6, <1>7, <2>1 DEF CallStep
<1>8. CASE ServiceRemember(c)
  <2>1. PICK u \in User \cup {NoUser}, household \in BOOLEAN, text \in Text :
           /\ user' = [user EXCEPT ![c] = u]
           /\ owner' = [owner EXCEPT ![c] = IF household THEN NoUser ELSE u]
           /\ IF household /\ ~MayEditHousehold(u)
              THEN Failed(c) /\ UNCHANGED todo
              ELSE Remember(c, <<text>>)
    BY <1>8 DEF ServiceRemember
  <2>2. user' \in [Call -> User \cup {NoUser}] /\ user'[c] = u
        /\ \A d \in Call \ {c} : user'[d] = user[d]
    BY <1>1, <2>1 DEF RequestTypes
  <2>3. owner' \in [Call -> User \cup {NoUser}] /\ owner'[c] = (IF household THEN NoUser ELSE u)
        /\ \A d \in Call \ {c} : owner'[d] = owner[d]
    <3>1. (IF household THEN NoUser ELSE u) \in User \cup {NoUser}
      OBVIOUS
    <3> QED
      BY <1>1, <2>1, <3>1 DEF RequestTypes
  <2>4. removed' = removed /\ forget' = forget /\ removed[c] \subseteq Fact
    BY <1>1, <1>8 DEF ServiceRemember, RequestTypes
  <2>5. RequestTypes'
    BY <1>1, <1>3, <2>2, <2>3, <2>4 DEF RequestTypes
  <2>6. Outcome(c)
    <3>1. CASE household /\ ~MayEditHousehold(u)
      <4>1. Failed(c) /\ todo' = todo
        BY <2>1, <3>1
      <4>2. /\ pc' \in [Call -> {"idle", "held", "save", "writing", "orphan", "done"}]
            /\ facts' = facts /\ data' = data
            /\ kept' \subseteq Fact /\ gone' \subseteq Fact
            /\ \A d \in Call \ {c} : pc'[d] = pc[d]
            /\ Tells(c) \/ Stops(c)
        BY <1>1, <1>3, <2>4, <4>1, DoneEffect
      <4>3. ListTypes'
        BY <1>1, <4>1, <4>2 DEF ListTypes
      <4>4. Distinct(todo'[c])
        BY <4>1 DEF MemoryInv, CallsOK
      <4> QED
        BY <4>1, <4>2, <4>3, <4>4 DEF Outcome
    <3>2. CASE ~(household /\ ~MayEditHousehold(u))
      <4>1. Remember(c, <<text>>)
        BY <2>1, <3>2
      <4>2. <<text>> \in Todos /\ Distinct(<<text>>) /\ Len(<<text>>) # 2
        BY DEF Todos, Distinct
      <4>3. Allowed(c)
        BY <2>2, <2>3, <3>2 DEF Allowed
      <4>4. owner'[c] \in Owners /\ mem'[c] \in Gen /\ removed'[c] = removed[c]
            /\ removed'[c] \subseteq Fact /\ pc[c] # "save"
        BY <1>2, <1>3, <2>3, <2>4 DEF Owners
      <4> QED
        BY <1>1, <1>5, <4>1, <4>2, <4>3, <4>4, RememberEffect
    <3> QED
      BY <3>1, <3>2
  <2> QED
    BY <1>7, <2>2, <2>3, <2>4, <2>5, <2>6
<1>9. CASE ServiceForget(c)
  <2>1. PICK u \in User \cup {NoUser}, ids \in {{f} : f \in facts[gen]} \cup {facts[gen]} :
           /\ user' = [user EXCEPT ![c] = u]
           /\ UNCHANGED <<owner, forget>>
           /\ Forget(c, ids, <<>>)
    BY <1>9 DEF ServiceForget
  <2>2. user' \in [Call -> User \cup {NoUser}] /\ \A d \in Call \ {c} : user'[d] = user[d]
    BY <1>1, <2>1 DEF RequestTypes
  <2>3. owner' = owner /\ forget' = forget /\ owner'[c] \in Owners /\ mem'[c] \in Gen
    BY <1>1, <1>3, <2>1 DEF RequestTypes, Owners
  <2>4. /\ Outcome(c)
        /\ removed' \in [Call -> SUBSET Fact]
        /\ \A d \in Call \ {c} : removed'[d] = removed[d]
    BY <1>1, <1>2, <1>4, <1>5, <2>1, <2>3, NothingLeft, ForgetEffect
  <2>5. RequestTypes'
    BY <1>1, <1>3, <2>2, <2>3, <2>4 DEF RequestTypes
  <2> QED
    BY <1>7, <2>2, <2>3, <2>4, <2>5
<1>10. CASE ApplyChange(c)
  <2>1. forget' = [forget EXCEPT ![c] = {}] /\ UNCHANGED <<user, owner>>
        /\ Forget(c, forget[c], todo[c]) /\ pc[c] = "held"
    BY <1>10 DEF ApplyChange
  <2>2. forget' \in [Call -> SUBSET Fact]
    BY <1>1, <2>1 DEF RequestTypes
  <2>3. owner'[c] \in Owners /\ mem'[c] \in Gen /\ todo[c] \in Todos
    BY <1>1, <1>3, <2>1 DEF RequestTypes, ListTypes, Owners
  <2>4. Distinct(todo[c]) /\ (todo[c] # <<>> => owner'[c] = user'[c])
    BY <2>1 DEF MemoryInv, CallsOK
  <2>5. /\ Outcome(c)
        /\ removed' \in [Call -> SUBSET Fact]
        /\ \A d \in Call \ {c} : removed'[d] = removed[d]
    BY <1>1, <1>2, <1>4, <1>5, <2>1, <2>3, <2>4, ForgetEffect
  <2>6. RequestTypes'
    BY <1>1, <1>3, <2>1, <2>2, <2>5 DEF RequestTypes
  <2> QED
    BY <1>7, <2>1, <2>5, <2>6
<1> QED
  BY <1>8, <1>9, <1>10

\* The two ways a call goes on after its save.
LEMMA ContinueSteps ==
    ASSUME MemoryInv, NEW c \in Call, AlreadyWritten(c) \/ Write(c)
    PROVE  CallStep(c) /\ Continues(c)
<1>1. ListTypes /\ RequestTypes /\ EntryTypes /\ FileTypes
  BY MemoryTypeParts DEF MemoryInv
<1>2. pc[c] \in {"save", "writing"} /\ UNCHANGED <<user, owner, forget, mem, removed>>
      /\ UNCHANGED entryVars /\ Remember(c, todo[c])
  BY DEF AlreadyWritten, Write, Saved, requestVars
<1>3. mem'[c] \in Gen /\ owner'[c] \in Owners /\ todo[c] \in Todos /\ removed'[c] \subseteq Fact
      /\ removed'[c] = removed[c]
  BY <1>1, <1>2 DEF RequestTypes, ListTypes, Owners
<1>4. /\ Fresh(c, owner'[c], todo[c]) /\ Distinct(todo[c])
      /\ todo[c] # <<>> => owner'[c] = user'[c]
  BY <1>2 DEF MemoryInv, CallsOK
<1>5. (todo[c] # <<>> => Allowed(c)) /\ (Len(todo[c]) = 2 => owner'[c] = user'[c])
  <2>1. Len(todo[c]) = 2 => todo[c] # <<>>
    OBVIOUS
  <2> QED
    BY <1>4, <2>1 DEF Allowed
<1>6. Outcome(c)
  BY <1>1, <1>2, <1>3, <1>4, <1>5, RememberEffect
<1>7. RequestTypes' /\ EntryTypes'
  BY <1>1, <1>2 DEF RequestTypes, EntryTypes, entryVars
<1>8. FileTypes'
  <2>1. CASE UNCHANGED storeVars
    BY <1>1, <2>1 DEF FileTypes, storeVars
  <2>2. CASE /\ disk' = out[c] /\ out' = [out EXCEPT ![c] = {}]
             /\ doubtful' = (doubtful /\ \E d \in Call : pc[d] = "orphan")
    <3>1. out' \in [Call -> SUBSET Fact]
      BY <1>1, <2>2 DEF FileTypes
    <3>2. disk' \subseteq Fact
      BY <1>1, <2>2 DEF FileTypes
    <3>3. doubtful' \in BOOLEAN
      BY <2>2
    <3> QED
      BY <3>1, <3>2, <3>3 DEF FileTypes
  <2> QED
    BY <2>1, <2>2 DEF AlreadyWritten, Write
<1>9. TypeOK'
  BY <1>6, <1>7, <1>8, MemoryTypePartsNext DEF Outcome
<1> QED
  BY <1>2, <1>6, <1>9 DEF CallStep, Continues

-----------------------------------------------------------------------------
(* What a call's step keeps of what is known. *)

\* The file stays, or the call's write becomes it.
FileStep(c) ==
    \/ disk' = disk /\ out' = out /\ doubtful' = doubtful
    \/ /\ pc[c] = "writing"
       /\ doubtful' = (doubtful /\ \E d \in Call : pc[d] = "orphan")
       /\ disk' = out[c] /\ out'[c] = {}
       /\ \A d \in Call \ {c} : out'[d] = out[d]

\* No set grows beyond its bound.
LEMMA CallBounded ==
    ASSUME MemoryInv, NEW c \in Call, CallStep(c)
    PROVE  SetsBounded'
<1>1. TypeOK /\ TypeOK' /\ mem'[c] \in Gen /\ facts \in [Gen -> SUBSET Fact]
  BY DEF MemoryInv, CallStep, TypeOK
<1>2. \A g \in Gen : Bounded(facts[g])
  BY DEF MemoryInv, SetsBounded, Bounded, Owners
<1>3. ASSUME NEW g \in Gen
      PROVE  Bounded(facts'[g])
  <2>1. facts[g] \in SUBSET Fact
    BY <1>1
  <2>2. CASE facts'[g] = facts[g]
    BY <1>2, <2>2
  <2>3. CASE facts'[g] \in SUBSET facts[g]
    BY <1>2, <2>1, <2>3, PartBounded
  <2>4. CASE \E x \in Fact : ~Full(facts[g], x.owner) /\ facts'[g] = facts[g] \cup {x}
    BY <1>2, <2>1, <2>4, AddedBounded
  <2>5. CASE g # mem'[c]
    BY <2>2, <2>5 DEF CallStep, Outcome
  <2>6. CASE g = mem'[c]
    BY <2>2, <2>3, <2>4, <2>6 DEF CallStep, Outcome, Tells, Stops, Drops, Adds
  <2> QED
    BY <2>5, <2>6
<1> QED
  BY <1>3 DEF SetsBounded, Bounded, Owners

\* Nothing is made but what the call adds.
LEMMA CallSeen ==
    ASSUME MemoryInv, NEW c \in Call, CallStep(c), FileStep(c), NEW f \in Fact, Seen(f)'
    PROVE  Seen(f) \/ Adds(c, f)
<1>1. mem'[c] \in Gen
  BY DEF CallStep, TypeOK
<1>2. CASE f \in disk'
  BY <1>2 DEF FileStep, Seen
<1>3. ASSUME NEW d \in Call, f \in out'[d]
      PROVE  Seen(f)
  BY <1>3 DEF FileStep, Seen
<1>4. ASSUME NEW d \in Call, f \in removed'[d]
      PROVE  Seen(f)
  <2>1. CASE d # c
    BY <1>4, <2>1 DEF CallStep, Seen
  <2>2. CASE d = c
    <3>1. removed'[c] = removed[c] \/ removed'[c] \subseteq facts[mem'[c]]
      BY DEF CallStep, Outcome, Tells, Stops, Drops, Adds, Editable
    <3> QED
      BY <1>1, <1>4, <2>2, <3>1 DEF Seen
  <2> QED
    BY <2>1, <2>2
<1>5. CASE f \in gone'
  <2>1. gone' \subseteq gone \cup removed'[c]
    BY DEF CallStep, Outcome, Tells, Stops, Drops, Adds, Stores
  <2> QED
    BY <1>4, <1>5, <2>1 DEF Seen
<1>6. ASSUME NEW g \in Gen, f \in facts'[g]
      PROVE  Seen(f) \/ Adds(c, f)
  <2>1. CASE f \in facts[g]
    BY <2>1 DEF Seen
  <2>2. CASE f \notin facts[g]
    <3>1. g = mem'[c]
      BY <1>6, <2>2 DEF CallStep, Outcome
    <3>2. ~Tells(c) /\ ~Stops(c) /\ ~Drops(c)
      BY <1>6, <2>2, <3>1 DEF Tells, Stops, Drops
    <3>3. PICK x \in Fact : Adds(c, x)
      BY <3>2 DEF CallStep, Outcome
    <3>4. f = x
      BY <1>6, <2>2, <3>1, <3>3 DEF Adds
    <3> QED
      BY <3>3, <3>4
  <2> QED
    BY <2>1, <2>2
<1> QED
  BY <1>2, <1>3, <1>4, <1>5, <1>6 DEF Seen

\* Facts are made once, by one call.
LEMMA CallCallsOK ==
    ASSUME MemoryInv, NEW c \in Call, CallStep(c), FileStep(c)
    PROVE  CallsOK'
<1>1. ASSUME NEW d \in Call \ {c}
      PROVE  /\ pc'[d] \in {"idle", "held"}
                => removed'[d] = {} /\ \A f \in Fact : Seen(f)' => f.by # d
             /\ pc'[d] \in {"save", "writing"} => Fresh(d, owner[d], todo[d])'
             /\ pc'[d] \in {"held", "save", "writing"} /\ todo'[d] # <<>>
                => owner'[d] = user'[d]
             /\ Distinct(todo'[d])
  <2>1. pc'[d] = pc[d] /\ todo'[d] = todo[d] /\ user'[d] = user[d] /\ owner'[d] = owner[d]
        /\ removed'[d] = removed[d]
    BY DEF CallStep, Outcome
  <2>2. \A f \in Fact : Seen(f)' /\ f.by = d => Seen(f)
    <3>1. \A f \in Fact : Adds(c, f) => f.by = c
      BY DEF Adds
    <3> QED
      BY <3>1, CallSeen
  <2>3. pc[d] \in {"save", "writing"} => Fresh(d, owner[d], todo[d])'
    <3>1. pc[d] \in {"save", "writing"} => Fresh(d, owner[d], todo[d])
      BY DEF MemoryInv, CallsOK
    <3> QED
      BY <2>1, <2>2, <3>1 DEF Fresh
  <2>4. pc[d] \in {"idle", "held"}
        => removed[d] = {} /\ \A f \in Fact : Seen(f)' => f.by # d
    BY <2>2 DEF MemoryInv, CallsOK
  <2> QED
    BY <2>1, <2>3, <2>4 DEF MemoryInv, CallsOK
<1>2. pc'[c] \in {"done", "save"} /\ (pc'[c] = "save" => Stores(c)) /\ Distinct(todo'[c])
  BY DEF CallStep, Outcome, Tells, Stops, Drops, Adds, Stores
<1>3. ASSUME pc'[c] = "save"
      PROVE  Fresh(c, owner[c], todo[c])' /\ (todo'[c] # <<>> => owner'[c] = user'[c])
  <2>1. ASSUME NEW i \in DOMAIN todo'[c], NEW f \in Fact,
               f.by = c, f.owner = owner'[c], f.text = todo'[c][i]
        PROVE  ~Seen(f)'
    <3>1. ~Seen(f)
      BY <1>2, <1>3, <2>1 DEF Stores, Fresh
    <3>2. ~Adds(c, f)
      BY <2>1 DEF Adds
    <3> QED
      BY <3>1, <3>2, CallSeen
  <2>2. Fresh(c, owner[c], todo[c])'
    BY <2>1 DEF Fresh
  <2> QED
    BY <1>2, <1>3, <2>2 DEF Stores
<1> QED
  BY <1>1, <1>2, <1>3 DEF CallsOK, Distinct

\* What is to be written is the list, and its sets are bounded.
LEMMA CallStoreOK ==
    ASSUME MemoryInv, NEW c \in Call, CallStep(c), FileStep(c), Begins(c) \/ Continues(c)
    PROVE  StoreOK'
<1>1. TypeOK /\ TypeOK' /\ gen' = gen /\ gen \in Gen /\ mem'[c] \in Gen
  BY DEF MemoryInv, CallStep, TypeOK, entryVars
<1>2. mem'[c] <= gen /\ \A d \in Call : mem'[d] <= gen
  <2>1. \A d \in Call : mem[d] <= gen
    BY DEF MemoryInv, StoreOK
  <2>2. gen <= gen
    BY <1>1 DEF Gen
  <2> QED
    BY <2>1, <2>2 DEF CallStep, Begins, Continues
<1>3. \A g \in Gen \ {mem'[c]} : facts'[g] = facts[g] /\ data'[g] = data[g]
  BY DEF CallStep, Outcome
<1>4. \A F \in data'[mem'[c]] : F = facts'[mem'[c]]
  <2>1. \/ facts'[mem'[c]] = facts[mem'[c]] /\ data'[mem'[c]] = data[mem'[c]]
        \/ data'[mem'[c]] = {facts'[mem'[c]]}
    BY DEF CallStep, Outcome, Tells, Stops, Drops, Adds, Stores
  <2> QED
    BY <1>1, <2>1 DEF MemoryInv, StoreOK
<1>5. \A g \in Gen : \A F \in data'[g] : F = facts'[g]
  BY <1>3, <1>4 DEF MemoryInv, StoreOK
<1>6. \A g \in Gen : g > gen' => data'[g] = {}
  <2>1. ASSUME NEW g \in Gen, g > gen
        PROVE  data'[g] = {}
    <3>1. g # mem'[c]
      BY <1>1, <1>2, <2>1 DEF Gen
    <3> QED
      BY <1>3, <2>1, <3>1 DEF MemoryInv, StoreOK
  <2> QED
    BY <1>1, <2>1
<1>7. \A d, e \in Call :
         pc'[d] = "writing" /\ pc'[e] = "writing" /\ mem'[d] = mem'[e] => d = e
  <2>1. pc'[c] # "writing"
    BY DEF CallStep, Outcome, Tells, Stops, Drops, Adds, Stores
  <2>2. \A d \in Call \ {c} : pc'[d] = pc[d] /\ mem'[d] = mem[d]
    BY DEF CallStep, Outcome
  <2> QED
    BY <2>1, <2>2 DEF MemoryInv, StoreOK
<1>8. \A d \in Call : Bounded(out'[d])
  <2>1. \A d \in Call : Bounded(out[d])
    BY DEF MemoryInv, StoreOK
  <2> QED
    BY <2>1, NothingBounded DEF FileStep
<1>9. Bounded(disk') \/ \A f \in disk' : f.by = Old
  BY DEF FileStep, MemoryInv, StoreOK
<1>10. ASSUME NEW d \in Call, pc'[d] = "orphan"
       PROVE  doubtful'
  <2>1. pc'[c] # "orphan"
    BY DEF CallStep, Outcome, Tells, Stops, Drops, Adds, Stores
  <2>2. pc[d] = "orphan"
    BY <1>10, <2>1 DEF CallStep, Outcome
  <2>3. doubtful
    BY <2>2 DEF MemoryInv, StoreOK
  <2> QED
    BY <2>2, <2>3 DEF FileStep
<1> QED
  BY <1>1, <1>2, <1>5, <1>6, <1>7, <1>8, <1>9, <1>10 DEF StoreOK, Bounded, Set

\* While no Memory was replaced under a save, a call that goes on is at the
\* present one; what it told of it is of the list it leaves.
LEMMA CallPresent ==
    ASSUME MemoryInv, NEW c \in Call, CallStep(c), Begins(c) \/ Continues(c), ~overlapped
    PROVE  /\ mem'[c] = gen /\ gen \in Gen /\ gen' = gen /\ loaded /\ loaded'
           /\ pc'[c] \in {"done", "save"} /\ \A d \in Call \ {c} : pc'[d] = pc[d]
           /\ \A d \in Call \ {c} : removed'[d] = removed[d]
           /\ kept' \subseteq kept \cup {f \in facts[gen] : f.by = c}
           /\ gone' \subseteq gone \cup removed[c]
           /\ Begins(c) => removed[c] = {} /\ \A f \in facts[gen] : f.by # c
           /\ data'[gen] = {} => data[gen] = {} /\ facts'[gen] = facts[gen]
                                 /\ pc'[c] = "done"
<1>1. TypeOK /\ TypeOK' /\ gen' = gen /\ gen \in Gen /\ loaded' = loaded
  BY DEF MemoryInv, CallStep, TypeOK, entryVars
<1>2. PresentOK
  BY DEF MemoryInv, PromisesOK
<1>3. mem'[c] = gen /\ loaded
  BY <1>2 DEF Begins, Continues, PresentOK, UnderWayOf
<1>4. pc'[c] \in {"done", "save"} /\ \A d \in Call \ {c} : pc'[d] = pc[d]
  BY DEF CallStep, Outcome, Tells, Stops, Drops, Adds, Stores
<1>5. kept' \subseteq kept \cup {f \in facts[gen] : f.by = c}
  <2>1. \/ kept' = kept \cup {f \in facts[gen] : f.by = c}
        \/ kept' = kept
        \/ kept' = kept \ removed'[c]
    BY <1>3 DEF CallStep, Outcome, Tells, Stops, Drops, Adds, Stores
  <2> QED
    BY <2>1
<1>6. gone' \subseteq gone \cup removed[c]
  BY DEF CallStep, Outcome, Tells, Stops, Drops, Adds, Stores
<1>7. Begins(c) => removed[c] = {} /\ \A f \in facts[gen] : f.by # c
  <2>1. \A f \in facts[gen] : f \in Fact /\ Seen(f)
    BY <1>1 DEF Seen, TypeOK
  <2> QED
    BY <2>1 DEF Begins, MemoryInv, CallsOK
<1>8. data'[gen] = {} => data[gen] = {} /\ facts'[gen] = facts[gen] /\ pc'[c] = "done"
  BY <1>3 DEF CallStep, Outcome, Tells, Stops, Drops, Adds, Stores
<1> QED
  BY <1>1, <1>3, <1>4, <1>5, <1>6, <1>7, <1>8 DEF CallStep

\* What holds of the list goes on to hold of it.
LEMMA CallList ==
    ASSUME MemoryInv, NEW c \in Call, CallStep(c), Begins(c) \/ Continues(c), ~overlapped
    PROVE  /\ kept' \subseteq facts'[gen] /\ gone' \cap facts'[gen] = {}
           /\ \A d \in Call : UnderWayOf(d)' => removed'[d] \cap facts'[gen] = {}
           /\ \A d \in Call \ {c}, f \in facts'[gen] : f.by = d => f \in facts[gen]
<1>1. PresentOK /\ ToldOK /\ TellingOK
  BY DEF MemoryInv, PromisesOK
<1>2. /\ mem'[c] = gen /\ gen \in Gen /\ loaded
      /\ pc'[c] \in {"done", "save"} /\ \A d \in Call \ {c} : pc'[d] = pc[d]
      /\ \A d \in Call \ {c} : removed'[d] = removed[d]
      /\ kept' \subseteq kept \cup {f \in facts[gen] : f.by = c}
      /\ gone' \subseteq gone \cup removed[c]
  BY CallPresent
<1>3. removed[c] \cap facts[gen] = {}
  <2>1. CASE Begins(c)
    BY <2>1, CallPresent
  <2>2. CASE Continues(c)
    BY <1>1, <2>2 DEF Continues, TellingOK, UnderWayOf
  <2> QED
    BY <2>1, <2>2
<1>4. kept \subseteq facts[gen] /\ gone \cap facts[gen] = {}
      /\ \A d \in Call : UnderWayOf(d) => removed[d] \cap facts[gen] = {}
  BY <1>1, <1>2 DEF ToldOK, TellingOK
<1>5. CASE Tells(c) \/ Stops(c)
  <2>1. facts'[gen] = facts[gen] /\ pc'[c] = "done"
    BY <1>2, <1>5 DEF Tells, Stops
  <2> QED
    BY <1>2, <1>3, <1>4, <2>1 DEF UnderWayOf
<1>6. CASE Drops(c)
  <2>1. facts'[gen] = facts[gen] \ removed'[c] /\ kept' = kept \ removed'[c] /\ gone' = gone
    BY <1>2, <1>6 DEF Drops, Stores
  <2> QED
    BY <1>2, <1>4, <2>1 DEF UnderWayOf
<1>7. ASSUME NEW x \in Fact, Adds(c, x)
      PROVE  /\ kept' \subseteq facts'[gen] /\ gone' \cap facts'[gen] = {}
             /\ \A d \in Call : UnderWayOf(d)' => removed'[d] \cap facts'[gen] = {}
             /\ \A d \in Call \ {c}, f \in facts'[gen] : f.by = d => f \in facts[gen]
  <2>1. facts'[gen] = facts[gen] \cup {x} /\ kept' = kept \ removed'[c] /\ gone' = gone
        /\ x.by = c /\ removed'[c] = removed[c] /\ ~Seen(x)
    BY <1>2, <1>7 DEF Adds, Stores
  <2>2. x \notin gone /\ \A d \in Call : x \notin removed[d]
    BY <2>1 DEF Seen
  <2>3. kept' \subseteq facts'[gen] /\ gone' \cap facts'[gen] = {}
    BY <1>4, <2>1, <2>2
  <2>4. \A d \in Call : UnderWayOf(d)' => removed'[d] \cap facts'[gen] = {}
    BY <1>2, <1>3, <1>4, <2>1, <2>2 DEF UnderWayOf
  <2> QED
    BY <2>1, <2>3, <2>4
<1> QED
  BY <1>5, <1>6, <1>7 DEF CallStep, Outcome

\* Calls under way stay at the present Memory, and only calls' facts are kept.
LEMMA CallPresentOK ==
    ASSUME MemoryInv, NEW c \in Call, CallStep(c), Begins(c) \/ Continues(c), ~overlapped
    PROVE  PresentOK'
<1>1. PresentOK
  BY DEF MemoryInv, PromisesOK
<1>2. /\ mem'[c] = gen /\ gen' = gen /\ loaded /\ loaded'
      /\ \A d \in Call \ {c} : pc'[d] = pc[d]
      /\ kept' \subseteq kept \cup {f \in facts[gen] : f.by = c}
  BY CallPresent
<1>3. \A d \in Call : UnderWayOf(d)' => mem'[d] = gen'
  BY <1>1, <1>2 DEF PresentOK, UnderWayOf, CallStep
<1>4. \A f \in kept' : f.by # Old
  BY <1>1, <1>2 DEF PresentOK
<1> QED
  BY <1>2, <1>3, <1>4 DEF PresentOK

\* A call that begins, tells of nothing that was not told.
LEMMA BeginPromises ==
    ASSUME MemoryInv, NEW c \in Call, CallStep(c), Begins(c)
    PROVE  PromisesOK'
<1> SUFFICES ASSUME ~overlapped'
               PROVE  PresentOK' /\ ToldOK' /\ TellingOK' /\ (doubtful \/ FileOK)'
  BY DEF PromisesOK
<1>1. ~overlapped
  BY DEF CallStep, entryVars
<1>2. PresentOK /\ ToldOK /\ TellingOK /\ (doubtful \/ FileOK)
  BY <1>1 DEF MemoryInv, PromisesOK
<1>3. /\ gen' = gen /\ loaded /\ loaded'
      /\ pc'[c] \in {"done", "save"} /\ \A d \in Call \ {c} : pc'[d] = pc[d]
      /\ \A d \in Call \ {c} : removed'[d] = removed[d]
      /\ kept' \subseteq kept /\ gone' \subseteq gone
      /\ data'[gen] = {} => data[gen] = {} /\ facts'[gen] = facts[gen] /\ pc'[c] = "done"
  BY <1>1, CallPresent
<1>4. /\ kept' \subseteq facts'[gen] /\ gone' \cap facts'[gen] = {}
      /\ \A d \in Call : UnderWayOf(d)' => removed'[d] \cap facts'[gen] = {}
      /\ \A d \in Call \ {c}, f \in facts'[gen] : f.by = d => f \in facts[gen]
  BY <1>1, CallList
<1>5. disk' = disk /\ out' = out /\ doubtful' = doubtful /\ pc[c] # "writing"
  BY DEF Begins, storeVars
<1>6. PresentOK'
  BY <1>1, CallPresentOK
<1>7. ToldOK'
  <2>1. \A d \in Call : pc'[d] = "writing" => kept' \subseteq out'[d] /\ gone' \cap out'[d] = {}
    BY <1>2, <1>3, <1>5 DEF ToldOK
  <2> QED
    BY <1>3, <1>4, <2>1 DEF ToldOK
<1>8. TellingOK'
  <2>1. ASSUME NEW d \in Call, pc'[d] = "writing"
        PROVE  /\ removed'[d] \cap out'[d] = {}
               /\ \A f \in facts'[gen] : f.by = d => f \in out'[d]
               /\ data'[gen] = {} => out'[d] = facts'[gen]
    <3>1. d # c /\ pc[d] = "writing" /\ removed'[d] = removed[d] /\ out'[d] = out[d]
      BY <1>3, <1>5, <2>1
    <3> QED
      BY <1>2, <1>3, <1>4, <3>1 DEF TellingOK
  <2> QED
    BY <1>3, <1>4, <2>1 DEF TellingOK
<1>9. ASSUME ~doubtful' PROVE FileOK'
  <2>1. FileOK
    BY <1>2, <1>5, <1>9
  <2>2. kept' \subseteq disk' /\ gone' \cap disk' = {}
    BY <1>3, <1>5, <2>1 DEF FileOK
  <2>3. ASSUME data'[gen] = {}, \A d \in Call : pc'[d] # "writing"
        PROVE  /\ facts'[gen] \subseteq disk'
               /\ \A d \in Call : pc'[d] = "save" => removed'[d] \cap disk' = {}
    <3>1. data[gen] = {} /\ \A d \in Call : pc[d] # "writing"
      BY <1>3, <1>5, <2>3
    <3> QED
      BY <1>3, <1>5, <2>1, <2>3, <3>1 DEF FileOK
  <2> QED
    BY <1>3, <2>2, <2>3 DEF FileOK
<1> QED
  BY <1>6, <1>7, <1>8, <1>9

\* A call whose data another call's write took tells what that wrote.
LEMMA AlreadyPromises ==
    ASSUME MemoryInv, NEW c \in Call, CallStep(c), Continues(c), AlreadyWritten(c)
    PROVE  PromisesOK'
<1> SUFFICES ASSUME ~overlapped'
               PROVE  PresentOK' /\ ToldOK' /\ TellingOK' /\ (doubtful \/ FileOK)'
  BY DEF PromisesOK
<1>1. ~overlapped
  BY DEF CallStep, entryVars
<1>2. PresentOK /\ ToldOK /\ TellingOK /\ (doubtful \/ FileOK)
  BY <1>1 DEF MemoryInv, PromisesOK
<1>3. /\ gen' = gen /\ loaded /\ loaded'
      /\ pc'[c] \in {"done", "save"} /\ \A d \in Call \ {c} : pc'[d] = pc[d]
      /\ \A d \in Call \ {c} : removed'[d] = removed[d]
      /\ kept' \subseteq kept \cup {f \in facts[gen] : f.by = c}
      /\ gone' \subseteq gone \cup removed[c]
      /\ data'[gen] = {} => data[gen] = {} /\ facts'[gen] = facts[gen] /\ pc'[c] = "done"
  BY <1>1, CallPresent
<1>4. /\ kept' \subseteq facts'[gen] /\ gone' \cap facts'[gen] = {}
      /\ \A d \in Call : UnderWayOf(d)' => removed'[d] \cap facts'[gen] = {}
  BY <1>1, CallList
<1>5. disk' = disk /\ out' = out /\ doubtful' = doubtful /\ pc[c] = "save"
      /\ \A d \in Call : mem[d] = mem[c] => pc[d] # "writing"
      /\ data[mem[c]] = {}
  BY DEF AlreadyWritten, storeVars
<1>6. mem[c] = gen /\ \A d \in Call : pc[d] # "writing"
  BY <1>2, <1>5 DEF PresentOK, UnderWayOf
<1>7. \A d \in Call : pc'[d] # "writing"
  BY <1>3, <1>6
<1>8. PresentOK'
  BY <1>1, CallPresentOK
<1>9. ToldOK' /\ TellingOK'
  BY <1>3, <1>4, <1>7 DEF ToldOK, TellingOK
<1>10. ASSUME ~doubtful' PROVE FileOK'
  <2>1. FileOK
    BY <1>2, <1>5, <1>10
  <2>2. facts[gen] \subseteq disk /\ \A d \in Call : pc[d] = "save" => removed[d] \cap disk = {}
    BY <1>3, <1>5, <1>6, <2>1 DEF FileOK
  <2>3. kept' \subseteq disk' /\ gone' \cap disk' = {}
    BY <1>3, <1>5, <2>1, <2>2 DEF FileOK
  <2>4. ASSUME data'[gen] = {}
        PROVE  /\ facts'[gen] \subseteq disk'
               /\ \A d \in Call : pc'[d] = "save" => removed'[d] \cap disk' = {}
    BY <1>3, <1>5, <2>2, <2>4
  <2> QED
    BY <1>3, <2>3, <2>4 DEF FileOK
<1> QED
  BY <1>8, <1>9, <1>10

\* A call that wrote tells what it wrote.
LEMMA WritePromises ==
    ASSUME MemoryInv, NEW c \in Call, CallStep(c), Continues(c), Write(c)
    PROVE  PromisesOK'
<1> SUFFICES ASSUME ~overlapped'
               PROVE  PresentOK' /\ ToldOK' /\ TellingOK' /\ (doubtful \/ FileOK)'
  BY DEF PromisesOK
<1>1. ~overlapped
  BY DEF CallStep, entryVars
<1>2. PresentOK /\ ToldOK /\ TellingOK /\ (doubtful \/ FileOK)
  BY <1>1 DEF MemoryInv, PromisesOK
<1>3. /\ gen' = gen /\ loaded /\ loaded'
      /\ pc'[c] \in {"done", "save"} /\ \A d \in Call \ {c} : pc'[d] = pc[d]
      /\ \A d \in Call \ {c} : removed'[d] = removed[d]
      /\ kept' \subseteq kept \cup {f \in facts[gen] : f.by = c}
      /\ gone' \subseteq gone \cup removed[c]
      /\ data'[gen] = {} => data[gen] = {} /\ facts'[gen] = facts[gen] /\ pc'[c] = "done"
  BY <1>1, CallPresent
<1>4. /\ kept' \subseteq facts'[gen] /\ gone' \cap facts'[gen] = {}
      /\ \A d \in Call : UnderWayOf(d)' => removed'[d] \cap facts'[gen] = {}
  BY <1>1, CallList
<1>5. disk' = out[c] /\ pc[c] = "writing"
  BY DEF Write
<1>6. \A d \in Call : pc'[d] # "writing"
  BY <1>2, <1>3, <1>5 DEF PresentOK, UnderWayOf, MemoryInv, StoreOK
<1>7. /\ kept \subseteq out[c] /\ gone \cap out[c] = {} /\ removed[c] \cap out[c] = {}
      /\ \A f \in facts[gen] : f.by = c => f \in out[c]
      /\ data[gen] = {} => out[c] = facts[gen]
  BY <1>2, <1>5 DEF ToldOK, TellingOK
<1>8. PresentOK'
  BY <1>1, CallPresentOK
<1>9. ToldOK' /\ TellingOK'
  BY <1>3, <1>4, <1>6 DEF ToldOK, TellingOK
<1>10. FileOK'
  <2>1. kept' \subseteq disk' /\ gone' \cap disk' = {}
    BY <1>3, <1>5, <1>7
  <2>2. ASSUME data'[gen] = {}
        PROVE  /\ facts'[gen] \subseteq disk'
               /\ \A d \in Call : pc'[d] = "save" => removed'[d] \cap disk' = {}
    <3>1. disk' = facts[gen] /\ facts'[gen] = facts[gen] /\ pc'[c] = "done"
      BY <1>3, <1>5, <1>7, <2>2
    <3> QED
      BY <1>4, <3>1 DEF UnderWayOf
  <2> QED
    BY <1>3, <2>1, <2>2 DEF FileOK
<1> QED
  BY <1>8, <1>9, <1>10

-----------------------------------------------------------------------------
(* The other steps. *)

\* Calls whose facts nobody makes anew go on as they are.
LEMMA CallsStay ==
    ASSUME MemoryInv, \A f \in Fact : Seen(f)' => Seen(f),
           UNCHANGED <<user, owner, removed>>,
           \A c \in Call : todo'[c] = todo[c] \/ todo'[c] = <<>>,
           \A c \in Call : \/ pc'[c] = pc[c] \/ pc'[c] \in {"done", "orphan"}
                           \/ pc[c] = "save" /\ pc'[c] = "writing"
    PROVE  CallsOK'
<1>1. ASSUME NEW c \in Call
      PROVE  /\ pc'[c] \in {"idle", "held"}
                => removed'[c] = {} /\ \A f \in Fact : Seen(f)' => f.by # c
             /\ pc'[c] \in {"save", "writing"} => Fresh(c, owner[c], todo[c])'
             /\ pc'[c] \in {"held", "save", "writing"} /\ todo'[c] # <<>>
                => owner'[c] = user'[c]
             /\ Distinct(todo'[c])
  <2>1. pc'[c] \in {"idle", "held"} => pc[c] \in {"idle", "held"}
    OBVIOUS
  <2>2. pc'[c] \in {"save", "writing"} => pc[c] \in {"save", "writing"}
    OBVIOUS
  <2>3. pc[c] \in {"save", "writing"} => Fresh(c, owner[c], todo[c])'
    <3>1. pc[c] \in {"save", "writing"} => Fresh(c, owner[c], todo[c])
      BY DEF MemoryInv, CallsOK
    <3>2. todo'[c] = <<>> \/ todo'[c] = todo[c]
      OBVIOUS
    <3>3. DOMAIN <<>> = {}
      OBVIOUS
    <3> QED
      BY <3>1, <3>2, <3>3 DEF Fresh
  <2>4. pc[c] \in {"idle", "held"}
        => removed[c] = {} /\ \A f \in Fact : Seen(f)' => f.by # c
    BY DEF MemoryInv, CallsOK
  <2>5. pc'[c] \in {"held", "save", "writing"} /\ todo'[c] # <<>> => owner[c] = user[c]
    BY DEF MemoryInv, CallsOK
  <2>6. Distinct(todo'[c])
    <3>1. Distinct(todo[c]) /\ (todo'[c] = <<>> \/ todo'[c] = todo[c])
      BY DEF MemoryInv, CallsOK
    <3> QED
      BY <3>1, NothingLeft
  <2> QED
    BY <2>1, <2>2, <2>3, <2>4, <2>5, <2>6
<1> QED
  BY <1>1 DEF CallsOK, Distinct

\* A change that is held has made nothing yet, and is of its own user.
LEMMA AskChangeStep ==
    ASSUME MemoryInv, NEW c \in Call, AskChange(c)
    PROVE  MemoryInv'
<1>1. TypeOK /\ ListTypes /\ RequestTypes /\ EntryTypes /\ FileTypes
  BY MemoryTypeParts DEF MemoryInv
<1>2. PICK u \in User, texts \in Todos, ids \in {{}} \cup {{f} : f \in facts[gen]} :
         /\ ids \subseteq Editable(facts[gen], u)
         /\ Len(texts) = 2 => texts[1] # texts[2]
         /\ user' = [user EXCEPT ![c] = u]
         /\ owner' = [owner EXCEPT ![c] = u]
         /\ forget' = [forget EXCEPT ![c] = ids]
         /\ todo' = [todo EXCEPT ![c] = texts]
  BY DEF AskChange
<1>3. /\ pc[c] = "idle" /\ mem' = [mem EXCEPT ![c] = gen]
      /\ pc' = [pc EXCEPT ![c] = "held"]
      /\ UNCHANGED <<removed, facts, data, kept, gone, entryVars, storeVars>>
  BY DEF AskChange, Start
<1>4. ids \in SUBSET Fact
  <2>1. facts[gen] \in SUBSET Fact
    BY <1>1 DEF ListTypes, EntryTypes
  <2> QED
    BY <1>2, <2>1
<1>5. pc' \in [Call -> {"idle", "held", "save", "writing", "orphan", "done"}]
      /\ pc'[c] = "held" /\ \A d \in Call \ {c} : pc'[d] = pc[d]
  BY <1>1, <1>3 DEF ListTypes
<1>6. todo' \in [Call -> Todos] /\ todo'[c] = texts /\ \A d \in Call \ {c} : todo'[d] = todo[d]
  BY <1>1, <1>2 DEF ListTypes
<1>7. user' \in [Call -> User \cup {NoUser}] /\ user'[c] = u
      /\ \A d \in Call \ {c} : user'[d] = user[d]
  BY <1>1, <1>2 DEF RequestTypes
<1>8. owner' \in [Call -> User \cup {NoUser}] /\ owner'[c] = u
      /\ \A d \in Call \ {c} : owner'[d] = owner[d]
  BY <1>1, <1>2 DEF RequestTypes
<1>9. mem' \in [Call -> Gen] /\ mem'[c] = gen /\ \A d \in Call \ {c} : mem'[d] = mem[d]
  BY <1>1, <1>3 DEF RequestTypes, EntryTypes
<1>10. forget' \in [Call -> SUBSET Fact]
  BY <1>1, <1>2, <1>4 DEF RequestTypes
<1>11. TypeOK'
  <2>1. ListTypes'
    BY <1>1, <1>3, <1>5, <1>6 DEF ListTypes
  <2>2. RequestTypes'
    BY <1>1, <1>3, <1>7, <1>8, <1>9, <1>10 DEF RequestTypes
  <2>3. EntryTypes' /\ FileTypes'
    BY <1>1, <1>3 DEF EntryTypes, FileTypes, entryVars, storeVars
  <2> QED
    BY <2>1, <2>2, <2>3, MemoryTypePartsNext
<1>12. SetsBounded'
  BY <1>3 DEF MemoryInv, SetsBounded
<1>13. CallsOK'
  <2>1. \A f : Seen(f)' <=> Seen(f)
    BY <1>3 DEF Seen, storeVars
  <2>2. Distinct(texts)
    <3>1. CASE texts = <<>>
      BY <3>1 DEF Distinct
    <3>2. CASE \E t \in Text : texts = <<t>>
      BY <3>2 DEF Distinct
    <3>3. CASE \E t, v \in Text : texts = <<t, v>>
      <4>1. PICK t \in Text, v \in Text : texts = <<t, v>>
        BY <3>3
      <4>2. DOMAIN texts = {1, 2} /\ Len(texts) = 2
        BY <4>1
      <4> QED
        BY <1>2, <4>2 DEF Distinct
    <3> QED
      BY <3>1, <3>2, <3>3 DEF Todos
  <2>3. ASSUME NEW d \in Call
        PROVE  /\ pc'[d] \in {"idle", "held"}
                  => removed'[d] = {} /\ \A f \in Fact : Seen(f)' => f.by # d
               /\ pc'[d] \in {"save", "writing"} => Fresh(d, owner[d], todo[d])'
               /\ pc'[d] \in {"held", "save", "writing"} /\ todo'[d] # <<>>
                  => owner'[d] = user'[d]
               /\ Distinct(todo'[d])
    <3>1. CASE d = c
      <4>1. removed[c] = {} /\ \A f \in Fact : Seen(f) => f.by # c
        BY <1>3 DEF MemoryInv, CallsOK
      <4> QED
        BY <1>3, <1>5, <1>6, <1>7, <1>8, <2>1, <2>2, <3>1, <4>1
    <3>2. CASE d # c
      <4>1. pc'[d] = pc[d] /\ todo'[d] = todo[d] /\ user'[d] = user[d] /\ owner'[d] = owner[d]
            /\ removed'[d] = removed[d]
        BY <1>3, <1>5, <1>6, <1>7, <1>8, <3>2
      <4>2. pc[d] \in {"save", "writing"} => Fresh(d, owner[d], todo[d])'
        <5>1. pc[d] \in {"save", "writing"} => Fresh(d, owner[d], todo[d])
          BY DEF MemoryInv, CallsOK
        <5> QED
          BY <2>1, <4>1, <5>1 DEF Fresh
      <4> QED
        BY <2>1, <4>1, <4>2 DEF MemoryInv, CallsOK
    <3> QED
      BY <3>1, <3>2
  <2> QED
    BY <2>3 DEF CallsOK, Distinct
<1>14. StoreOK'
  <2>1. gen <= gen /\ gen' = gen
    BY <1>1, <1>3 DEF EntryTypes, Gen, entryVars
  <2>2. \A d \in Call : mem'[d] <= gen'
    BY <1>9, <2>1 DEF MemoryInv, StoreOK
  <2>3. \A d, e \in Call :
           pc'[d] = "writing" /\ pc'[e] = "writing" /\ mem'[d] = mem'[e] => d = e
    BY <1>5, <1>9 DEF MemoryInv, StoreOK
  <2>4. /\ \A g \in Gen : \A F \in data'[g] : F = facts'[g]
        /\ \A g \in Gen : g > gen' => data'[g] = {}
    BY <1>3, <2>1 DEF MemoryInv, StoreOK
  <2>5. /\ \A d \in Call : Bounded(out'[d])
        /\ Bounded(disk') \/ \A f \in disk' : f.by = Old
    BY <1>3 DEF MemoryInv, StoreOK, storeVars
  <2>6. \A d \in Call : pc'[d] = "orphan" => doubtful'
    BY <1>3, <1>5 DEF MemoryInv, StoreOK, storeVars
  <2> QED
    BY <2>2, <2>3, <2>4, <2>5, <2>6 DEF StoreOK, Bounded, Set
<1>15. PromisesOK'
  <2> SUFFICES ASSUME ~overlapped'
               PROVE  PresentOK' /\ ToldOK' /\ TellingOK' /\ (doubtful \/ FileOK)'
    BY DEF PromisesOK
  <2>1. PresentOK /\ ToldOK /\ TellingOK /\ (doubtful \/ FileOK)
    BY <1>3 DEF MemoryInv, PromisesOK, entryVars
  <2>2. PresentOK'
    BY <1>3, <1>5, <1>9, <2>1 DEF PresentOK, UnderWayOf, entryVars
  <2>3. ToldOK'
    BY <1>3, <1>5, <2>1 DEF ToldOK, entryVars, storeVars
  <2>4. TellingOK'
    BY <1>3, <1>5, <2>1 DEF TellingOK, UnderWayOf, entryVars, storeVars
  <2>5. (doubtful \/ FileOK)'
    BY <1>3, <1>5, <2>1 DEF FileOK, entryVars, storeVars
  <2> QED
    BY <2>2, <2>3, <2>4, <2>5
<1> QED
  BY <1>11, <1>12, <1>13, <1>14, <1>15 DEF MemoryInv

\* What a call begins to write is the list as it is.
LEMMA StartWriteStep ==
    ASSUME MemoryInv, NEW c \in Call, StartWrite(c)
    PROVE  MemoryInv'
<1>1. TypeOK /\ ListTypes /\ RequestTypes /\ EntryTypes /\ FileTypes
  BY MemoryTypeParts DEF MemoryInv
<1>2. PICK F \in data[mem[c]] : out' = [out EXCEPT ![c] = F]
  BY DEF StartWrite
<1>3. /\ pc[c] = "save" /\ pc' = [pc EXCEPT ![c] = "writing"]
      /\ \A d \in Call : mem[d] = mem[c] => pc[d] # "writing"
      /\ data' = [data EXCEPT ![mem[c]] = {}]
      /\ UNCHANGED <<user, owner, forget, todo, mem, removed, facts, disk, doubtful,
                     kept, gone, entryVars>>
  BY DEF StartWrite, requestVars
<1>4. mem[c] \in Gen /\ F = facts[mem[c]] /\ F \in SUBSET Fact
  BY <1>1 DEF RequestTypes, ListTypes, MemoryInv, StoreOK
<1>5. pc' \in [Call -> {"idle", "held", "save", "writing", "orphan", "done"}]
      /\ pc'[c] = "writing" /\ \A d \in Call \ {c} : pc'[d] = pc[d]
  BY <1>1, <1>3 DEF ListTypes
<1>6. out' \in [Call -> SUBSET Fact] /\ out'[c] = F /\ \A d \in Call \ {c} : out'[d] = out[d]
  BY <1>1, <1>2, <1>4 DEF FileTypes
<1>7. data' \in [Gen -> SUBSET SUBSET Fact] /\ data'[mem[c]] = {}
      /\ \A g \in Gen \ {mem[c]} : data'[g] = data[g]
  BY <1>1, <1>3, <1>4 DEF ListTypes
<1>8. TypeOK'
  <2>1. ListTypes'
    BY <1>1, <1>3, <1>5, <1>7 DEF ListTypes
  <2>2. RequestTypes' /\ EntryTypes'
    BY <1>1, <1>3 DEF RequestTypes, EntryTypes, entryVars
  <2>3. FileTypes'
    BY <1>1, <1>3, <1>6 DEF FileTypes
  <2> QED
    BY <2>1, <2>2, <2>3, MemoryTypePartsNext
<1>9. SetsBounded'
  BY <1>3 DEF MemoryInv, SetsBounded
<1>10. CallsOK'
  <2>1. \A f \in Fact : Seen(f)' => Seen(f)
    BY <1>3, <1>4, <1>6 DEF Seen
  <2> QED
    BY <1>3, <1>5, <2>1, CallsStay
<1>11. StoreOK'
  <2>1. Bounded(F)
    BY <1>4 DEF MemoryInv, SetsBounded, Bounded, Owners
  <2>2. \A d \in Call : Bounded(out'[d])
    BY <1>6, <2>1 DEF MemoryInv, StoreOK
  <2>3. \A d, e \in Call :
           pc'[d] = "writing" /\ pc'[e] = "writing" /\ mem'[d] = mem'[e] => d = e
    BY <1>3, <1>5 DEF MemoryInv, StoreOK
  <2>4. \A g \in Gen : \A E \in data'[g] : E = facts'[g]
    BY <1>3, <1>7 DEF MemoryInv, StoreOK
  <2>5. \A g \in Gen : g > gen' => data'[g] = {}
    BY <1>3, <1>7 DEF MemoryInv, StoreOK, entryVars
  <2>6. (\A d \in Call : mem'[d] <= gen') /\ (Bounded(disk') \/ \A f \in disk' : f.by = Old)
    BY <1>3 DEF MemoryInv, StoreOK, entryVars
  <2>7. \A d \in Call : pc'[d] = "orphan" => doubtful'
    BY <1>3, <1>5 DEF MemoryInv, StoreOK
  <2> QED
    BY <2>2, <2>3, <2>4, <2>5, <2>6, <2>7 DEF StoreOK, Bounded, Set
<1>12. PromisesOK'
  <2> SUFFICES ASSUME ~overlapped'
               PROVE  PresentOK' /\ ToldOK' /\ TellingOK' /\ (doubtful \/ FileOK)'
    BY DEF PromisesOK
  <2>1. PresentOK /\ ToldOK /\ TellingOK /\ (doubtful \/ FileOK)
    BY <1>3 DEF MemoryInv, PromisesOK, entryVars
  <2>2. loaded /\ mem[c] = gen
    BY <1>3, <2>1 DEF PresentOK, UnderWayOf
  <2>3. \A d \in Call \ {c} : pc'[d] # "writing"
    BY <1>3, <1>5, <2>1, <2>2 DEF PresentOK, UnderWayOf
  <2>4. PresentOK'
    BY <1>3, <1>5, <2>1 DEF PresentOK, UnderWayOf, entryVars
  <2>5. ToldOK'
    <3>1. out'[c] = facts[gen]
      BY <1>4, <1>6, <2>2
    <3>2. kept \subseteq facts[gen] /\ gone \cap facts[gen] = {}
      BY <2>1, <2>2 DEF ToldOK
    <3> QED
      BY <1>3, <2>1, <2>3, <3>1, <3>2 DEF ToldOK, entryVars
  <2>6. TellingOK'
    <3>1. out'[c] = facts[gen]
      BY <1>4, <1>6, <2>2
    <3>2. \A d \in Call : UnderWayOf(d)' => removed'[d] \cap facts'[gen'] = {}
      BY <1>3, <1>5, <2>1 DEF TellingOK, UnderWayOf, entryVars
    <3> QED
      BY <1>3, <1>5, <2>3, <3>1, <3>2 DEF TellingOK, UnderWayOf, entryVars
  <2>7. (doubtful \/ FileOK)'
    <3>1. kept' = kept /\ gone' = gone /\ disk' = disk /\ doubtful' = doubtful
          /\ pc'[c] = "writing"
      BY <1>3, <1>5
    <3> QED
      BY <2>1, <3>1 DEF FileOK
  <2> QED
    BY <2>4, <2>5, <2>6, <2>7
<1> QED
  BY <1>8, <1>9, <1>10, <1>11, <1>12 DEF MemoryInv

\* A new Memory has of the file what it keeps, nothing else, and writes nothing.
LEMMA LoadEffect ==
    ASSUME MemoryInv, gen < MaxGen, gen' = gen + 1, UNCHANGED data, UNCHANGED disk,
           NEW F \in Loaded(disk), facts' = [facts EXCEPT ![gen + 1] = F]
    PROVE  /\ gen + 1 \in Gen /\ facts' \in [Gen -> SUBSET Fact] /\ SetsBounded'
           /\ facts'[gen'] = F /\ F \subseteq disk /\ (Bounded(disk) => F = disk)
           /\ data'[gen'] = {}
           /\ \A g \in Gen : \A E \in data'[g] : E = facts'[g]
           /\ \A g \in Gen : g > gen' => data'[g] = {}
           /\ \A f : (\E g \in Gen : f \in facts'[g])
                     => f \in disk \/ \E g \in Gen : f \in facts[g]
<1>1. TypeOK
  BY DEF MemoryInv
<1>2. gen + 1 \in Gen /\ gen + 1 > gen /\ gen \in Gen
  BY <1>1 DEF TypeOK, Gen
<1>3. F \subseteq disk /\ Bounded(F) /\ (Bounded(disk) => F = disk) /\ F \subseteq Fact
  <2>1. disk \in SUBSET Fact
    BY <1>1 DEF TypeOK
  <2> QED
    BY <2>1, LoadedFacts
<1>4. facts' \in [Gen -> SUBSET Fact] /\ facts'[gen + 1] = F
      /\ \A g \in Gen \ {gen + 1} : facts'[g] = facts[g]
  BY <1>1, <1>2, <1>3 DEF TypeOK
<1>5. SetsBounded'
  BY <1>3, <1>4 DEF MemoryInv, SetsBounded, Bounded, Owners
<1>6. data[gen + 1] = {}
  BY <1>2 DEF MemoryInv, StoreOK
<1>7. \A g \in Gen : \A E \in data'[g] : E = facts'[g]
  BY <1>4, <1>6 DEF MemoryInv, StoreOK
<1>8. \A g \in Gen : g > gen' => data'[g] = {}
  <2>1. \A g \in Gen : g > gen + 1 => g > gen
    BY <1>2 DEF Gen
  <2> QED
    BY <2>1 DEF MemoryInv, StoreOK
<1> QED
  BY <1>2, <1>3, <1>4, <1>5, <1>6, <1>7, <1>8

\* What is kept of a file that holds it all: a call's facts are only in a file
\* that was written, and all of such a file is.
LEMMA LoadedKeeps ==
    ASSUME StoreOK, NEW F, Bounded(disk) => F = disk, kept \subseteq disk,
           \A f \in kept : f.by # Old
    PROVE  kept \subseteq F
BY DEF StoreOK

\* A reload: what was told holds of the new Memory, unless a save was under way.
LEMMA ReloadStep ==
    ASSUME MemoryInv, Reload
    PROVE  MemoryInv'
<1>1. TypeOK /\ ListTypes /\ RequestTypes /\ EntryTypes /\ FileTypes
  BY MemoryTypeParts DEF MemoryInv
<1>2. /\ loaded /\ gen < MaxGen /\ gen' = gen + 1
      /\ overlapped' = (overlapped \/ UnderWay \/ doubtful)
      /\ UNCHANGED <<admins, pc, user, owner, forget, todo, mem, removed, data, out, disk,
                     doubtful, loaded, kept, gone>>
  BY DEF Reload, requestVars, storeVars
<1>3. PICK F \in Loaded(disk) : facts' = [facts EXCEPT ![gen + 1] = F]
  BY DEF Reload
<1>4. /\ gen + 1 \in Gen /\ facts' \in [Gen -> SUBSET Fact] /\ SetsBounded'
      /\ facts'[gen'] = F /\ F \subseteq disk /\ (Bounded(disk) => F = disk)
      /\ data'[gen'] = {}
      /\ \A g \in Gen : \A E \in data'[g] : E = facts'[g]
      /\ \A g \in Gen : g > gen' => data'[g] = {}
      /\ \A f : (\E g \in Gen : f \in facts'[g])
                => f \in disk \/ \E g \in Gen : f \in facts[g]
  BY <1>2, <1>3, LoadEffect
<1>5. TypeOK'
  <2>1. ListTypes'
    BY <1>1, <1>2, <1>4 DEF ListTypes
  <2>2. RequestTypes' /\ FileTypes'
    BY <1>1, <1>2 DEF RequestTypes, FileTypes
  <2>3. EntryTypes'
    BY <1>1, <1>2, <1>4 DEF EntryTypes
  <2> QED
    BY <2>1, <2>2, <2>3, MemoryTypePartsNext
<1>6. CallsOK'
  <2>1. \A f \in Fact : Seen(f)' => Seen(f)
    BY <1>2, <1>4 DEF Seen
  <2> QED
    BY <1>2, <2>1, CallsStay
<1>7. StoreOK'
  <2>1. \A c \in Call : mem'[c] <= gen'
    <3>1. \A c \in Call : mem[c] <= gen /\ mem[c] \in Nat /\ gen \in Nat
      BY <1>1 DEF MemoryInv, StoreOK, RequestTypes, EntryTypes, Gen
    <3> QED
      BY <1>2, <3>1
  <2>2. /\ \A c, d \in Call :
              pc'[c] = "writing" /\ pc'[d] = "writing" /\ mem'[c] = mem'[d] => c = d
        /\ \A c \in Call : Bounded(out'[c])
        /\ Bounded(disk') \/ \A f \in disk' : f.by = Old
        /\ \A c \in Call : pc'[c] = "orphan" => doubtful'
    BY <1>2 DEF MemoryInv, StoreOK
  <2> QED
    BY <1>4, <2>1, <2>2 DEF StoreOK, Bounded, Set
<1>8. PromisesOK'
  <2> SUFFICES ASSUME ~overlapped'
               PROVE  PresentOK' /\ ToldOK' /\ TellingOK' /\ (doubtful \/ FileOK)'
    BY DEF PromisesOK
  <2>1. ~overlapped /\ ~doubtful /\ \A c \in Call : ~(pc[c] \in {"save", "writing"})
    BY <1>2 DEF UnderWay
  <2>2. PresentOK /\ FileOK
    BY <2>1 DEF MemoryInv, PromisesOK
  <2>3. PresentOK'
    BY <1>2, <2>1, <2>2 DEF PresentOK, UnderWayOf
  <2>4. kept \subseteq F
    BY <1>4, <2>2, LoadedKeeps DEF MemoryInv, FileOK, PresentOK
  <2>5. ToldOK'
    BY <1>2, <1>4, <2>1, <2>2, <2>4 DEF ToldOK, FileOK
  <2>6. TellingOK'
    BY <1>2, <1>4, <2>1 DEF TellingOK, UnderWayOf
  <2>7. FileOK'
    BY <1>2, <1>4, <2>1, <2>2 DEF FileOK
  <2> QED
    BY <2>3, <2>5, <2>6, <2>7
<1> QED
  BY <1>4, <1>5, <1>6, <1>7, <1>8 DEF MemoryInv

\* A restart: no call is left, and all that was told is in the file.
LEMMA RestartStep ==
    ASSUME MemoryInv, Restart
    PROVE  MemoryInv'
<1>1. TypeOK /\ ListTypes /\ RequestTypes /\ EntryTypes /\ FileTypes
  BY MemoryTypeParts DEF MemoryInv
<1>2. /\ loaded /\ gen < MaxGen /\ gen' = gen + 1
      /\ pc' = [c \in Call |-> IF pc[c] = "idle" THEN "idle" ELSE "done"]
      /\ overlapped' = (overlapped \/ doubtful)
      /\ UNCHANGED <<admins, user, owner, forget, todo, mem, removed, data, out, disk,
                     doubtful, loaded, kept, gone>>
  BY DEF Restart, requestVars, storeVars
<1>3. PICK F \in Loaded(disk) : facts' = [facts EXCEPT ![gen + 1] = F]
  BY DEF Restart
<1>4. /\ gen + 1 \in Gen /\ facts' \in [Gen -> SUBSET Fact] /\ SetsBounded'
      /\ facts'[gen'] = F /\ F \subseteq disk /\ (Bounded(disk) => F = disk)
      /\ data'[gen'] = {}
      /\ \A g \in Gen : \A E \in data'[g] : E = facts'[g]
      /\ \A g \in Gen : g > gen' => data'[g] = {}
      /\ \A f : (\E g \in Gen : f \in facts'[g])
                => f \in disk \/ \E g \in Gen : f \in facts[g]
  BY <1>2, <1>3, LoadEffect
<1>5. pc' \in [Call -> {"idle", "held", "save", "writing", "orphan", "done"}]
      /\ \A c \in Call : (pc'[c] = pc[c] \/ pc'[c] = "done") /\ pc'[c] \in {"idle", "done"}
  BY <1>2
<1>6. TypeOK'
  <2>1. ListTypes'
    BY <1>1, <1>2, <1>4, <1>5 DEF ListTypes
  <2>2. RequestTypes' /\ FileTypes'
    BY <1>1, <1>2 DEF RequestTypes, FileTypes
  <2>3. EntryTypes'
    BY <1>1, <1>2, <1>4 DEF EntryTypes
  <2> QED
    BY <2>1, <2>2, <2>3, MemoryTypePartsNext
<1>7. CallsOK'
  <2>1. \A f \in Fact : Seen(f)' => Seen(f)
    BY <1>2, <1>4 DEF Seen
  <2> QED
    BY <1>2, <1>5, <2>1, CallsStay
<1>8. StoreOK'
  <2>1. \A c \in Call : mem'[c] <= gen'
    <3>1. \A c \in Call : mem[c] <= gen /\ mem[c] \in Nat /\ gen \in Nat
      BY <1>1 DEF MemoryInv, StoreOK, RequestTypes, EntryTypes, Gen
    <3> QED
      BY <1>2, <3>1
  <2>2. /\ \A c, d \in Call :
              pc'[c] = "writing" /\ pc'[d] = "writing" /\ mem'[c] = mem'[d] => c = d
        /\ \A c \in Call : Bounded(out'[c])
        /\ Bounded(disk') \/ \A f \in disk' : f.by = Old
        /\ \A c \in Call : pc'[c] # "orphan"
    BY <1>2, <1>5 DEF MemoryInv, StoreOK
  <2> QED
    BY <1>4, <2>1, <2>2 DEF StoreOK, Bounded, Set
<1>9. PromisesOK'
  <2> SUFFICES ASSUME ~overlapped'
               PROVE  PresentOK' /\ ToldOK' /\ TellingOK' /\ (doubtful \/ FileOK)'
    BY DEF PromisesOK
  <2>1. PresentOK /\ FileOK /\ ~doubtful
    BY <1>2 DEF MemoryInv, PromisesOK
  <2>2. PresentOK'
    BY <1>2, <1>5, <2>1 DEF PresentOK, UnderWayOf
  <2>3. kept \subseteq F
    BY <1>4, <2>1, LoadedKeeps DEF MemoryInv, FileOK, PresentOK
  <2>4. ToldOK'
    BY <1>2, <1>4, <1>5, <2>1, <2>3 DEF ToldOK, FileOK
  <2>5. TellingOK'
    BY <1>2, <1>4, <1>5 DEF TellingOK, UnderWayOf
  <2>6. FileOK'
    BY <1>2, <1>4, <1>5, <2>1 DEF FileOK
  <2> QED
    BY <2>2, <2>4, <2>5, <2>6
<1> QED
  BY <1>4, <1>6, <1>7, <1>8, <1>9 DEF MemoryInv

\* The entry is removed, and its file with it.
LEMMA RemoveMemoryStep ==
    ASSUME MemoryInv, Remove
    PROVE  MemoryInv'
<1>1. TypeOK /\ ListTypes /\ RequestTypes /\ EntryTypes /\ FileTypes
  BY MemoryTypeParts DEF MemoryInv
<1>2. /\ loaded' = FALSE /\ disk' = {} /\ kept' = {}
      /\ gone' = gone \cup disk \cup facts[gen]
      /\ overlapped' = (overlapped \/ UnderWay \/ doubtful)
      /\ UNCHANGED <<admins, pc, user, owner, forget, todo, mem, removed, out, gen, facts, data,
                     doubtful>>
  BY DEF Remove, requestVars
<1>3. TypeOK'
  <2>1. gone' \subseteq Fact
    BY <1>1, <1>2 DEF ListTypes, EntryTypes, FileTypes
  <2>2. ListTypes'
    BY <1>1, <1>2, <2>1 DEF ListTypes
  <2>3. RequestTypes' /\ FileTypes'
    BY <1>1, <1>2 DEF RequestTypes, FileTypes
  <2>4. EntryTypes'
    BY <1>1, <1>2 DEF EntryTypes
  <2> QED
    BY <2>2, <2>3, <2>4, MemoryTypePartsNext
<1>4. SetsBounded'
  BY <1>2 DEF MemoryInv, SetsBounded
<1>5. CallsOK'
  <2>1. \A f \in Fact : Seen(f)' => Seen(f)
    BY <1>1, <1>2 DEF Seen, EntryTypes
  <2> QED
    BY <1>2, <2>1, CallsStay
<1>6. StoreOK'
  BY <1>2 DEF MemoryInv, StoreOK, Bounded, Set
<1>7. PromisesOK'
  <2> SUFFICES ASSUME ~overlapped'
               PROVE  PresentOK' /\ ToldOK' /\ TellingOK' /\ (doubtful \/ FileOK)'
    BY DEF PromisesOK
  <2>1. \A c \in Call : ~(pc[c] \in {"save", "writing"})
    BY <1>2 DEF UnderWay
  <2>2. PresentOK'
    BY <1>2, <2>1 DEF PresentOK, UnderWayOf
  <2>3. ToldOK'
    BY <1>2, <2>1 DEF ToldOK
  <2>4. TellingOK'
    BY <1>2, <2>1 DEF TellingOK, UnderWayOf
  <2>5. FileOK'
    BY <1>2 DEF FileOK
  <2> QED
    BY <2>2, <2>3, <2>4, <2>5
<1> QED
  BY <1>3, <1>4, <1>5, <1>6, <1>7 DEF MemoryInv

\* A call that is cancelled tells nothing; if it was writing, nothing is known of
\* the file any more.
LEMMA CancelStep ==
    ASSUME MemoryInv, NEW c \in Call, Cancel(c)
    PROVE  MemoryInv'
<1>1. TypeOK /\ ListTypes /\ RequestTypes /\ EntryTypes /\ FileTypes
  BY MemoryTypeParts DEF MemoryInv
<1>2. /\ todo' = [todo EXCEPT ![c] = <<>>]
      /\ UNCHANGED <<user, owner, forget, mem, removed, facts, data, disk, kept, gone,
                     entryVars>>
  BY DEF Cancel, requestVars, storeVars
<1>3. pc' \in [Call -> {"idle", "held", "save", "writing", "orphan", "done"}]
      /\ UnderWayOf(c) /\ pc'[c] \in {"done", "orphan"} /\ \A d \in Call \ {c} : pc'[d] = pc[d]
  BY <1>1 DEF Cancel, UnderWayOf, ListTypes
<1>4. \/ pc[c] = "save" /\ pc'[c] = "done" /\ out' = out /\ doubtful' = doubtful
      \/ pc[c] = "writing" /\ doubtful' = TRUE
  BY <1>3 DEF Cancel, storeVars, ListTypes
<1>5. out' \in [Call -> SUBSET Fact] /\ \A d \in Call : out'[d] = out[d] \/ out'[d] = {}
  BY <1>1 DEF Cancel, storeVars, FileTypes
<1>6. \A d \in Call \ {c} : out'[d] = out[d]
  BY <1>1 DEF Cancel, storeVars, FileTypes
<1>7. todo' \in [Call -> Todos] /\ todo'[c] = <<>> /\ \A d \in Call \ {c} : todo'[d] = todo[d]
  BY <1>1, <1>2, TodoEffect, NothingLeft
<1>8. TypeOK'
  <2>1. ListTypes'
    BY <1>1, <1>2, <1>3, <1>7 DEF ListTypes
  <2>2. RequestTypes' /\ EntryTypes'
    BY <1>1, <1>2 DEF RequestTypes, EntryTypes, entryVars
  <2>3. FileTypes'
    BY <1>1, <1>2, <1>4, <1>5 DEF FileTypes
  <2> QED
    BY <2>1, <2>2, <2>3, MemoryTypePartsNext
<1>9. SetsBounded'
  BY <1>2 DEF MemoryInv, SetsBounded
<1>10. CallsOK'
  <2>1. \A f \in Fact : Seen(f)' => Seen(f)
    BY <1>2, <1>5 DEF Seen
  <2>2. \A d \in Call : todo'[d] = todo[d] \/ todo'[d] = <<>>
    BY <1>7
  <2>3. \A d \in Call : pc'[d] = pc[d] \/ pc'[d] \in {"done", "orphan"}
    BY <1>3
  <2> QED
    BY <1>2, <2>1, <2>2, <2>3, CallsStay
<1>11. StoreOK'
  <2>1. /\ \A g \in Gen : \A F \in data'[g] : F = facts'[g]
        /\ \A g \in Gen : g > gen' => data'[g] = {}
        /\ \A d \in Call : mem'[d] <= gen'
        /\ Bounded(disk') \/ \A f \in disk' : f.by = Old
    BY <1>2 DEF MemoryInv, StoreOK, entryVars
  <2>2. \A d, e \in Call :
           pc'[d] = "writing" /\ pc'[e] = "writing" /\ mem'[d] = mem'[e] => d = e
    BY <1>2, <1>3 DEF MemoryInv, StoreOK
  <2>3. \A d \in Call : Bounded(out'[d])
    BY <1>5, NothingBounded DEF MemoryInv, StoreOK
  <2>4. \A d \in Call : pc'[d] = "orphan" => doubtful'
    BY <1>3, <1>4 DEF MemoryInv, StoreOK
  <2> QED
    BY <2>1, <2>2, <2>3, <2>4 DEF StoreOK, Bounded, Set
<1>12. PromisesOK'
  <2> SUFFICES ASSUME ~overlapped'
               PROVE  PresentOK' /\ ToldOK' /\ TellingOK' /\ (doubtful \/ FileOK)'
    BY DEF PromisesOK
  <2>1. PresentOK /\ ToldOK /\ TellingOK /\ (doubtful \/ FileOK)
    BY <1>2 DEF MemoryInv, PromisesOK, entryVars
  <2>2. PresentOK'
    BY <1>2, <1>3, <2>1 DEF PresentOK, UnderWayOf, entryVars
  <2>3. \A d \in Call : pc'[d] = "writing" => d # c /\ pc[d] = "writing" /\ out'[d] = out[d]
    BY <1>3, <1>6
  <2>4. ToldOK'
    BY <1>2, <2>1, <2>3 DEF ToldOK, entryVars
  <2>5. TellingOK'
    <3>1. \A d \in Call : UnderWayOf(d)' => UnderWayOf(d)
      BY <1>3 DEF UnderWayOf
    <3> QED
      BY <1>2, <2>1, <2>3, <3>1 DEF TellingOK, entryVars
  <2>6. ASSUME ~doubtful' PROVE FileOK'
    <3>1. FileOK /\ pc[c] = "save" /\ pc'[c] = "done"
      BY <1>4, <2>1, <2>6
    <3>2. \A d \in Call : /\ pc[d] = "writing" <=> pc'[d] = "writing"
                          /\ pc'[d] = "save" => pc[d] = "save"
      BY <1>3, <3>1
    <3> QED
      BY <1>2, <3>1, <3>2 DEF FileOK, entryVars
  <2> QED
    BY <2>2, <2>4, <2>5, <2>6
<1> QED
  BY <1>8, <1>9, <1>10, <1>11, <1>12 DEF MemoryInv

\* The write of a cancelled call replaces a file that was doubtful, and stays so.
LEMMA LateWriteStep ==
    ASSUME MemoryInv, NEW c \in Call, LateWrite(c)
    PROVE  MemoryInv'
<1>1. TypeOK /\ ListTypes /\ RequestTypes /\ EntryTypes /\ FileTypes
  BY MemoryTypeParts DEF MemoryInv
<1>2. /\ pc[c] = "orphan" /\ disk' = out[c]
      /\ UNCHANGED <<user, owner, forget, mem, todo, removed, facts, data, doubtful,
                     kept, gone, entryVars>>
  BY DEF LateWrite, requestVars
<1>3. pc' \in [Call -> {"idle", "held", "save", "writing", "orphan", "done"}]
      /\ pc'[c] = "done" /\ \A d \in Call \ {c} : pc'[d] = pc[d]
  BY <1>1 DEF LateWrite, ListTypes
<1>4. out' \in [Call -> SUBSET Fact] /\ out'[c] = {} /\ \A d \in Call \ {c} : out'[d] = out[d]
  BY <1>1 DEF LateWrite, FileTypes
<1>5. TypeOK'
  <2>1. ListTypes'
    BY <1>1, <1>2, <1>3 DEF ListTypes
  <2>2. RequestTypes' /\ EntryTypes'
    BY <1>1, <1>2 DEF RequestTypes, EntryTypes, entryVars
  <2>3. disk' \subseteq Fact
    BY <1>1, <1>2 DEF FileTypes
  <2>4. FileTypes'
    BY <1>1, <1>2, <1>4, <2>3 DEF FileTypes
  <2> QED
    BY <2>1, <2>2, <2>4, MemoryTypePartsNext
<1>6. SetsBounded'
  BY <1>2 DEF MemoryInv, SetsBounded
<1>7. CallsOK'
  <2>1. \A f \in Fact : Seen(f)' => Seen(f)
    BY <1>2, <1>4 DEF Seen
  <2>2. \A d \in Call : pc'[d] = pc[d] \/ pc'[d] = "done"
    BY <1>3
  <2> QED
    BY <1>2, <2>1, <2>2, CallsStay
<1>8. doubtful
  BY <1>2 DEF MemoryInv, StoreOK
<1>9. StoreOK'
  <2>1. /\ \A g \in Gen : \A F \in data'[g] : F = facts'[g]
        /\ \A g \in Gen : g > gen' => data'[g] = {}
        /\ \A d \in Call : mem'[d] <= gen'
    BY <1>2 DEF MemoryInv, StoreOK, entryVars
  <2>2. \A d, e \in Call :
           pc'[d] = "writing" /\ pc'[e] = "writing" /\ mem'[d] = mem'[e] => d = e
    BY <1>2, <1>3 DEF MemoryInv, StoreOK
  <2>3. Bounded(disk') /\ \A d \in Call : Bounded(out'[d])
    BY <1>2, <1>4, NothingBounded DEF MemoryInv, StoreOK
  <2>4. doubtful'
    BY <1>2, <1>8
  <2> QED
    BY <2>1, <2>2, <2>3, <2>4 DEF StoreOK, Bounded, Set
<1>10. PromisesOK'
  <2> SUFFICES ASSUME ~overlapped' PROVE PresentOK' /\ ToldOK' /\ TellingOK'
    BY <1>2, <1>8 DEF PromisesOK
  <2>1. PresentOK /\ ToldOK /\ TellingOK
    BY <1>2 DEF MemoryInv, PromisesOK, entryVars
  <2>2. \A d \in Call : /\ UnderWayOf(d)' <=> UnderWayOf(d)
                        /\ pc'[d] = "writing" => pc[d] = "writing" /\ out'[d] = out[d]
    BY <1>2, <1>3, <1>4 DEF UnderWayOf
  <2> QED
    BY <1>2, <2>1, <2>2 DEF PresentOK, ToldOK, TellingOK, entryVars
<1> QED
  BY <1>5, <1>6, <1>7, <1>9, <1>10 DEF MemoryInv

\* Who is an administrator is of no matter to the facts there are.
LEMMA AdminsStep ==
    ASSUME MemoryInv, admins' \subseteq User,
           UNCHANGED <<pc, user, owner, forget, todo, mem, removed, out, gen, facts, data,
                       disk, doubtful, loaded, kept, gone, overlapped>>
    PROVE  MemoryInv'
<1>1. TypeOK'
  BY DEF MemoryInv, TypeOK
<1>2. SetsBounded'
  BY DEF MemoryInv, SetsBounded
<1>3. CallsOK'
  <2>1. \A f \in Fact : Seen(f)' => Seen(f)
    BY DEF Seen
  <2> QED
    BY <2>1, CallsStay
<1>4. StoreOK'
  BY DEF MemoryInv, StoreOK, Bounded, Set
<1>5. PromisesOK'
  BY DEF MemoryInv, PromisesOK, PresentOK, ToldOK, TellingOK, FileOK, UnderWayOf
<1> QED
  BY <1>1, <1>2, <1>3, <1>4, <1>5 DEF MemoryInv

-----------------------------------------------------------------------------
(* The theorems. *)

\* At first nothing was told, and the list is what was kept of the file.
LEMMA MemoryInitInv == Init => MemoryInv
<1> SUFFICES ASSUME Init PROVE MemoryInv
  OBVIOUS
<1>1. disk \subseteq Fact /\ \A f \in disk : f.by = Old
  BY DEF Init, Fact
<1>2. PICK F \in Loaded(disk) : facts = [g \in Gen |-> IF g = 0 THEN F ELSE {}]
  BY DEF Init
<1>3. F \subseteq disk /\ Bounded(F)
  BY <1>1, LoadedFacts
<1>4. facts \in [Gen -> SUBSET Fact]
      /\ \A g \in Gen : facts[g] \subseteq disk /\ Bounded(facts[g])
  BY <1>1, <1>2, <1>3, NothingBounded
<1>5. gen = 0 /\ 0 \in Gen
  BY DEF Init, Gen
<1>6. TypeOK
  <2>1. ListTypes
    BY <1>4, NothingLeft DEF Init, ListTypes
  <2>2. RequestTypes
    BY <1>5 DEF Init, RequestTypes
  <2>3. EntryTypes
    BY <1>5 DEF Init, EntryTypes
  <2>4. FileTypes
    BY <1>1 DEF Init, FileTypes
  <2> QED
    BY <2>1, <2>2, <2>3, <2>4, MemoryTypeParts
<1>7. SetsBounded
  BY <1>4 DEF SetsBounded, Bounded, Owners
<1>8. CallsOK
  <2>1. \A f : Seen(f) => f \in disk
    BY <1>4 DEF Init, Seen
  <2>2. \A c \in Call, f \in disk : f.by # c
    BY <1>1
  <2>3. \A c \in Call : pc[c] = "idle" /\ todo[c] = <<>> /\ removed[c] = {}
    BY DEF Init
  <2> QED
    BY <2>1, <2>2, <2>3, NothingLeft DEF CallsOK
<1>9. StoreOK
  <2>1. \A c \in Call : mem[c] <= gen
    BY <1>5 DEF Init
  <2>2. \A c \in Call : Bounded(out[c])
    BY NothingBounded DEF Init
  <2> QED
    BY <1>1, <2>1, <2>2 DEF Init, StoreOK
<1>10. PromisesOK
  BY <1>4, <1>5 DEF Init, PromisesOK, PresentOK, ToldOK, TellingOK, FileOK, UnderWayOf
<1> QED
  BY <1>6, <1>7, <1>8, <1>9, <1>10 DEF MemoryInv

\* A call's step on its list.
LEMMA MemoryCallStep ==
    ASSUME MemoryInv, NEW c \in Call,
           \/ ServiceRemember(c) \/ ServiceForget(c) \/ ApplyChange(c)
           \/ AlreadyWritten(c) \/ Write(c)
    PROVE  MemoryInv'
<1>1. CallStep(c) /\ (Begins(c) \/ Continues(c))
  BY BeginSteps, ContinueSteps
<1>2. FileStep(c)
  <2>1. CASE Write(c)
    <3>1. out' = [out EXCEPT ![c] = {}] /\ out \in [Call -> SUBSET Fact]
      BY <2>1 DEF Write, MemoryInv, TypeOK
    <3>2. out'[c] = {} /\ \A d \in Call \ {c} : out'[d] = out[d]
      BY <3>1
    <3> QED
      BY <2>1, <3>2 DEF Write, FileStep
  <2>2. CASE AlreadyWritten(c)
    BY <2>2 DEF AlreadyWritten, storeVars, FileStep
  <2>3. CASE ServiceRemember(c) \/ ServiceForget(c) \/ ApplyChange(c)
    <3>1. Begins(c)
      BY <2>3, BeginSteps
    <3> QED
      BY <3>1 DEF Begins, storeVars, FileStep
  <2> QED
    BY <2>1, <2>2, <2>3
<1>3. PromisesOK'
  <2>1. CASE ServiceRemember(c) \/ ServiceForget(c) \/ ApplyChange(c)
    BY <2>1, BeginSteps, BeginPromises
  <2>2. CASE AlreadyWritten(c)
    BY <2>2, ContinueSteps, AlreadyPromises
  <2>3. CASE Write(c)
    BY <2>3, ContinueSteps, WritePromises
  <2> QED
    BY <2>1, <2>2, <2>3
<1>4. TypeOK'
  BY <1>1 DEF CallStep
<1>5. SetsBounded' /\ CallsOK' /\ StoreOK'
  BY <1>1, <1>2, CallBounded, CallCallsOK, CallStoreOK
<1> QED
  BY <1>3, <1>4, <1>5 DEF MemoryInv

\* Every step keeps what is known.
LEMMA MemoryStep == MemoryInv /\ [Next]_vars => MemoryInv'
<1> SUFFICES ASSUME MemoryInv, [Next]_vars PROVE MemoryInv'
  OBVIOUS
<1>1. ASSUME NEW c \in Call,
             \/ ServiceRemember(c) \/ ServiceForget(c)
             \/ AskChange(c) \/ ApplyChange(c)
             \/ StartWrite(c) \/ AlreadyWritten(c) \/ Write(c)
             \/ Cancel(c) \/ LateWrite(c)
      PROVE  MemoryInv'
  BY <1>1, MemoryCallStep, AskChangeStep, StartWriteStep, CancelStep, LateWriteStep
<1>2. CASE ChangeAdmins
  BY <1>2, AdminsStep DEF ChangeAdmins, requestVars
<1>3. CASE UNCHANGED vars
  <2>1. admins' \subseteq User
    BY <1>3 DEF vars, MemoryInv, TypeOK
  <2> QED
    BY <1>3, <2>1, AdminsStep DEF vars
<1> QED
  BY <1>1, <1>2, <1>3, ReloadStep, RestartStep, RemoveMemoryStep DEF Next

\* What is known of the facts and the calls is known at all times.
LEMMA MemoryInvariant == Spec => []MemoryInv
BY MemoryInitInv, MemoryStep, PTL DEF Spec

\* The variables keep their types.
THEOREM TypeCorrect == Spec => []TypeOK
<1>1. MemoryInv => TypeOK
  BY DEF MemoryInv
<1> QED
  BY <1>1, MemoryInvariant, PTL

\* No set grows beyond MAX_FACTS, for any number of calls that overlap and any
\* file they start from (async_load, async_remember).
THEOREM NoSetOverflows == Spec => []SetsBounded
<1>1. MemoryInv => SetsBounded
  BY DEF MemoryInv
<1> QED
  BY <1>1, MemoryInvariant, PTL

\* What any call told is kept is in the list, and on disk, until somebody removes
\* it, whatever other calls and restarts come between (_async_save before the
\* reply), but for the two named exceptions: a Memory replaced under a save, and
\* a file that a cancelled write has left doubtful.
THEOREM KeptOnDisk == Spec => []SaidIsKept
<1>1. MemoryInv => SaidIsKept
  BY DEF MemoryInv, PromisesOK, PresentOK, ToldOK, FileOK, SaidIsKept
<1> QED
  BY <1>1, MemoryInvariant, PTL

\* What any call told is removed stays away from the file and from the list,
\* through writes of other calls, reloads and restarts (async_forget), but for
\* the same two exceptions.
THEOREM RemovedForGood == Spec => []ForgottenStaysGone
<1>1. MemoryInv => ForgottenStaysGone
  BY DEF MemoryInv, PromisesOK, PresentOK, ToldOK, FileOK, ForgottenStaysGone
<1> QED
  BY <1>1, MemoryInvariant, PTL

\* A step that changes the present list is a call's, on facts that are its
\* user's to change at that moment.
LEMMA OwnFacts ==
    ASSUME MemoryInv, Next, gen' = gen,
           NEW f \in (facts[gen] \cup facts'[gen]) \ (facts[gen] \cap facts'[gen])
    PROVE  \E c \in Call :
              /\ pc'[c] # pc[c] \/ todo'[c] # todo[c]
              /\ \/ f.owner = user'[c]
                 \/ f.owner = NoUser /\ MayEditHousehold(user'[c])
<1>1. gen \in Gen /\ facts'[gen] # facts[gen]
  BY DEF MemoryInv, TypeOK
<1>2. PICK c \in Call : \/ ServiceRemember(c) \/ ServiceForget(c) \/ ApplyChange(c)
                        \/ AlreadyWritten(c) \/ Write(c)
  <2>1. ~ChangeAdmins /\ ~Remove
    BY <1>1 DEF ChangeAdmins, Remove
  <2>2. ~Reload /\ ~Restart
    <3>1. gen + 1 # gen
      BY DEF MemoryInv, TypeOK, Gen
    <3> QED
      BY <3>1 DEF Reload, Restart
  <2>3. \A d \in Call : ~AskChange(d) /\ ~StartWrite(d) /\ ~Cancel(d) /\ ~LateWrite(d)
    BY <1>1 DEF AskChange, StartWrite, Cancel, LateWrite
  <2> QED
    BY <2>1, <2>2, <2>3 DEF Next
<1>3. CallStep(c) /\ (Begins(c) \/ Continues(c))
  BY <1>2, BeginSteps, ContinueSteps
<1>4. gen = mem'[c] /\ ~Tells(c) /\ ~Stops(c)
  BY <1>1, <1>3 DEF CallStep, Outcome, Tells, Stops
<1>5. CASE Drops(c)
  <2>1. f \in removed'[c] /\ pc'[c] # pc[c]
    BY <1>4, <1>5 DEF Drops, Stores
  <2>2. f \in Editable(facts[gen], user'[c])
    BY <1>4, <1>5, <2>1 DEF Drops
  <2> QED
    BY <2>1, <2>2 DEF Editable
<1>6. ASSUME NEW x \in Fact, Adds(c, x)
      PROVE  \E d \in Call :
                /\ pc'[d] # pc[d] \/ todo'[d] # todo[d]
                /\ \/ f.owner = user'[d]
                   \/ f.owner = NoUser /\ MayEditHousehold(user'[d])
  <2>1. f = x
    BY <1>4, <1>6 DEF Adds
  <2>2. pc'[c] # pc[c] \/ todo'[c] # todo[c]
    BY <1>6 DEF Adds, Stores
  <2>3. \/ f.owner = user'[c]
        \/ f.owner = NoUser /\ MayEditHousehold(user'[c])
    BY <1>6, <2>1 DEF Adds, Allowed
  <2> QED
    BY <2>2, <2>3
<1> QED
  BY <1>3, <1>4, <1>5, <1>6 DEF CallStep, Outcome

\* A call changes its own user's facts, and the household's only for somebody
\* who is an administrator at that moment (async_may_edit_household).
THEOREM NobodyElsesFacts == Spec => OnlyOnesOwn
<1>1. MemoryInv /\ [Next]_vars =>
        [gen' = gen =>
           \A f \in (facts[gen] \cup facts'[gen]) \ (facts[gen] \cap facts'[gen]) :
              \E c \in Call :
                 /\ pc'[c] # pc[c] \/ todo'[c] # todo[c]
                 /\ \/ f.owner = user'[c]
                    \/ f.owner = NoUser /\ MayEditHousehold(user'[c])]_vars
  BY OwnFacts
<1> QED
  BY <1>1, MemoryInvariant, PTL DEF OnlyOnesOwn, Spec

=============================================================================
