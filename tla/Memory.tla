------------------------------- MODULE Memory -------------------------------
(***************************************************************************)
(* Remembered facts (custom_components/claude_ha/memory.py) and the calls  *)
(* that change them: the remember and forget actions (services.py) and a   *)
(* confirmed memory change of the chat (conversation.py).                  *)
(*                                                                         *)
(* A call changes the list at once and then awaits the save; other calls   *)
(* run meanwhile.  An entry that is reloaded (its options were changed)    *)
(* gets a new Memory, while a call goes on with the one it started with.   *)
(* A call may be cancelled at its save, with the chat turn or the script   *)
(* that made it: the thread that writes goes on without it, and without    *)
(* the Store's lock.                                                       *)
(*                                                                         *)
(* A fact is its owner, its text (case folded) and, for the random id, the *)
(* call that added it.  Home Assistant's Store is external: saves are      *)
(* written one at a time, each with the newest data it was given, and a    *)
(* file is replaced atomically.                                            *)
(***************************************************************************)
EXTENDS Naturals, FiniteSets, Sequences

CONSTANTS
    Call,      \* calls, each made once
    User,      \* users with an account
    NoUser,    \* the user_id of a call without one, and of a household fact
    Text,      \* what a fact may say
    Old,       \* who added the facts that are stored at the start
    MaxFacts,  \* MAX_FACTS
    MaxGen     \* bound on reloads and restarts

ASSUME MemoryConstants ==
    /\ NoUser \notin User
    /\ Old \notin Call
    /\ IsFiniteSet(Call) /\ IsFiniteSet(User) /\ IsFiniteSet(Text)
    /\ MaxFacts \in Nat \ {0}
    /\ MaxGen \in Nat

Fact == [by : Call \cup {Old}, owner : User \cup {NoUser}, text : Text]
Gen == 0..MaxGen

\* One text is enough for the action, a change may have more than one.
Todos == {<<>>} \cup {<<t>> : t \in Text} \cup
         {<<t, u>> : t \in Text, u \in Text}

VARIABLES
    admins,     \* the users who are administrators now
    pc,         \* call -> "idle", "held" for a yes, "save", "writing", "done", or
                \* "orphan" (cancelled, its write goes on without it)
    user,       \* call -> its user_id
    owner,      \* call -> whose set it remembers in
    forget,     \* call -> the facts whose ids its held change names
    todo,       \* call -> the texts it has still to remember
    mem,        \* call -> the Memory it works on
    removed,    \* call -> the facts it has removed
    out,        \* call -> the data it is writing
    gen,        \* the entry's present Memory
    facts,      \* Memory -> _facts
    data,       \* Memory -> the list its Store has still to write, if any
    disk,       \* the stored facts
    doubtful,   \* a write was cancelled, and the file not written since with
                \* no such write left that may still replace it
    loaded,     \* whether the entry is still there
    kept,       \* facts a caller was told are kept, and nobody removed since
    gone,       \* facts a caller was told are removed, or whose entry is
    overlapped  \* a Memory was replaced or dropped while a save was under way
                \* or the file doubtful

vars == <<admins, pc, user, owner, forget, todo, mem, removed, out, gen, facts,
          data, disk, doubtful, loaded, kept, gone, overlapped>>
requestVars == <<user, owner, forget>>
entryVars == <<admins, gen, loaded, overlapped>>
storeVars == <<out, disk, doubtful>>

TypeOK ==
    /\ admins \subseteq User
    /\ pc \in [Call -> {"idle", "held", "save", "writing", "orphan", "done"}]
    /\ user \in [Call -> User \cup {NoUser}]
    /\ owner \in [Call -> User \cup {NoUser}]
    /\ forget \in [Call -> SUBSET Fact]
    /\ todo \in [Call -> Todos]
    /\ mem \in [Call -> Gen]
    /\ removed \in [Call -> SUBSET Fact]
    /\ out \in [Call -> SUBSET Fact]
    /\ gen \in Gen
    /\ facts \in [Gen -> SUBSET Fact]
    /\ data \in [Gen -> SUBSET SUBSET Fact]
    /\ disk \subseteq Fact
    /\ doubtful \in BOOLEAN
    /\ loaded \in BOOLEAN
    /\ kept \subseteq Fact
    /\ gone \subseteq Fact
    /\ overlapped \in BOOLEAN

-----------------------------------------------------------------------------
(* Memory. *)

Set(F, o) == {f \in F : f.owner = o}
Has(F, o, text) == \E f \in Set(F, o) : f.text = text
Full(F, o) == Cardinality(Set(F, o)) >= MaxFacts

\* async_may_edit_household: asked each time it matters.
MayEditHousehold(u) == u = NoUser \/ u \in admins

\* editable: the caller's own facts, and the household's if it may.
Editable(F, u) ==
    {f \in F : \/ f.owner = NoUser /\ MayEditHousehold(u)
               \/ f.owner # NoUser /\ f.owner = u}

\* Bug: what was offered for removal is removed, whoever may remove it now.
MutRemovable(F, u, ids) == F \cap ids

\* async_forget: of the ids it is given, those the caller may remove.
Removable(F, u, ids) == Editable(F, u) \cap ids

\* Bug: a set that was stored too large is loaded as it is.
MutLoaded(d) == {d}

\* async_load keeps the first MAX_FACTS facts of a set; which those are is left
\* open, the order of the list is not modelled.
Loaded(d) ==
    {F \in SUBSET d :
       \A o \in User \cup {NoUser} :
          /\ Cardinality(Set(F, o)) <= MaxFacts
          /\ Cardinality(Set(d, o)) <= MaxFacts => Set(F, o) = Set(d, o)
          /\ Cardinality(Set(d, o)) > MaxFacts => Cardinality(Set(F, o)) = MaxFacts}

\* Bug: the save is left to the background.
MutSave(c, F) ==
    /\ facts' = [facts EXCEPT ![mem'[c]] = F]
    /\ data' = [data EXCEPT ![mem'[c]] = {F}]
    /\ pc' = [pc EXCEPT ![c] = "done"]
    /\ kept' = (kept \ removed'[c]) \cup {f \in F : f.by = c}
    /\ gone' = gone \cup removed'[c]

\* The list is replaced and its save awaited.  What the call removed is no
\* longer kept, whoever was told that it is.
Save(c, F) ==
    /\ facts' = [facts EXCEPT ![mem'[c]] = F]
    /\ data' = [data EXCEPT ![mem'[c]] = {F}]
    /\ pc' = [pc EXCEPT ![c] = "save"]
    /\ kept' = kept \ removed'[c]
    /\ UNCHANGED gone

\* The caller is told what was removed and what was added.
Told(c) ==
    /\ pc' = [pc EXCEPT ![c] = "done"]
    /\ kept' = kept \cup {f \in facts[mem'[c]] : f.by = c}
    /\ gone' = gone \cup removed'[c]
    /\ UNCHANGED <<facts, data>>

\* Bug: the call that failed is left in a state of its own.
MutFailed(c) ==
    /\ pc' = [pc EXCEPT ![c] = "failed"]
    /\ UNCHANGED <<facts, data, kept, gone>>

\* The caller is told about an error, and of nothing that was done before it.
Failed(c) ==
    /\ pc' = [pc EXCEPT ![c] = "done"]
    /\ UNCHANGED <<facts, data, kept, gone>>

\* async_remember, for one text after another up to the first that has to be
\* saved; a text that is there already is reported as kept at once.
Remember(c, texts) ==
    LET m == mem'[c]
        o == owner'[c]
        new == {i \in DOMAIN texts : ~Has(facts[m], o, texts[i])}
    IN  \/ new = {} /\ Told(c) /\ todo' = [todo EXCEPT ![c] = <<>>]
        \/ \E i \in new :
             /\ \A j \in new : i <= j
             /\ \/ Full(facts[m], o) /\ Failed(c) /\ todo' = [todo EXCEPT ![c] = <<>>]
                \/ /\ ~Full(facts[m], o)
                   /\ Save(c, facts[m] \cup {[by |-> c, owner |-> o, text |-> texts[i]]})
                   /\ todo' = [todo EXCEPT ![c] = SubSeq(texts, i + 1, Len(texts))]

\* Bug: the save is started before the facts are taken out.
MutForget(c, ids, texts) ==
    LET F == facts[mem'[c]]
        R == Removable(F, user'[c], ids)
    IN  \/ /\ R # {}
           /\ removed' = [removed EXCEPT ![c] = R]
           /\ facts' = [facts EXCEPT ![mem'[c]] = F \ R]
           /\ data' = [data EXCEPT ![mem'[c]] = {F}]
           /\ pc' = [pc EXCEPT ![c] = "save"]
           /\ kept' = kept \ R
           /\ todo' = [todo EXCEPT ![c] = texts]
           /\ UNCHANGED gone
        \/ R = {} /\ UNCHANGED removed /\ Remember(c, texts)

\* async_forget, and what is to be remembered after it.
Forget(c, ids, texts) ==
    LET F == facts[mem'[c]]
        R == Removable(F, user'[c], ids)
    IN  \/ /\ R # {}
           /\ removed' = [removed EXCEPT ![c] = R]
           /\ Save(c, F \ R)
           /\ todo' = [todo EXCEPT ![c] = texts]
        \/ /\ R = {}
           /\ UNCHANGED removed
           /\ Remember(c, texts)

-----------------------------------------------------------------------------
(* Calls. *)

Start(c) ==
    /\ pc[c] = "idle"
    /\ loaded
    /\ mem' = [mem EXCEPT ![c] = gen]
    /\ UNCHANGED <<entryVars, storeVars>>

\* claude_ha.remember.  For the household it takes an administrator.
ServiceRemember(c) ==
    /\ Start(c)
    /\ UNCHANGED <<forget, removed>>
    /\ \E u \in User \cup {NoUser}, household \in BOOLEAN, text \in Text :
         /\ user' = [user EXCEPT ![c] = u]
         /\ owner' = [owner EXCEPT ![c] = IF household THEN NoUser ELSE u]
         /\ IF household /\ ~MayEditHousehold(u)
            THEN Failed(c) /\ UNCHANGED todo
            ELSE Remember(c, <<text>>)

\* claude_ha.forget: all the caller may remove, or ids it names, whose they are.
ServiceForget(c) ==
    /\ Start(c)
    /\ \E u \in User \cup {NoUser}, ids \in {{f} : f \in facts[gen]} \cup {facts[gen]} :
         /\ user' = [user EXCEPT ![c] = u]
         /\ UNCHANGED <<owner, forget>>
         /\ Forget(c, ids, <<>>)

\* _memory_confirm_reply: a change is offered and held; only facts the caller
\* may remove are offered for removal, and a change of nothing is not offered.
AskChange(c) ==
    /\ Start(c)
    /\ \E u \in User, texts \in Todos, ids \in {{}} \cup {{f} : f \in facts[gen]} :
         /\ ids \subseteq Editable(facts[gen], u)
         /\ texts # <<>> \/ ids # {}
         /\ Len(texts) = 2 => texts[1] # texts[2]
         /\ user' = [user EXCEPT ![c] = u]
         /\ owner' = [owner EXCEPT ![c] = u]
         /\ forget' = [forget EXCEPT ![c] = ids]
         /\ todo' = [todo EXCEPT ![c] = texts]
    /\ pc' = [pc EXCEPT ![c] = "held"]
    /\ UNCHANGED <<removed, facts, data, kept, gone>>

\* _async_apply_memory, on the yes: by then the caller may no longer be an
\* administrator, and the entry may have another Memory.
ApplyChange(c) ==
    /\ pc[c] = "held"
    /\ loaded
    /\ mem' = [mem EXCEPT ![c] = gen]
    /\ forget' = [forget EXCEPT ![c] = {}]
    /\ UNCHANGED <<user, owner>>
    /\ Forget(c, forget[c], todo[c])
    /\ UNCHANGED <<entryVars, storeVars>>

-----------------------------------------------------------------------------
(* The Store. *)

\* The call goes on after its save.
Saved(c) == UNCHANGED removed /\ Remember(c, todo[c])

\* The call gets the Store's write lock, and finds data to write ...
StartWrite(c) ==
    /\ pc[c] = "save"
    /\ \A d \in Call : mem[d] = mem[c] => pc[d] # "writing"
    /\ \E F \in data[mem[c]] : out' = [out EXCEPT ![c] = F]
    /\ data' = [data EXCEPT ![mem[c]] = {}]
    /\ pc' = [pc EXCEPT ![c] = "writing"]
    /\ UNCHANGED <<requestVars, todo, mem, removed, facts, disk, doubtful, kept, gone,
                   entryVars>>

\* ... or another call's write took its data with it.
AlreadyWritten(c) ==
    /\ pc[c] = "save"
    /\ \A d \in Call : mem[d] = mem[c] => pc[d] # "writing"
    /\ data[mem[c]] = {}
    /\ UNCHANGED <<requestVars, mem>>
    /\ Saved(c)
    /\ UNCHANGED <<entryVars, storeVars>>

Write(c) ==
    /\ pc[c] = "writing"
    /\ disk' = out[c]
    /\ out' = [out EXCEPT ![c] = {}]
    /\ doubtful' = (doubtful /\ \E d \in Call : pc[d] = "orphan")
    /\ UNCHANGED <<requestVars, mem>>
    /\ Saved(c)
    /\ UNCHANGED entryVars

\* A call under way is cancelled.  One that waits leaves its data to whoever
\* writes next.  One that writes gives up the lock, and its write, once begun,
\* goes on in a thread; a write that was not begun is dropped with its data.
Cancel(c) ==
    /\ \/ pc[c] = "save" /\ pc' = [pc EXCEPT ![c] = "done"] /\ UNCHANGED storeVars
       \/ /\ pc[c] = "writing"
          /\ doubtful' = TRUE
          /\ \/ pc' = [pc EXCEPT ![c] = "orphan"] /\ UNCHANGED out
             \/ pc' = [pc EXCEPT ![c] = "done"] /\ out' = [out EXCEPT ![c] = {}]
          /\ UNCHANGED disk
    /\ todo' = [todo EXCEPT ![c] = <<>>]
    /\ UNCHANGED <<requestVars, mem, removed, facts, data, kept, gone, entryVars>>

\* The write of a cancelled call lands, whatever was written since.
LateWrite(c) ==
    /\ pc[c] = "orphan"
    /\ disk' = out[c]
    /\ out' = [out EXCEPT ![c] = {}]
    /\ pc' = [pc EXCEPT ![c] = "done"]
    /\ UNCHANGED <<requestVars, todo, mem, removed, facts, data, doubtful, kept, gone,
                   entryVars>>

-----------------------------------------------------------------------------
(* The environment. *)

UnderWay == \E c \in Call : pc[c] \in {"save", "writing"}

\* A new Memory is loaded; holds and calls under way survive.
Reload ==
    /\ loaded /\ gen < MaxGen
    /\ gen' = gen + 1
    /\ \E F \in Loaded(disk) : facts' = [facts EXCEPT ![gen + 1] = F]
    /\ overlapped' = (overlapped \/ UnderWay \/ doubtful)
    /\ UNCHANGED <<admins, pc, requestVars, todo, mem, removed, data, storeVars, loaded,
                   kept, gone>>

\* Home Assistant stops at any moment: only the file is left.
Restart ==
    /\ loaded /\ gen < MaxGen
    /\ gen' = gen + 1
    /\ \E F \in Loaded(disk) : facts' = [facts EXCEPT ![gen + 1] = F]
    /\ pc' = [c \in Call |-> IF pc[c] = "idle" THEN "idle" ELSE "done"]
    /\ overlapped' = (overlapped \/ doubtful)
    /\ UNCHANGED <<admins, requestVars, todo, mem, removed, data, storeVars, loaded,
                   kept, gone>>

\* async_remove_memory: the file is deleted, through another Store.
Remove ==
    /\ loaded
    /\ loaded' = FALSE
    /\ disk' = {}
    /\ kept' = {}
    /\ gone' = gone \cup disk \cup facts[gen]
    /\ overlapped' = (overlapped \/ UnderWay \/ doubtful)
    /\ UNCHANGED <<admins, pc, requestVars, todo, mem, removed, out, gen, facts, data,
                   doubtful>>

\* A user becomes an administrator or stops being one.
ChangeAdmins ==
    /\ admins' \in SUBSET User
    /\ admins' # admins
    /\ UNCHANGED <<pc, requestVars, todo, mem, removed, out, gen, facts, data, disk,
                   doubtful, loaded, kept, gone, overlapped>>

-----------------------------------------------------------------------------

\* The file may hold anything a person put there, so a set may be too large.
Init ==
    /\ admins \in SUBSET User
    /\ pc = [c \in Call |-> "idle"]
    /\ user = [c \in Call |-> NoUser]
    /\ owner = [c \in Call |-> NoUser]
    /\ forget = [c \in Call |-> {}]
    /\ todo = [c \in Call |-> <<>>]
    /\ mem = [c \in Call |-> 0]
    /\ removed = [c \in Call |-> {}]
    /\ out = [c \in Call |-> {}]
    /\ gen = 0
    /\ disk \in SUBSET [by : {Old}, owner : User \cup {NoUser}, text : Text]
    /\ \E F \in Loaded(disk) : facts = [g \in Gen |-> IF g = 0 THEN F ELSE {}]
    /\ data = [g \in Gen |-> {}]
    /\ doubtful = FALSE
    /\ loaded = TRUE
    /\ kept = {}
    /\ gone = {}
    /\ overlapped = FALSE

Next ==
    \/ \E c \in Call :
         \/ ServiceRemember(c) \/ ServiceForget(c)
         \/ AskChange(c) \/ ApplyChange(c)
         \/ StartWrite(c) \/ AlreadyWritten(c) \/ Write(c)
         \/ Cancel(c) \/ LateWrite(c)
    \/ Reload \/ Restart \/ Remove
    \/ ChangeAdmins

Spec == Init /\ [][Next]_vars

-----------------------------------------------------------------------------
(* Properties. *)

\* No set ever holds more than MAX_FACTS facts, whatever was in the file and
\* however calls overlap ("at most 50 per person and 50 for the household").
SetsBounded ==
    \A g \in Gen, o \in User \cup {NoUser} : Cardinality(Set(facts[g], o)) <= MaxFacts

\* What a caller was told is kept is in the list, and on disk so that it
\* survives a restart at any moment, until somebody removes it.  Two things may
\* break it, both named: a Memory is replaced in the middle of a save
\* (overlapped, for good), and a call is cancelled while it writes, whose older
\* list may land later or whose newer one may be lost (doubtful, of the file
\* only, and only until the same Memory has written again).
SaidIsKept ==
    overlapped \/ /\ loaded => kept \subseteq facts[gen]
                  /\ doubtful \/ kept \subseteq disk

\* What a caller was told is removed never comes back, not by an older list
\* that is written later, and not after a restart; nor does anything of a
\* removed entry (the same exceptions).
ForgottenStaysGone ==
    overlapped \/ /\ loaded => gone \cap facts[gen] = {}
                  /\ doubtful \/ gone \cap disk = {}

\* A call changes its own user's facts, and the household's only for somebody
\* who is an administrator at that moment: a yes given after that right was lost
\* changes nothing (async_may_edit_household).
OnlyOnesOwn ==
    [][gen' = gen =>
         \A f \in (facts[gen] \cup facts'[gen]) \ (facts[gen] \cap facts'[gen]) :
            \E c \in Call :
               /\ pc'[c] # pc[c] \/ todo'[c] # todo[c]
               /\ \/ f.owner = user'[c]
                  \/ f.owner = NoUser /\ MayEditHousehold(user'[c])]_vars
=============================================================================
