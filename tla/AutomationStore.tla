-------------------------- MODULE AutomationStore --------------------------
(***************************************************************************)
(* The confirmed writers of automations.yaml                               *)
(* (custom_components/claude_ha/automation_commit.py).                     *)
(*                                                                         *)
(* A request (create, update or delete) runs as a task on the event loop.  *)
(* Its file work is done by jobs in the executor's threads: the task waits *)
(* for the job, but a task that is cancelled leaves its job running.  Home *)
(* Assistant's own automation editor, or a person, may write the file at   *)
(* any moment; the lock is only between the requests.                      *)
(*                                                                         *)
(* What an automation says is abstracted to who wrote it last: a request,  *)
(* the editor, or whoever wrote it at the start.  The file's bytes are its *)
(* form and its items.                                                     *)
(***************************************************************************)
EXTENDS Naturals, FiniteSets

CONSTANTS
    Writer,     \* requests; each is made once
    Id,         \* automation ids
    Original,   \* what an automation says at the start
    Edited,     \* what the editor makes of one
    Gone,       \* "no such automation"
    MaxEdits,   \* bound on the editor's writes
    MayCancel   \* whether a request's task may be cancelled

NoOne == "nobody"

ASSUME StoreConstants ==
    /\ Original \notin Writer /\ Edited \notin Writer /\ NoOne \notin Writer
    /\ Gone \notin Writer \cup Id \cup {Original, Edited}
    /\ Id # {}
    /\ Original # Edited
    /\ MaxEdits \in Nat
    /\ MayCancel \in BOOLEAN

Ops == {"create", "update", "delete"}
Content == Writer \cup {Original, Edited}
Items == [Id -> Content \cup {Gone}]

\* "missing": there is no file; "other": it holds something that is no list.
Files == [form : {"missing", "list", "other"}, items : Items]

\* "load" and "parse" are one await: the thread reads the file twice.
Waits == {"validate", "lock", "load", "parse", "write", "reload", "restore"}

VARIABLES
    pc,        \* request -> "idle", what its task awaits, or "done"
    op,        \* request -> what it does
    id,        \* request -> the automation it is for
    lock,      \* _STORE_LOCK: the request that holds it, or NoOne
    job,       \* request -> what its executor job has still to do
    snapshot,  \* request -> the file as it was when its bytes were read
    current,   \* request -> the automations it loaded from the file
    outcome,   \* request -> what its caller is told
    file,      \* automations.yaml
    loaded,    \* the automations Home Assistant runs
    registry,  \* the automations that have an entity registry entry
    edits      \* how often the editor wrote

vars == <<pc, op, id, lock, job, snapshot, current, outcome, file, loaded, registry,
          edits>>
requestVars == <<op, id>>
readVars == <<snapshot, current>>
haVars == <<loaded, registry>>

TypeOK ==
    /\ pc \in [Writer -> {"idle", "done"} \cup Waits]
    /\ op \in [Writer -> Ops]
    /\ id \in [Writer -> Id]
    /\ lock \in Writer \cup {NoOne}
    /\ job \in [Writer -> {"none", "write", "compare", "put_back"}]
    /\ snapshot \in [Writer -> Files]
    /\ current \in [Writer -> Items]
    /\ outcome \in [Writer -> {"none", "ok", "failed", "changed", "kept", "cancelled"}]
    /\ file \in Files
    /\ loaded \in Items
    /\ registry \subseteq Id
    /\ edits \in 0..MaxEdits

-----------------------------------------------------------------------------
(* The parts of a request. *)

\* Bug: a delete leaves a list that no longer has the id at all, and the rest
\* of the code still indexes it.
MutWritten(w) ==
    [form |-> "list",
     items |-> IF op[w] = "delete"
               THEN [i \in Id \ {id[w]} |-> current[w][i]]
               ELSE [current[w] EXCEPT ![id[w]] = w]]

\* The list a request writes: what it loaded, without its id, and with its own
\* config under that id unless it deletes.
Written(w) ==
    [form |-> "list",
     items |-> [current[w] EXCEPT ![id[w]] = IF op[w] = "delete" THEN Gone ELSE w]]

\* Bug: the lock is not released when the store could not be used.
MutRelease(w) == lock' = IF lock = w /\ pc[w] # "load" THEN NoOne ELSE lock

\* The lock is released when the block that holds it is left, however it is.
Release(w) == lock' = IF lock = w THEN NoOne ELSE lock

Finish(w, result) ==
    /\ pc' = [pc EXCEPT ![w] = "done"]
    /\ outcome' = [outcome EXCEPT ![w] = result]
    /\ Release(w)

Goto(w, where) ==
    /\ pc' = [pc EXCEPT ![w] = where]
    /\ UNCHANGED <<lock, outcome>>

-----------------------------------------------------------------------------
(* A request. *)

\* A create is given a fresh id; an update or a delete is for an automation
\* that was running when it was asked for.
Request(w) ==
    /\ pc[w] = "idle"
    /\ \E o \in Ops, i \in Id :
         /\ IF o = "create"
            THEN /\ loaded[i] = Gone /\ file.items[i] = Gone /\ i \notin registry
                 /\ \A v \in Writer : pc[v] # "idle" => id[v] # i
            ELSE loaded[i] # Gone
         /\ op' = [op EXCEPT ![w] = o]
         /\ id' = [id EXCEPT ![w] = i]
         /\ Goto(w, IF o = "delete" THEN "lock" ELSE "validate")
    /\ UNCHANGED <<job, readVars, file, haVars, edits>>

\* _validate_and_check is outside the lock.
Validate(w) ==
    /\ pc[w] = "validate"
    /\ Goto(w, "lock") \/ Finish(w, "failed")
    /\ UNCHANGED <<requestVars, job, readVars, file, haVars, edits>>

\* Bug: there is no lock, a request goes ahead when it is ready.
MutAcquire(w) ==
    /\ pc[w] = "lock"
    /\ lock' = w
    /\ pc' = [pc EXCEPT ![w] = "load"]
    /\ UNCHANGED <<requestVars, job, readVars, outcome, file, haVars, edits>>

Acquire(w) ==
    /\ pc[w] = "lock"
    /\ lock = NoOne
    /\ lock' = w
    /\ pc' = [pc EXCEPT ![w] = "load"]
    /\ UNCHANGED <<requestVars, job, readVars, outcome, file, haVars, edits>>

\* _load_store reads the bytes of the file, which a rollback puts back ...
Snapshot(w) ==
    /\ pc[w] = "load"
    /\ \/ Finish(w, "failed") /\ UNCHANGED snapshot
       \/ snapshot' = [snapshot EXCEPT ![w] = file] /\ Goto(w, "parse")
    /\ UNCHANGED <<requestVars, job, current, file, haVars, edits>>

\* ... and then, if there is one, reads the file again for its automations.  An
\* unreadable file or one that is no list ends the request; so does a delete of
\* an automation that is not there.
Load(w) ==
    LET read == IF snapshot[w].form = "missing" THEN snapshot[w] ELSE file
    IN  /\ pc[w] = "parse"
        /\ \/ /\ Finish(w, "failed")
              /\ UNCHANGED <<job, current>>
           \/ /\ read.form = "list" \/ snapshot[w].form = "missing"
              /\ op[w] = "delete" => read.items[id[w]] # Gone
              /\ current' = [current EXCEPT ![w] = read.items]
              /\ job' = [job EXCEPT ![w] = "write"]
              /\ Goto(w, "write")
        /\ UNCHANGED <<requestVars, snapshot, file, haVars, edits>>

\* _write_store, in its thread.  The write is atomic: it happens or it fails.
WriteJob(w) ==
    /\ job[w] = "write"
    /\ job' = [job EXCEPT ![w] = "none"]
    /\ \/ /\ file' = Written(w)
          /\ IF pc[w] = "write" THEN Goto(w, "reload")
                                ELSE UNCHANGED <<pc, lock, outcome>>
       \/ /\ UNCHANGED file
          /\ IF pc[w] = "write" THEN Finish(w, "failed")
                                ELSE UNCHANGED <<pc, lock, outcome>>
    /\ UNCHANGED <<requestVars, readVars, haVars, edits>>

\* automation.reload of one id: Home Assistant runs what the file says, and
\* registers an entity it had not seen.
Reloaded(w) ==
    /\ loaded' = [loaded EXCEPT ![id[w]] = file.items[id[w]]]
    /\ registry' = IF file.items[id[w]] # Gone THEN registry \cup {id[w]} ELSE registry

\* Bug: a delete takes the entity out of the registry before the reload.
MutReload(w) ==
    /\ pc[w] = "reload"
    /\ \/ Reloaded(w) /\ Finish(w, "ok") /\ UNCHANGED job
       \/ /\ job' = [job EXCEPT ![w] = "compare"]
          /\ Goto(w, "restore")
          /\ registry' = IF op[w] = "delete" THEN registry \ {id[w]} ELSE registry
          /\ UNCHANGED loaded
    /\ UNCHANGED <<requestVars, readVars, file, edits>>

\* A reload that worked ends the request, and a delete then takes the entity
\* out of the registry.
Reload(w) ==
    /\ pc[w] = "reload"
    /\ \/ /\ op[w] # "delete"
          /\ Reloaded(w)
          /\ Finish(w, "ok")
          /\ UNCHANGED job
       \/ /\ op[w] = "delete"
          /\ loaded' = [loaded EXCEPT ![id[w]] = file.items[id[w]]]
          /\ registry' = registry \ {id[w]}
          /\ Finish(w, "ok")
          /\ UNCHANGED job
       \/ /\ job' = [job EXCEPT ![w] = "compare"]
          /\ Goto(w, "restore")
          /\ UNCHANGED haVars
    /\ UNCHANGED <<requestVars, readVars, file, edits>>

\* Bug: that somebody else wrote the file is reported as a restored file.
MutCompareJob(w) ==
    /\ job[w] = "compare"
    /\ \/ /\ file = Written(w)
          /\ job' = [job EXCEPT ![w] = "put_back"]
          /\ UNCHANGED <<pc, lock, outcome>>
       \/ /\ file # Written(w)
          /\ job' = [job EXCEPT ![w] = "none"]
          /\ IF pc[w] = "restore" THEN Finish(w, "failed")
                                  ELSE UNCHANGED <<pc, lock, outcome>>
       \/ /\ job' = [job EXCEPT ![w] = "none"]
          /\ IF pc[w] = "restore" THEN Finish(w, "kept")
                                  ELSE UNCHANGED <<pc, lock, outcome>>
    /\ UNCHANGED <<requestVars, readVars, file, haVars, edits>>

\* _restore_store, in its thread: first the file is read and compared, and a
\* file that is not what the request wrote is left as it is ...
CompareJob(w) ==
    /\ job[w] = "compare"
    /\ \/ /\ file = Written(w)
          /\ job' = [job EXCEPT ![w] = "put_back"]
          /\ UNCHANGED <<pc, lock, outcome>>
       \/ /\ file # Written(w)
          /\ job' = [job EXCEPT ![w] = "none"]
          /\ IF pc[w] = "restore" THEN Finish(w, "changed")
                                  ELSE UNCHANGED <<pc, lock, outcome>>
       \/ /\ job' = [job EXCEPT ![w] = "none"]      \* it cannot be read
          /\ IF pc[w] = "restore" THEN Finish(w, "kept")
                                  ELSE UNCHANGED <<pc, lock, outcome>>
    /\ UNCHANGED <<requestVars, readVars, file, haVars, edits>>

\* ... then it is written back, or removed if there was none.
PutBackJob(w) ==
    /\ job[w] = "put_back"
    /\ job' = [job EXCEPT ![w] = "none"]
    /\ \/ /\ file' = snapshot[w]
          /\ IF pc[w] = "restore" THEN Finish(w, "failed")
                                  ELSE UNCHANGED <<pc, lock, outcome>>
       \/ /\ UNCHANGED file
          /\ IF pc[w] = "restore" THEN Finish(w, "kept")
                                  ELSE UNCHANGED <<pc, lock, outcome>>
    /\ UNCHANGED <<requestVars, readVars, haVars, edits>>

-----------------------------------------------------------------------------
(* The environment. *)

\* The task is cancelled at its await and leaves the lock.  A job that has not
\* started is cancelled with it, one that has started goes on; a reload is cut
\* short before or after it took effect.
Cancel(w) ==
    /\ MayCancel
    /\ pc[w] \in Waits
    /\ Finish(w, "cancelled")
    /\ \/ UNCHANGED job
       \/ job[w] \in {"write", "compare"} /\ job' = [job EXCEPT ![w] = "none"]
    /\ UNCHANGED haVars \/ (pc[w] = "reload" /\ Reloaded(w))
    /\ UNCHANGED <<requestVars, readVars, file, edits>>

\* Home Assistant's automation editor writes one automation, new or not, or
\* deletes it, and reloads it.
Edit ==
    /\ edits < MaxEdits
    /\ edits' = edits + 1
    /\ file.form # "other"
    /\ \E i \in Id, content \in {Edited, Gone} :
         /\ file.items[i] # content
         /\ file' = [form |-> "list", items |-> [file.items EXCEPT ![i] = content]]
         /\ loaded' = [loaded EXCEPT ![i] = content]
         /\ registry' = IF content = Gone THEN registry \ {i} ELSE registry \cup {i}
    /\ UNCHANGED <<pc, requestVars, lock, job, readVars, outcome>>

-----------------------------------------------------------------------------

Init ==
    /\ pc = [w \in Writer |-> "idle"]
    /\ op = [w \in Writer |-> "create"]
    /\ id = [w \in Writer |-> CHOOSE i \in Id : TRUE]
    /\ lock = NoOne
    /\ job = [w \in Writer |-> "none"]
    /\ file \in [form : {"list", "missing", "other"}, items : [Id -> {Original, Gone}]]
    /\ file.form # "list" => file.items = [i \in Id |-> Gone]
    /\ snapshot = [w \in Writer |-> file]
    /\ current = [w \in Writer |-> file.items]
    /\ outcome = [w \in Writer |-> "none"]
    /\ loaded = file.items
    /\ registry = {i \in Id : loaded[i] # Gone}
    /\ edits = 0

\* What the request's task and its thread do by themselves.
Handle(w) ==
    \/ Validate(w) \/ Acquire(w) \/ Snapshot(w) \/ Load(w) \/ WriteJob(w)
    \/ Reload(w) \/ CompareJob(w) \/ PutBackJob(w)

Next ==
    \/ \E w \in Writer : Request(w) \/ Handle(w) \/ Cancel(w)
    \/ Edit

Spec == Init /\ [][Next]_vars

\* Jobs and reloads end, and the lock is handed to who waits for it.
FairSpec == Spec /\ \A w \in Writer : WF_vars(Handle(w))

-----------------------------------------------------------------------------
(* Properties. *)

\* The file is written by the executor only for the request that holds the
\* lock ("Serialize OUR writers to automations.yaml", at _STORE_LOCK).
WritersSerialized == \A w \in Writer : job[w] # "none" => lock = w

\* A request that is told it failed, and not that its change was kept, has left
\* nothing behind: not in the file, not in what runs, and no job that could
\* still write it (_reload_or_restore).
Traces(w) == \E i \in Id : file.items[i] = w \/ loaded[i] = w
FailureLeavesNothing ==
    \A w \in Writer : outcome[w] = "failed" => ~Traces(w) /\ job[w] = "none"

\* Between requests, Home Assistant runs exactly the automations in the file
\* and its registry knows exactly those, whatever failed and was rolled back
\* ("a failure leaves both the file AND the registry as they were",
\* async_delete_automation), unless the caller was told that it was kept.
Settled == lock = NoOne /\ \A w \in Writer : outcome[w] \in {"none", "ok", "failed"}
RunningMatchesFile ==
    Settled => /\ loaded = file.items
               /\ registry = {i \in Id : loaded[i] # Gone}

\* Requests follow one another on the file as AutomationCatalog says.
Changing == {w \in Writer : lock = w /\ pc[w] \in {"reload", "restore"}}
Catalog ==
    INSTANCE AutomationCatalog WITH
        Content <- Content,
        items <- file.items,
        before <- IF Changing = {} THEN file.items
                  ELSE snapshot[CHOOSE w \in Changing : TRUE].items,
        target <- IF Changing = {} THEN Gone
                  ELSE id[CHOOSE w \in Changing : TRUE]
ImplementsCatalog == Catalog!Spec

\* Every request is answered: nobody waits for a lock that is never released,
\* also when requests are cancelled or fail at any of their awaits.
EveryRequestEnds == \A w \in Writer : (pc[w] \in Waits) ~> (pc[w] = "done")

=============================================================================
