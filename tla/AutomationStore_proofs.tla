----------------------- MODULE AutomationStore_proofs -----------------------
(***************************************************************************)
(* Proofs about AutomationStore, for any number of requests and            *)
(* automations.  What the lock, the jobs and a failed request leave is     *)
(* proved with the editor and with cancellation; that writers take turns,  *)
(* that what runs is what the file says, and the refinement of             *)
(* AutomationCatalog, for the cases without them in which they hold.       *)
(***************************************************************************)
EXTENDS AutomationStore, TLAPS

USE StoreConstants

-----------------------------------------------------------------------------
(* Types. *)

\* A list in which one automation is changed is a list of automations.
LEMMA ItemsChange ==
    ASSUME NEW items \in Items, NEW i \in Id, NEW content \in Content \cup {Gone}
    PROVE  [items EXCEPT ![i] = content] \in Items
BY DEF Items

\* The items of a file, and of the files that were loaded, are such lists.
LEMMA ItemsOfFiles ==
    ASSUME TypeOK
    PROVE  /\ file.items \in Items
           /\ \A w \in Writer : snapshot[w].items \in Items /\ current[w] \in Items
BY DEF TypeOK, Files

\* A list of automations makes a file.
LEMMA ListIsAFile ==
    ASSUME NEW items \in Items
    PROVE  [form |-> "list", items |-> items] \in Files
BY DEF Files

\* What a request writes is a file.
LEMMA WrittenIsAFile ==
    ASSUME TypeOK, NEW w \in Writer
    PROVE  /\ Written(w) \in Files
           /\ Written(w).form = "list"
           /\ Written(w).items = [current[w] EXCEPT ![id[w]] =
                                    IF op[w] = "delete" THEN Gone ELSE w]
<1>1. id[w] \in Id /\ w \in Content
  BY DEF TypeOK, Content
<1>2. [current[w] EXCEPT ![id[w]] = IF op[w] = "delete" THEN Gone ELSE w] \in Items
  BY <1>1, ItemsOfFiles, ItemsChange
<1> QED BY <1>2, ListIsAFile DEF Written

\* A reload leaves automations running, and a registry of automations.
LEMMA ReloadedTypes ==
    ASSUME TypeOK, NEW w \in Writer
    PROVE  /\ [loaded EXCEPT ![id[w]] = file.items[id[w]]] \in Items
           /\ registry \cup {id[w]} \subseteq Id
           /\ registry \ {id[w]} \subseteq Id
<1>1. id[w] \in Id
  BY DEF TypeOK
<1>2. file.items[id[w]] \in Content \cup {Gone}
  BY <1>1, ItemsOfFiles DEF Items
<1> QED BY <1>1, <1>2, ItemsChange DEF TypeOK

\* A request that goes on, or ends, does so with values of the declared kinds.
LEMMA MoveTypes ==
    ASSUME TypeOK, NEW w \in Writer,
           \/ \E where \in Waits : Goto(w, where)
           \/ \E result \in {"ok", "failed", "changed", "kept", "cancelled"} :
                Finish(w, result)
           \/ UNCHANGED <<pc, lock, outcome>>
    PROVE  /\ pc' \in [Writer -> {"idle", "done"} \cup Waits]
           /\ lock' \in Writer \cup {NoOne}
           /\ outcome' \in [Writer -> {"none", "ok", "failed", "changed", "kept", "cancelled"}]
BY DEF TypeOK, Goto, Finish, Release, Waits

\* Whatever automations.yaml is at the start.
LEMMA InitTypes == Init => TypeOK
<1> SUFFICES ASSUME Init PROVE TypeOK
  OBVIOUS
<1>1. file.items \in Items /\ file \in Files
  BY DEF Init, Files, Items, Content
<1>2. (CHOOSE i \in Id : TRUE) \in Id
  OBVIOUS
<1>3. id \in [Writer -> Id]
  BY <1>2 DEF Init
<1>4. op \in [Writer -> Ops] /\ registry \subseteq Id
  BY DEF Init, Ops
<1>5. /\ pc \in [Writer -> {"idle", "done"} \cup Waits]
      /\ job \in [Writer -> {"none", "write", "compare", "put_back"}]
      /\ snapshot \in [Writer -> Files]
      /\ current \in [Writer -> Items]
      /\ outcome \in [Writer -> {"none", "ok", "failed", "changed", "kept", "cancelled"}]
      /\ lock \in Writer \cup {NoOne}
      /\ edits \in 0..MaxEdits
      /\ loaded \in Items
  BY <1>1 DEF Init
<1> QED BY <1>1, <1>3, <1>4, <1>5 DEF TypeOK

\* Every step of a request, of its thread and of the editor.
LEMMA TypeStep == TypeOK /\ [Next]_vars => TypeOK'
<1> SUFFICES ASSUME TypeOK, [Next]_vars PROVE TypeOK'
  OBVIOUS
<1>1. ASSUME NEW w \in Writer, Request(w) PROVE TypeOK'
  <2>1. \E where \in Waits : Goto(w, where)
    BY <1>1 DEF Request, Waits
  <2>2. op' \in [Writer -> Ops]
    BY <1>1 DEF Request, TypeOK
  <2>3. id' \in [Writer -> Id]
    BY <1>1 DEF Request, TypeOK
  <2> QED BY <1>1, <2>1, <2>2, <2>3, MoveTypes DEF Request, TypeOK, readVars, haVars
<1>2. ASSUME NEW w \in Writer, Validate(w) PROVE TypeOK'
  <2>1. (\E where \in Waits : Goto(w, where)) \/ Finish(w, "failed")
    BY <1>2 DEF Validate, Waits
  <2> QED BY <1>2, <2>1, MoveTypes DEF Validate, TypeOK, requestVars, readVars, haVars
<1>3. ASSUME NEW w \in Writer, Acquire(w) PROVE TypeOK'
  BY <1>3 DEF Acquire, TypeOK, requestVars, readVars, haVars, Waits
<1>4. ASSUME NEW w \in Writer, Load(w) PROVE TypeOK'
  <2>1. (\E where \in Waits : Goto(w, where)) \/ Finish(w, "failed")
    BY <1>4 DEF Load, Waits
  <2>2. current' \in [Writer -> Items]
    BY <1>4, ItemsOfFiles DEF Load, TypeOK
  <2>3. job' \in [Writer -> {"none", "write", "compare", "put_back"}]
    BY <1>4 DEF Load, TypeOK
  <2> QED BY <1>4, <2>1, <2>2, <2>3, MoveTypes DEF Load, TypeOK, requestVars, haVars
<1>5. ASSUME NEW w \in Writer, WriteJob(w) PROVE TypeOK'
  <2>1. \/ \E where \in Waits : Goto(w, where)
        \/ Finish(w, "failed")
        \/ UNCHANGED <<pc, lock, outcome>>
    BY <1>5 DEF WriteJob, Waits
  <2>2. file' \in Files
    <3>1. Written(w) \in Files
      BY WrittenIsAFile
    <3> QED BY <1>5, <3>1 DEF WriteJob, TypeOK
  <2>3. job' \in [Writer -> {"none", "write", "compare", "put_back"}]
    BY <1>5 DEF WriteJob, TypeOK
  <2> QED BY <1>5, <2>1, <2>2, <2>3, MoveTypes DEF WriteJob, TypeOK, requestVars, readVars,
         haVars
<1>6. ASSUME NEW w \in Writer, Reload(w) PROVE TypeOK'
  <2>1. (\E where \in Waits : Goto(w, where)) \/ Finish(w, "ok")
    BY <1>6 DEF Reload, Waits
  <2>2. loaded' \in Items /\ registry' \subseteq Id
    BY <1>6, ReloadedTypes DEF Reload, Reloaded, TypeOK, haVars
  <2>3. job' \in [Writer -> {"none", "write", "compare", "put_back"}]
    BY <1>6 DEF Reload, TypeOK
  <2> QED BY <1>6, <2>1, <2>2, <2>3, MoveTypes DEF Reload, TypeOK, requestVars, readVars
<1>7. ASSUME NEW w \in Writer, CompareJob(w) PROVE TypeOK'
  <2>1. \/ \E result \in {"changed", "kept"} : Finish(w, result)
        \/ UNCHANGED <<pc, lock, outcome>>
    BY <1>7 DEF CompareJob
  <2>2. job' \in [Writer -> {"none", "write", "compare", "put_back"}]
    BY <1>7 DEF CompareJob, TypeOK
  <2> QED BY <1>7, <2>1, <2>2, MoveTypes DEF CompareJob, TypeOK, requestVars, readVars,
         haVars
<1>8. ASSUME NEW w \in Writer, PutBackJob(w) PROVE TypeOK'
  <2>1. \/ \E result \in {"failed", "kept"} : Finish(w, result)
        \/ UNCHANGED <<pc, lock, outcome>>
    BY <1>8 DEF PutBackJob
  <2>2. file' \in Files
    BY <1>8 DEF PutBackJob, TypeOK
  <2>3. job' \in [Writer -> {"none", "write", "compare", "put_back"}]
    BY <1>8 DEF PutBackJob, TypeOK
  <2> QED BY <1>8, <2>1, <2>2, <2>3, MoveTypes DEF PutBackJob, TypeOK, requestVars, readVars,
         haVars
<1>9. ASSUME NEW w \in Writer, Cancel(w) PROVE TypeOK'
  <2>1. Finish(w, "cancelled")
    BY <1>9 DEF Cancel
  <2>2. job' \in [Writer -> {"none", "write", "compare", "put_back"}]
    BY <1>9 DEF Cancel, TypeOK
  <2>3. CASE UNCHANGED haVars
    BY <1>9, <2>1, <2>2, <2>3, MoveTypes DEF Cancel, TypeOK, haVars, requestVars,
       readVars
  <2>4. CASE Reloaded(w)
    <3>1. loaded' \in Items
      BY <2>4, ReloadedTypes DEF Reloaded
    <3>2. registry' \subseteq Id
      BY <2>4, ReloadedTypes DEF Reloaded, TypeOK
    <3> QED BY <1>9, <2>1, <2>2, <3>1, <3>2, MoveTypes DEF Cancel, TypeOK, requestVars,
         readVars
  <2> QED BY <1>9, <2>3, <2>4 DEF Cancel
<1>10. CASE Edit
  <2>1. PICK i \in Id, content \in {Edited, Gone} :
          /\ file' = [form |-> "list", items |-> [file.items EXCEPT ![i] = content]]
          /\ loaded' = [loaded EXCEPT ![i] = content]
          /\ registry' = IF content = Gone THEN registry \ {i} ELSE registry \cup {i}
    BY <1>10 DEF Edit
  <2>2. file' \in Files /\ loaded' \in Items
    BY <2>1, ItemsOfFiles, ItemsChange, ListIsAFile DEF TypeOK, Content
  <2>3. registry' \subseteq Id
    BY <2>1 DEF TypeOK
  <2>4. edits' \in 0..MaxEdits
    BY <1>10 DEF Edit, TypeOK
  <2> QED BY <1>10, <2>2, <2>3, <2>4 DEF Edit, TypeOK, requestVars, readVars
<1>11. ASSUME NEW w \in Writer, Snapshot(w) PROVE TypeOK'
  <2>1. (\E where \in Waits : Goto(w, where)) \/ Finish(w, "failed")
    BY <1>11 DEF Snapshot, Waits
  <2>2. snapshot' \in [Writer -> Files]
    BY <1>11 DEF Snapshot, TypeOK
  <2> QED BY <1>11, <2>1, <2>2, MoveTypes DEF Snapshot, TypeOK, requestVars, haVars
<1>12. CASE UNCHANGED vars
  BY <1>12 DEF vars, TypeOK
<1> QED BY <1>1, <1>2, <1>3, <1>4, <1>5, <1>6, <1>7, <1>8, <1>9, <1>10, <1>11, <1>12
        DEF Next, Handle

\* Every reachable state is well typed, whoever else writes the file and
\* whatever is cancelled.
THEOREM TypeCorrect == Spec => []TypeOK
BY InitTypes, TypeStep, PTL DEF Spec

-----------------------------------------------------------------------------
(* The lock and the jobs, with the editor and with cancellation. *)

Holding == {"load", "parse", "write", "reload", "restore"}

\* A request holds the lock exactly while it is inside its block.
LockOK == \A w \in Writer : lock = w <=> pc[w] \in Holding

\* A task that waits for a job has that job running, and only a cancelled task
\* leaves one behind.
JobOf(w) ==
    /\ pc[w] = "write" => job[w] = "write"
    /\ pc[w] = "restore" => job[w] \in {"compare", "put_back"}
    /\ job[w] = "write" => pc[w] \in {"write", "done"}
    /\ job[w] \in {"compare", "put_back"} => pc[w] \in {"restore", "done"}
    /\ pc[w] = "done" /\ job[w] # "none" => outcome[w] = "cancelled"
JobOK == \A w \in Writer : JobOf(w)

\* A request is answered when it ends and not before, and "cancelled" is the
\* answer only where tasks can be cancelled.
OutcomeOf(w) ==
    /\ outcome[w] # "none" <=> pc[w] = "done"
    /\ outcome[w] = "cancelled" => MayCancel
OutcomeOK == \A w \in Writer : OutcomeOf(w)

ControlInv == TypeOK /\ LockOK /\ JobOK /\ OutcomeOK

\* Every step keeps the lock with the request in its block, the jobs with the
\* tasks that wait for them, and the answers with the requests that ended.
LEMMA ControlStep == ControlInv /\ [Next]_vars => LockOK' /\ JobOK' /\ OutcomeOK'
<1> SUFFICES ASSUME ControlInv, [Next]_vars
             PROVE  LockOK' /\ JobOK' /\ OutcomeOK'
  OBVIOUS
<1> USE DEF ControlInv
<1>1. ASSUME NEW w \in Writer, Request(w) PROVE LockOK' /\ JobOK' /\ OutcomeOK'
  <2>1. LockOK'
    BY <1>1 DEF Request, Goto, Finish, Release, LockOK, Holding, TypeOK, Waits
  <2>2. JobOK'
    BY <1>1 DEF Request, Goto, Finish, Release, JobOK, JobOf, OutcomeOK, OutcomeOf, TypeOK, Waits
  <2>3. OutcomeOK'
    BY <1>1 DEF Request, Goto, Finish, Release, OutcomeOK, OutcomeOf, TypeOK, Waits
  <2> QED BY <2>1, <2>2, <2>3
<1>2. ASSUME NEW w \in Writer, Validate(w) PROVE LockOK' /\ JobOK' /\ OutcomeOK'
  <2>1. LockOK'
    BY <1>2 DEF Validate, Goto, Finish, Release, LockOK, Holding, TypeOK, Waits
  <2>2. JobOK'
    BY <1>2 DEF Validate, Goto, Finish, Release, JobOK, JobOf, OutcomeOK, OutcomeOf, TypeOK, Waits
  <2>3. OutcomeOK'
    BY <1>2 DEF Validate, Goto, Finish, Release, OutcomeOK, OutcomeOf, TypeOK, Waits
  <2> QED BY <2>1, <2>2, <2>3
<1>3. ASSUME NEW w \in Writer, Acquire(w) PROVE LockOK' /\ JobOK' /\ OutcomeOK'
  <2>1. LockOK'
    BY <1>3 DEF Acquire, Goto, Finish, Release, LockOK, Holding, TypeOK, Waits
  <2>2. JobOK'
    BY <1>3 DEF Acquire, Goto, Finish, Release, JobOK, JobOf, OutcomeOK, OutcomeOf, TypeOK, Waits
  <2>3. OutcomeOK'
    BY <1>3 DEF Acquire, Goto, Finish, Release, OutcomeOK, OutcomeOf, TypeOK, Waits
  <2> QED BY <2>1, <2>2, <2>3
<1>4. ASSUME NEW w \in Writer, Load(w) PROVE LockOK' /\ JobOK' /\ OutcomeOK'
  <2>1. LockOK'
    BY <1>4 DEF Load, Goto, Finish, Release, LockOK, Holding, TypeOK, Waits
  <2>2. JobOK'
    BY <1>4 DEF Load, Goto, Finish, Release, JobOK, JobOf, OutcomeOK, OutcomeOf, TypeOK, Waits
  <2>3. OutcomeOK'
    BY <1>4 DEF Load, Goto, Finish, Release, OutcomeOK, OutcomeOf, TypeOK, Waits
  <2> QED BY <2>1, <2>2, <2>3
<1>5. ASSUME NEW w \in Writer, WriteJob(w) PROVE LockOK' /\ JobOK' /\ OutcomeOK'
  <2>1. LockOK'
    BY <1>5 DEF WriteJob, Goto, Finish, Release, LockOK, Holding, TypeOK, Waits
  <2>2. JobOK'
    BY <1>5 DEF WriteJob, Goto, Finish, Release, JobOK, JobOf, OutcomeOK, OutcomeOf, TypeOK, Waits
  <2>3. OutcomeOK'
    BY <1>5 DEF WriteJob, Goto, Finish, Release, OutcomeOK, OutcomeOf, TypeOK, Waits
  <2> QED BY <2>1, <2>2, <2>3
<1>6. ASSUME NEW w \in Writer, Reload(w) PROVE LockOK' /\ JobOK' /\ OutcomeOK'
  <2>1. LockOK'
    BY <1>6 DEF Reload, Goto, Finish, Release, LockOK, Holding, TypeOK, Waits
  <2>2. JobOK'
    BY <1>6 DEF Reload, Goto, Finish, Release, JobOK, JobOf, OutcomeOK, OutcomeOf, TypeOK, Waits
  <2>3. OutcomeOK'
    BY <1>6 DEF Reload, Goto, Finish, Release, OutcomeOK, OutcomeOf, TypeOK, Waits
  <2> QED BY <2>1, <2>2, <2>3
<1>7. ASSUME NEW w \in Writer, CompareJob(w) PROVE LockOK' /\ JobOK' /\ OutcomeOK'
  <2>1. LockOK'
    BY <1>7 DEF CompareJob, Goto, Finish, Release, LockOK, Holding, TypeOK, Waits
  <2>2. JobOK'
    BY <1>7 DEF CompareJob, Goto, Finish, Release, JobOK, JobOf, OutcomeOK, OutcomeOf, TypeOK, Waits
  <2>3. OutcomeOK'
    BY <1>7 DEF CompareJob, Goto, Finish, Release, OutcomeOK, OutcomeOf, TypeOK, Waits
  <2> QED BY <2>1, <2>2, <2>3
<1>8. ASSUME NEW w \in Writer, PutBackJob(w) PROVE LockOK' /\ JobOK' /\ OutcomeOK'
  <2>1. LockOK'
    BY <1>8 DEF PutBackJob, Goto, Finish, Release, LockOK, Holding, TypeOK, Waits
  <2>2. JobOK'
    BY <1>8 DEF PutBackJob, Goto, Finish, Release, JobOK, JobOf, OutcomeOK, OutcomeOf, TypeOK, Waits
  <2>3. OutcomeOK'
    BY <1>8 DEF PutBackJob, Goto, Finish, Release, OutcomeOK, OutcomeOf, TypeOK, Waits
  <2> QED BY <2>1, <2>2, <2>3
<1>9. ASSUME NEW w \in Writer, Cancel(w) PROVE LockOK' /\ JobOK' /\ OutcomeOK'
  <2>1. LockOK'
    BY <1>9 DEF Cancel, Goto, Finish, Release, LockOK, Holding, TypeOK, Waits
  <2>2. JobOK'
    BY <1>9 DEF Cancel, Goto, Finish, Release, JobOK, JobOf, OutcomeOK, OutcomeOf, TypeOK, Waits
  <2>3. OutcomeOK'
    BY <1>9 DEF Cancel, Goto, Finish, Release, OutcomeOK, OutcomeOf, TypeOK, Waits
  <2> QED BY <2>1, <2>2, <2>3
<1>10. CASE Edit
  BY <1>10 DEF Edit, LockOK, JobOK, JobOf, OutcomeOK, OutcomeOf
<1>11. ASSUME NEW w \in Writer, Snapshot(w) PROVE LockOK' /\ JobOK' /\ OutcomeOK'
  <2>1. LockOK'
    BY <1>11 DEF Snapshot, Goto, Finish, Release, LockOK, Holding, TypeOK, Waits
  <2>2. JobOK'
    BY <1>11 DEF Snapshot, Goto, Finish, Release, JobOK, JobOf, OutcomeOK, OutcomeOf, TypeOK, Waits
  <2>3. OutcomeOK'
    BY <1>11 DEF Snapshot, Goto, Finish, Release, OutcomeOK, OutcomeOf, TypeOK, Waits
  <2> QED BY <2>1, <2>2, <2>3
<1>12. CASE UNCHANGED vars
  BY <1>12 DEF vars, LockOK, JobOK, JobOf, OutcomeOK, OutcomeOf
<1> QED BY <1>1, <1>2, <1>3, <1>4, <1>5, <1>6, <1>7, <1>8, <1>9, <1>10, <1>11, <1>12
        DEF Next, Handle

-----------------------------------------------------------------------------
(* What a request leaves behind. *)

Absent(w, items) == \A i \in Id : items[i] # w

\* No request has loaded a file with what w writes.
NotLoaded(w) ==
    \A v \in Writer : Absent(w, snapshot[v].items) /\ Absent(w, current[v])

\* What w writes is nowhere until it is written, then in the file only until
\* it is reloaded; a request that failed is nowhere again.
TraceOf(w) ==
    /\ pc[w] # "done" \/ outcome[w] = "failed" => Absent(w, loaded) /\ NotLoaded(w)
    /\ pc[w] \notin {"reload", "restore", "done"} \/ outcome[w] = "failed"
         => Absent(w, file.items)
TraceOK == \A w \in Writer : TraceOf(w)

\* A list that does not say what v writes still does not when something else
\* is put into it.
LEMMA ChangeLacks ==
    ASSUME NEW v \in Writer, NEW items \in Items, Absent(v, items),
           NEW i \in Id, NEW content, content # v
    PROVE  Absent(v, [items EXCEPT ![i] = content])
BY DEF Absent, Items

\* What another request writes holds nothing of v, if nobody loaded any of it.
LEMMA WrittenLacks ==
    ASSUME TypeOK, NEW v \in Writer, NEW w \in Writer, v # w, NotLoaded(v)
    PROVE  Absent(v, Written(w).items)
<1>1. current[w] \in Items /\ id[w] \in Id
  BY ItemsOfFiles DEF TypeOK
<1>2. Absent(v, current[w])
  BY DEF NotLoaded
<1>3. (IF op[w] = "delete" THEN Gone ELSE w) # v
  OBVIOUS
<1>4. Absent(v, [current[w] EXCEPT ![id[w]] = IF op[w] = "delete" THEN Gone ELSE w])
  BY <1>1, <1>2, <1>3, ChangeLacks
<1> QED BY <1>4, WrittenIsAFile

\* A reload brings nothing of v into what runs, if the file has nothing of it.
LEMMA ReloadLacks ==
    ASSUME TypeOK, NEW v \in Writer, NEW w \in Writer,
           Absent(v, loaded), Absent(v, file.items)
    PROVE  Absent(v, [loaded EXCEPT ![id[w]] = file.items[id[w]]])
<1>1. loaded \in Items /\ id[w] \in Id
  BY DEF TypeOK
<1> QED BY <1>1, ChangeLacks DEF Absent

\* No step leaves more of a request behind than TraceOf says.
LEMMA TraceStep == ControlInv /\ TraceOK /\ [Next]_vars => TraceOK'
<1> SUFFICES ASSUME ControlInv, TraceOK, [Next]_vars, NEW v \in Writer
             PROVE  TraceOf(v)'
  BY DEF TraceOK
<1> USE DEF ControlInv
<1>0. TraceOf(v)
  BY DEF TraceOK
<1>1. ASSUME NEW w \in Writer,
             \/ Request(w) \/ Validate(w) \/ Acquire(w) \/ CompareJob(w)
      PROVE  TraceOf(v)'
  <2>1. UNCHANGED <<file, loaded, snapshot, current>>
    BY <1>1 DEF Request, Validate, Acquire, CompareJob, haVars, readVars
  <2> QED BY <1>0, <1>1, <2>1 DEF TraceOf, NotLoaded, Request, Validate, Acquire,
             CompareJob, Goto, Finish, TypeOK, OutcomeOK, OutcomeOf, JobOK, JobOf
<1>2. ASSUME NEW w \in Writer, Snapshot(w) \/ Load(w) PROVE TraceOf(v)'
  <2>1. UNCHANGED <<file, loaded>> /\ pc[w] \in {"load", "parse"}
    BY <1>2 DEF Snapshot, Load, haVars
  <2>2. CASE Finish(w, "failed") /\ UNCHANGED <<snapshot, current>>
    BY <1>0, <2>1, <2>2 DEF TraceOf, NotLoaded, Finish, TypeOK, OutcomeOK, OutcomeOf
  <2>3. CASE Goto(w, "parse") \/ Goto(w, "write")
    <3>1. pc[v] \notin {"reload", "restore"} /\ pc'[v] \notin {"reload", "restore"}
      BY <2>1, <2>3 DEF Goto, LockOK, Holding, TypeOK
    <3>2. /\ pc'[v] = "done" <=> pc[v] = "done"
          /\ UNCHANGED outcome[v]
      BY <2>1, <2>3 DEF Goto, TypeOK
    <3>3. pc[v] # "done" \/ outcome[v] = "failed"
            => Absent(v, loaded) /\ NotLoaded(v) /\ Absent(v, file.items)
      BY <1>0, <3>1 DEF TraceOf
    <3>4. NotLoaded(v) /\ Absent(v, file.items) => NotLoaded(v)'
      <4>1. CASE Snapshot(w)
        BY <2>3, <4>1 DEF Snapshot, NotLoaded, TypeOK
      <4>2. CASE Load(w)
        BY <2>3, <4>2 DEF Load, NotLoaded, TypeOK
      <4> QED BY <1>2, <4>1, <4>2
    <3> QED BY <2>1, <3>1, <3>2, <3>3, <3>4 DEF TraceOf
  <2> QED BY <1>2, <2>2, <2>3 DEF Snapshot, Load
<1>3. ASSUME NEW w \in Writer, WriteJob(w) PROVE TraceOf(v)'
  <2>1. UNCHANGED <<loaded, snapshot, current>>
    BY <1>3 DEF WriteJob, haVars, readVars
  <2>2. pc'[v] # "done" \/ outcome'[v] = "failed" => Absent(v, loaded) /\ NotLoaded(v)
    BY <1>0, <1>3 DEF WriteJob, TraceOf, Goto, Finish, TypeOK
  <2>3. pc'[v] \notin {"reload", "restore", "done"} \/ outcome'[v] = "failed"
          => Absent(v, file'.items)
    <3>1. CASE v # w /\ file' = Written(w)
      BY <1>3, <2>2, <3>1, WrittenLacks DEF WriteJob, Goto, Finish, TypeOK
    <3>2. CASE /\ v = w
               /\ IF pc[w] = "write" THEN Goto(w, "reload")
                                     ELSE UNCHANGED <<pc, lock, outcome>>
      BY <1>3, <3>2 DEF WriteJob, Goto, TypeOK, JobOK, JobOf, OutcomeOK, OutcomeOf
    <3>3. CASE /\ UNCHANGED file
               /\ IF pc[w] = "write" THEN Finish(w, "failed")
                                     ELSE UNCHANGED <<pc, lock, outcome>>
      BY <1>0, <1>3, <3>3 DEF Finish, TraceOf, TypeOK
    <3> QED BY <1>3, <3>1, <3>2, <3>3 DEF WriteJob
  <2> QED BY <2>1, <2>2, <2>3 DEF TraceOf, NotLoaded
<1>4. ASSUME NEW w \in Writer, Reload(w) \/ Cancel(w) PROVE TraceOf(v)'
  <2>1. UNCHANGED <<file, snapshot, current>>
    BY <1>4 DEF Reload, Cancel, readVars
  <2>2. \/ UNCHANGED loaded
        \/ /\ loaded' = [loaded EXCEPT ![id[w]] = file.items[id[w]]]
           /\ pc[w] = "reload"
    BY <1>4 DEF Reload, Cancel, Reloaded, haVars
  <2>3. /\ outcome'[v] = "failed" => v # w /\ outcome[v] = "failed"
        /\ pc'[v] # "done" => pc[v] # "done"
        /\ pc'[v] \notin {"reload", "restore", "done"} => v # w /\ UNCHANGED pc[v]
        /\ pc'[v] # "done" => UNCHANGED loaded \/ v # w
    BY <1>4 DEF Reload, Cancel, Goto, Finish, TypeOK, OutcomeOK, OutcomeOf, haVars, Waits
  <2>4. CASE UNCHANGED loaded
    BY <1>0, <2>1, <2>3, <2>4 DEF TraceOf, NotLoaded
  <2>5. CASE /\ loaded' = [loaded EXCEPT ![id[w]] = file.items[id[w]]]
             /\ pc[w] = "reload" /\ v # w
    <3>1. pc[v] \notin {"reload", "restore"}
      BY <2>5 DEF LockOK, Holding
    <3>2. pc'[v] # "done" \/ outcome'[v] = "failed"
            => Absent(v, file.items) /\ Absent(v, loaded)
      BY <1>0, <2>3, <3>1 DEF TraceOf
    <3>3. pc'[v] # "done" \/ outcome'[v] = "failed" => Absent(v, loaded')
      BY <2>5, <3>2, ReloadLacks
    <3> QED BY <1>0, <2>1, <2>3, <3>3 DEF TraceOf, NotLoaded
  <2>6. CASE v = w /\ ~UNCHANGED loaded
    BY <2>3, <2>6 DEF TraceOf
  <2> QED BY <2>2, <2>4, <2>5, <2>6
<1>5. ASSUME NEW w \in Writer, PutBackJob(w) PROVE TraceOf(v)'
  <2>1. UNCHANGED <<loaded, snapshot, current>>
    BY <1>5 DEF PutBackJob, haVars, readVars
  <2>2. pc'[v] # "done" \/ outcome'[v] = "failed" => Absent(v, loaded) /\ NotLoaded(v)
    BY <1>0, <1>5 DEF PutBackJob, TraceOf, Finish, TypeOK
  <2>3. pc'[v] \notin {"reload", "restore", "done"} \/ outcome'[v] = "failed"
          => Absent(v, file'.items)
    <3>1. CASE file' = snapshot[w]
      BY <1>5, <2>2, <3>1 DEF NotLoaded, PutBackJob, Finish, TypeOK
    <3>2. CASE /\ UNCHANGED file
               /\ IF pc[w] = "restore" THEN Finish(w, "kept")
                                       ELSE UNCHANGED <<pc, lock, outcome>>
      BY <1>0, <3>2 DEF Finish, TraceOf, TypeOK
    <3> QED BY <1>5, <3>1, <3>2 DEF PutBackJob
  <2> QED BY <2>1, <2>2, <2>3 DEF TraceOf, NotLoaded
<1>6. CASE Edit
  <2>1. PICK i \in Id, content \in {Edited, Gone} :
          /\ file' = [form |-> "list", items |-> [file.items EXCEPT ![i] = content]]
          /\ loaded' = [loaded EXCEPT ![i] = content]
    BY <1>6 DEF Edit
  <2>2. content # v /\ loaded \in Items /\ file.items \in Items
    BY ItemsOfFiles DEF TypeOK
  <2>3. Absent(v, loaded) => Absent(v, loaded')
    BY <2>1, <2>2, ChangeLacks
  <2>4. Absent(v, file.items) => Absent(v, file'.items)
    <3>1. Absent(v, file.items) => Absent(v, [file.items EXCEPT ![i] = content])
      BY <2>2, ChangeLacks
    <3> QED BY <2>1, <3>1
  <2> QED BY <1>0, <1>6, <2>3, <2>4 DEF Edit, TraceOf, NotLoaded, readVars
<1>7. CASE UNCHANGED vars
  BY <1>0, <1>7 DEF vars, TraceOf, NotLoaded
<1> QED BY <1>1, <1>2, <1>3, <1>4, <1>5, <1>6, <1>7 DEF Next, Handle

-----------------------------------------------------------------------------
(* The requests alone: nobody else writes the file, and none is cancelled. *)

Alone == MaxEdits = 0 /\ ~MayCancel

\* A request writes over the file it read both times, and until it is reloaded
\* or taken back the file is what it wrote.
FileOf(w) ==
    /\ pc[w] \in {"parse", "write"} => snapshot[w] = file
    /\ pc[w] \in {"write", "reload", "restore"} => current[w] = snapshot[w].items
    /\ pc[w] \in {"reload", "restore"} => file = Written(w)
FileOK == \A w \in Writer : FileOf(w)

Known == {i \in Id : loaded[i] # Gone}
RegistryOK == registry = Known

\* No change was kept that its caller was told of as kept.
Calm == \A w \in Writer : outcome[w] \in {"none", "ok", "failed"}
LoadedOK ==
    Calm => /\ \A w \in Writer :
                 pc[w] \in {"reload", "restore"} => loaded = snapshot[w].items
            /\ (\A w \in Writer : pc[w] \notin {"reload", "restore"})
                 => loaded = file.items

AloneInv == FileOK /\ RegistryOK /\ LoadedOK

\* Without cancellation a job runs only while its task waits for it.
LEMMA JobsAreAwaited ==
    ASSUME ~MayCancel, ControlInv, NEW w \in Writer, job[w] # "none"
    PROVE  /\ lock = w
           /\ pc[w] = IF job[w] = "write" THEN "write" ELSE "restore"
BY DEF ControlInv, TypeOK, LockOK, Holding, JobOK, JobOf, OutcomeOK, OutcomeOf

\* What is inside the block is one request's.
LEMMA OneInside ==
    ASSUME LockOK, NEW v \in Writer, NEW w \in Writer,
           pc[v] \in Holding, pc[w] \in Holding
    PROVE  v = w
BY DEF LockOK

\* An answer is given once, so what was calm after a step was calm before it.
LEMMA CalmBefore ==
    ASSUME ControlInv, [Next]_vars, ~MayCancel, Calm'
    PROVE  Calm
<1> SUFFICES ASSUME NEW v \in Writer
             PROVE  outcome[v] \in {"none", "ok", "failed"}
  BY DEF Calm
<1>1. outcome'[v] \in {"none", "ok", "failed"}
  BY DEF Calm
<1>2. outcome[v] # "none" => UNCHANGED outcome[v]
  <2> USE DEF ControlInv
  <2>1. ASSUME NEW w \in Writer, Request(w) \/ Handle(w)
        PROVE  outcome[v] # "none" => UNCHANGED outcome[v]
    BY <2>1, JobsAreAwaited DEF Request, Handle, Validate, Acquire, Snapshot, Load, WriteJob,
       Reload, CompareJob, PutBackJob, Goto, Finish, TypeOK, OutcomeOK, OutcomeOf
  <2> QED BY <2>1 DEF Next, Cancel, Edit, vars
<1> QED BY <1>1, <1>2

\* The requests alone keep the file, what runs and the registry together.
LEMMA AloneStep == Alone /\ ControlInv /\ AloneInv /\ [Next]_vars => AloneInv'
<1> SUFFICES ASSUME Alone, ControlInv, AloneInv, [Next]_vars PROVE AloneInv'
  OBVIOUS
<1> USE DEF ControlInv
<1>1. ASSUME NEW w \in Writer, Request(w) \/ Validate(w) PROVE AloneInv'
  <2>1. UNCHANGED <<file, loaded, registry, snapshot, current>>
    BY <1>1 DEF Request, Validate, haVars, readVars
  <2>2. \A v \in Writer : pc'[v] \in Holding => UNCHANGED <<pc[v], id[v], op[v]>>
    BY <1>1 DEF Request, Validate, Goto, Finish, TypeOK, Holding, requestVars
  <2>3. \A v \in Writer : pc[v] \in Holding => UNCHANGED pc[v]
    BY <1>1 DEF Request, Validate, Goto, Finish, TypeOK, Holding
  <2>4. FileOK'
    BY <2>1, <2>2 DEF AloneInv, FileOK, FileOf, Written, Holding
  <2>5. RegistryOK'
    BY <2>1 DEF AloneInv, RegistryOK, Known
  <2>6. LoadedOK'
    BY <2>1, <2>2, <2>3, CalmBefore DEF AloneInv, LoadedOK, Holding, Alone
  <2> QED BY <2>4, <2>5, <2>6 DEF AloneInv
<1>2. ASSUME NEW w \in Writer, Acquire(w) \/ Snapshot(w) \/ Load(w) PROVE AloneInv'
  <2>1. UNCHANGED <<file, loaded, registry, id, op>>
    BY <1>2 DEF Acquire, Snapshot, Load, haVars, requestVars
  <2>2. \A v \in Writer : /\ pc[v] \notin {"write", "reload", "restore"}
                          /\ pc[v] = "parse" => v = w
    BY <1>2 DEF Acquire, Snapshot, Load, LockOK, Holding, TypeOK
  <2>3. \A v \in Writer : pc'[v] \notin {"reload", "restore"}
    BY <1>2, <2>2 DEF Acquire, Snapshot, Load, Goto, Finish, TypeOK
  <2>4. \A v \in Writer : pc'[v] = "parse" => snapshot'[v] = file
    BY <1>2, <2>2 DEF Acquire, Snapshot, Load, Goto, Finish, TypeOK
  <2>5. \A v \in Writer :
          pc'[v] = "write" => snapshot'[v] = file /\ current'[v] = file.items
    <3>1. pc[w] = "parse" => snapshot[w] = file
      BY DEF AloneInv, FileOK, FileOf
    <3> QED BY <1>2, <2>2, <3>1 DEF Acquire, Snapshot, Load, Goto, Finish, TypeOK
  <2>6. FileOK'
    BY <2>1, <2>3, <2>4, <2>5 DEF FileOK, FileOf
  <2>7. RegistryOK'
    BY <2>1 DEF AloneInv, RegistryOK, Known
  <2>8. LoadedOK'
    BY <2>1, <2>2, <2>3, CalmBefore DEF AloneInv, LoadedOK, Alone
  <2> QED BY <2>6, <2>7, <2>8 DEF AloneInv
<1>3. ASSUME NEW w \in Writer, WriteJob(w) PROVE AloneInv'
  <2>1. UNCHANGED <<loaded, registry, id, op, snapshot, current>>
    BY <1>3 DEF WriteJob, haVars, requestVars, readVars
  <2>2. pc[w] = "write"
    BY <1>3, JobsAreAwaited DEF WriteJob, Alone
  <2>3. \A v \in Writer : v # w => pc[v] \notin Holding /\ UNCHANGED pc[v]
    BY <1>3, <2>2, OneInside DEF WriteJob, Goto, Finish, TypeOK, Holding
  <2>4. /\ snapshot[w] = file /\ current[w] = file.items
        /\ Calm' => loaded = file.items
    BY <2>2, <2>3, CalmBefore DEF AloneInv, FileOK, FileOf, LoadedOK, Alone, Holding
  <2>5. RegistryOK'
    BY <2>1 DEF AloneInv, RegistryOK, Known
  <2>6. CASE file' = Written(w) /\ Goto(w, "reload")
    <3>1. pc'[w] = "reload"
      BY <2>6 DEF Goto, TypeOK
    <3>2. Written(w)' = Written(w)
      BY <2>1 DEF Written
    <3>3. FileOK'
      BY <2>1, <2>3, <2>4, <2>6, <3>1, <3>2 DEF FileOK, FileOf, Holding
    <3>4. LoadedOK'
      BY <2>1, <2>3, <2>4, <3>1 DEF LoadedOK, Holding
    <3> QED BY <2>5, <3>3, <3>4 DEF AloneInv
  <2>7. CASE UNCHANGED file /\ Finish(w, "failed")
    <3>1. pc'[w] = "done"
      BY <2>7 DEF Finish, TypeOK
    <3>2. FileOK'
      BY <2>3, <3>1 DEF FileOK, FileOf, Holding
    <3>3. LoadedOK'
      BY <2>1, <2>3, <2>4, <2>7, <3>1 DEF LoadedOK, Holding
    <3> QED BY <2>5, <3>2, <3>3 DEF AloneInv
  <2> QED BY <1>3, <2>2, <2>6, <2>7 DEF WriteJob
<1>4. ASSUME NEW w \in Writer, Reload(w) PROVE AloneInv'
  <2>1. UNCHANGED <<file, id, op, snapshot, current>>
    BY <1>4 DEF Reload, requestVars, readVars
  <2>2. pc[w] = "reload"
    BY <1>4 DEF Reload
  <2>3. \A v \in Writer : v # w => pc[v] \notin Holding /\ UNCHANGED pc[v]
    BY <1>4, <2>2, OneInside DEF Reload, Goto, Finish, TypeOK, Holding
  <2>4. /\ file = Written(w) /\ current[w] = snapshot[w].items
        /\ Calm' => loaded = snapshot[w].items
    BY <2>2, CalmBefore DEF AloneInv, FileOK, FileOf, LoadedOK, Alone
  <2>5. CASE Finish(w, "ok") /\ loaded' = [loaded EXCEPT ![id[w]] = file.items[id[w]]]
             /\ registry' = Known'
    <3>1. pc'[w] = "done"
      BY <2>5 DEF Finish, TypeOK
    <3>2. FileOK'
      BY <2>3, <3>1 DEF FileOK, FileOf, Holding
    <3>3. Calm' => loaded' = file.items
      <4>1. id[w] \in Id /\ snapshot[w].items \in Items
        BY ItemsOfFiles DEF TypeOK
      <4>2. file.items = [current[w] EXCEPT ![id[w]] =
                            IF op[w] = "delete" THEN Gone ELSE w]
        BY <2>4, WrittenIsAFile
      <4> QED BY <2>4, <2>5, <4>1, <4>2 DEF Items
    <3>4. LoadedOK'
      BY <2>1, <2>3, <3>1, <3>3 DEF LoadedOK, Holding
    <3> QED BY <2>5, <3>2, <3>4 DEF AloneInv, RegistryOK
  <2>6. CASE Goto(w, "restore") /\ UNCHANGED haVars
    <3>1. pc'[w] = "restore"
      BY <2>6 DEF Goto, TypeOK
    <3>2. FileOK'
      BY <2>1, <2>3, <2>4, <3>1 DEF FileOK, FileOf, Holding, Written
    <3>3. LoadedOK'
      BY <2>1, <2>3, <2>4, <2>6, <3>1 DEF LoadedOK, Holding, haVars
    <3> QED BY <2>6, <3>2, <3>3 DEF AloneInv, RegistryOK, Known, haVars
  <2>7. Reload(w) => \/ Goto(w, "restore") /\ UNCHANGED haVars
                     \/ /\ Finish(w, "ok")
                        /\ loaded' = [loaded EXCEPT ![id[w]] = file.items[id[w]]]
                        /\ registry' = Known'
    <3>1. id[w] \in Id /\ loaded \in Items /\ current[w] \in Items
      BY ItemsOfFiles DEF TypeOK
    <3>2. file.items[id[w]] = IF op[w] = "delete" THEN Gone ELSE w
      BY <2>4, <3>1, WrittenIsAFile DEF Items
    <3>3. registry = Known
      BY DEF AloneInv, RegistryOK
    <3> QED BY <3>1, <3>2, <3>3 DEF Reload, Reloaded, Known, Items
  <2> QED BY <1>4, <2>5, <2>6, <2>7
<1>5. ASSUME NEW w \in Writer, CompareJob(w) \/ PutBackJob(w) PROVE AloneInv'
  <2>1. UNCHANGED <<loaded, registry, id, op, snapshot, current>>
    BY <1>5 DEF CompareJob, PutBackJob, haVars, requestVars, readVars
  <2>2. pc[w] = "restore"
    BY <1>5, JobsAreAwaited DEF CompareJob, PutBackJob, Alone
  <2>3. \A v \in Writer : v # w => pc[v] \notin Holding /\ UNCHANGED pc[v]
    BY <1>5, <2>2, OneInside DEF CompareJob, PutBackJob, Finish, TypeOK, Holding
  <2>4. /\ file = Written(w) /\ current[w] = snapshot[w].items
        /\ Calm' => loaded = snapshot[w].items
    BY <2>2, CalmBefore DEF AloneInv, FileOK, FileOf, LoadedOK, Alone
  <2>5. RegistryOK'
    BY <2>1 DEF AloneInv, RegistryOK, Known
  <2>6. CASE UNCHANGED <<pc, file, outcome>>
    <3>1. FileOK'
      BY <2>1, <2>6 DEF AloneInv, FileOK, FileOf, Written
    <3>2. LoadedOK'
      BY <2>1, <2>6 DEF AloneInv, LoadedOK, Calm
    <3> QED BY <2>5, <3>1, <3>2 DEF AloneInv
  <2>7. CASE \E result \in {"changed", "kept"} : Finish(w, result)
    <3>1. pc'[w] = "done" /\ ~Calm'
      BY <2>7 DEF Finish, TypeOK, Calm
    <3>2. FileOK'
      BY <2>3, <3>1 DEF FileOK, FileOf, Holding
    <3>3. LoadedOK'
      BY <3>1 DEF LoadedOK
    <3> QED BY <2>5, <3>2, <3>3 DEF AloneInv
  <2>8. CASE file' = snapshot[w] /\ Finish(w, "failed")
    <3>1. pc'[w] = "done"
      BY <2>8 DEF Finish, TypeOK
    <3>2. FileOK'
      BY <2>3, <3>1 DEF FileOK, FileOf, Holding
    <3>3. LoadedOK'
      BY <2>1, <2>3, <2>4, <2>8, <3>1 DEF LoadedOK, Holding
    <3> QED BY <2>5, <3>2, <3>3 DEF AloneInv
  <2> QED BY <1>5, <2>2, <2>6, <2>7, <2>8 DEF CompareJob, PutBackJob
<1>6. CASE UNCHANGED vars
  BY <1>6 DEF vars, AloneInv, FileOK, FileOf, Written, RegistryOK, Known, LoadedOK, Calm
<1>7. ~Edit /\ \A w \in Writer : ~Cancel(w)
  BY DEF Alone, Edit, Cancel, TypeOK
<1> QED BY <1>1, <1>2, <1>3, <1>4, <1>5, <1>6, <1>7 DEF Next, Handle

-----------------------------------------------------------------------------

\* The control invariant holds, whoever else writes and whatever is cancelled.
LEMMA Controlled == Spec => []ControlInv
<1>1. Init => ControlInv
  BY InitTypes DEF Init, ControlInv, LockOK, Holding, JobOK, JobOf, OutcomeOK, OutcomeOf
<1>2. ControlInv /\ [Next]_vars => ControlInv'
  BY ControlStep, TypeStep DEF ControlInv
<1> QED BY <1>1, <1>2, PTL DEF Spec

\* Of the requests' jobs, only one that a cancelled task left behind runs
\* without the lock: without cancellation the writers of the file take turns,
\* whatever the editor does.
THEOREM Serialized ==
    ASSUME ~MayCancel
    PROVE  Spec => []WritersSerialized
<1>1. ControlInv => WritersSerialized
  BY JobsAreAwaited DEF WritersSerialized
<1> QED BY <1>1, Controlled, PTL

\* A request that is told it failed has left nothing in the file and in what
\* runs, and nothing that could still write it, whatever the editor and
\* cancelled requests did in between.
THEOREM FailedIsClean == Spec => []FailureLeavesNothing
<1>1. Init => TraceOK
  <2> SUFFICES ASSUME Init, NEW v \in Writer PROVE TraceOf(v)
    BY DEF TraceOK
  <2>1. Absent(v, file.items)
    BY DEF Init, Absent
  <2>2. Absent(v, loaded) /\ NotLoaded(v)
    BY <2>1 DEF Init, NotLoaded
  <2> QED BY <2>1, <2>2 DEF TraceOf
<1>2. ControlInv /\ TraceOK => FailureLeavesNothing
  BY DEF FailureLeavesNothing, Traces, TraceOK, TraceOf, Absent, ControlInv,
         OutcomeOK, OutcomeOf, JobOK, JobOf
<1> QED BY <1>1, <1>2, TraceStep, Controlled, PTL DEF Spec

\* Where nobody else writes and no request is cancelled, the file, what runs
\* and the registry say the same whenever no request is inside its block, as
\* long as every failure could be taken back.
THEOREM FileIsWhatRuns ==
    ASSUME Alone
    PROVE  Spec => []RunningMatchesFile
<1>1. Init => AloneInv
  BY DEF Init, AloneInv, FileOK, FileOf, RegistryOK, Known, LoadedOK
<1>2. ControlInv /\ AloneInv => RunningMatchesFile
  BY DEF RunningMatchesFile, Settled, AloneInv, RegistryOK, Known, LoadedOK, Calm,
         ControlInv, LockOK, Holding
<1> QED BY <1>1, <1>2, AloneStep, Controlled, PTL DEF Spec

-----------------------------------------------------------------------------
(* The requests alone implement AutomationCatalog. *)

\* What the refinement mapping gives the catalogue.
Before == IF Changing = {} THEN file.items
          ELSE snapshot[CHOOSE w \in Changing : TRUE].items
Target == IF Changing = {} THEN Gone ELSE id[CHOOSE w \in Changing : TRUE]

NoneInside == \A w \in Writer : pc[w] \notin {"reload", "restore"}
Between == NoneInside => Before = file.items /\ Target = Gone
Inside ==
    \A w \in Writer :
        pc[w] \in {"reload", "restore"} => Before = snapshot[w].items /\ Target = id[w]

\* The catalogue is between requests unless one request has written the file
\* and is not done, and then it is in that one.
LEMMA MappedBetween == Between
<1> SUFFICES ASSUME NoneInside PROVE Before = file.items /\ Target = Gone
  BY DEF Between
<1>1. Changing = {}
  BY DEF Changing, NoneInside
<1> QED BY <1>1 DEF Before, Target

\* Inside, it says what the request loaded and which automation it is for.
LEMMA MappedInside == LockOK => Inside
<1> SUFFICES ASSUME LockOK, NEW w \in Writer, pc[w] \in {"reload", "restore"}
             PROVE  Before = snapshot[w].items /\ Target = id[w]
  BY DEF Inside
<1>1. Changing = {w}
  BY OneInside DEF Changing, LockOK, Holding
<1>2. (CHOOSE v \in Changing : TRUE) = w
  BY <1>1
<1> QED BY <1>1, <1>2 DEF Before, Target

\* The same of the state after a step.
LEMMA MappedAfter == Between' /\ (LockOK' => Inside')
BY MappedBetween, MappedInside, PTL

\* A step that moves nobody into or out of the write, and leaves the file and
\* what was loaded before it, is no step of the catalogue.
LEMMA MappedStutter ==
    ASSUME LockOK, LockOK', UNCHANGED file,
           \A v \in Writer : /\ pc[v] \in {"reload", "restore"}
                                  => pc'[v] \in {"reload", "restore"}
                             /\ pc'[v] \in {"reload", "restore"}
                                  => /\ pc[v] \in {"reload", "restore"}
                                     /\ UNCHANGED <<snapshot[v], id[v]>>
    PROVE  UNCHANGED <<file.items, Before, Target>>
<1>1. CASE NoneInside
  <2>1. NoneInside'
    BY <1>1 DEF NoneInside
  <2>2. Before = file.items /\ Target = Gone
    BY <1>1, MappedBetween DEF Between
  <2>3. Before' = file'.items /\ Target' = Gone
    BY <2>1, MappedAfter DEF Between
  <2> QED BY <2>2, <2>3
<1>2. ASSUME NEW w \in Writer, pc[w] \in {"reload", "restore"}
      PROVE  UNCHANGED <<file.items, Before, Target>>
  <2>1. pc'[w] \in {"reload", "restore"} /\ UNCHANGED <<snapshot[w], id[w]>>
    BY <1>2
  <2>2. Before = snapshot[w].items /\ Target = id[w]
    BY <1>2, MappedInside DEF Inside
  <2>3. Before' = snapshot'[w].items /\ Target' = id'[w]
    BY <2>1, MappedAfter DEF Inside
  <2> QED BY <2>1, <2>2, <2>3
<1> QED BY <1>1, <1>2 DEF NoneInside

\* Every step of the requests alone is a step of the catalogue or none: the
\* write begins a change, the answer keeps it or takes it back.
LEMMA CatalogStep ==
    ASSUME Alone, ControlInv, ControlInv', AloneInv, [Next]_vars
    PROVE  [Catalog!Next]_(Catalog!vars)
<1> USE DEF ControlInv
<1>1. UNCHANGED <<file.items, Before, Target>> => UNCHANGED Catalog!vars
  BY DEF Catalog!vars, Before, Target
<1>2. ASSUME NEW w \in Writer,
             Request(w) \/ Validate(w) \/ Acquire(w) \/ Snapshot(w) \/ Load(w)
      PROVE  UNCHANGED <<file.items, Before, Target>>
  <2>1. UNCHANGED file
    BY <1>2 DEF Request, Validate, Acquire, Snapshot, Load
  <2>2. \A v \in Writer : /\ pc[v] \in {"reload", "restore"}
                               => pc'[v] \in {"reload", "restore"}
                          /\ pc'[v] \in {"reload", "restore"}
                               => /\ pc[v] \in {"reload", "restore"}
                                  /\ UNCHANGED <<snapshot[v], id[v]>>
    BY <1>2 DEF Request, Validate, Acquire, Snapshot, Load, Goto, Finish, requestVars,
       readVars, TypeOK
  <2> QED BY <2>1, <2>2, MappedStutter
<1>3. ASSUME NEW w \in Writer, WriteJob(w)
      PROVE  Catalog!Next \/ UNCHANGED <<file.items, Before, Target>>
  <2>1. UNCHANGED <<id, op, snapshot>>
    BY <1>3 DEF WriteJob, requestVars, readVars
  <2>2. pc[w] = "write"
    BY <1>3, JobsAreAwaited DEF WriteJob, Alone
  <2>3. NoneInside
    BY <2>2, OneInside DEF Holding, NoneInside
  <2>4. Before = file.items /\ Target = Gone
    BY <2>3, MappedBetween DEF Between
  <2>5. CASE file' = Written(w) /\ Goto(w, "reload")
    <3>1. pc'[w] = "reload"
      BY <2>5 DEF Goto, TypeOK
    <3>2. Before' = snapshot'[w].items /\ Target' = id'[w]
      BY <3>1, MappedAfter DEF Inside
    <3>3. snapshot[w] = file /\ current[w] = file.items
      BY <2>2 DEF AloneInv, FileOK, FileOf
    <3>4. file'.items = [file.items EXCEPT ![id[w]] =
                           IF op[w] = "delete" THEN Gone ELSE w]
      BY <2>5, <3>3, WrittenIsAFile
    <3>5. id[w] \in Id /\ (IF op[w] = "delete" THEN Gone ELSE w) \in Content \cup {Gone}
      BY DEF TypeOK, Content
    <3>6. Catalog!Change(id[w], IF op[w] = "delete" THEN Gone ELSE w)
      BY <2>1, <2>4, <3>2, <3>3, <3>4 DEF Catalog!Change, Before, Target
    <3> QED BY <3>5, <3>6 DEF Catalog!Next
  <2>6. CASE UNCHANGED file /\ Finish(w, "failed")
    <3>1. \A v \in Writer : pc'[v] \notin {"reload", "restore"}
      BY <2>3, <2>6 DEF Finish, TypeOK, NoneInside
    <3> QED BY <2>3, <2>6, <3>1, MappedStutter DEF NoneInside
  <2> QED BY <1>3, <2>2, <2>5, <2>6 DEF WriteJob
<1>4. ASSUME NEW w \in Writer, Reload(w)
      PROVE  Catalog!Next \/ UNCHANGED <<file.items, Before, Target>>
  <2>1. UNCHANGED <<file, id, snapshot>> /\ pc[w] = "reload"
    BY <1>4 DEF Reload, requestVars, readVars
  <2>2. \A v \in Writer : v # w => pc[v] \notin Holding /\ UNCHANGED pc[v]
    BY <1>4, <2>1, OneInside DEF Reload, Goto, Finish, TypeOK, Holding
  <2>3. CASE Finish(w, "ok")
    <3>1. Target = id[w]
      BY <2>1, MappedInside DEF Inside
    <3>2. NoneInside'
      BY <2>2, <2>3 DEF Finish, TypeOK, Holding, NoneInside
    <3>3. Before' = file'.items /\ Target' = Gone
      BY <3>2, MappedAfter DEF Between
    <3>4. Target # Gone
      BY <3>1 DEF TypeOK
    <3> QED BY <2>1, <3>3, <3>4 DEF Catalog!Next, Catalog!Keep, Before, Target
  <2>4. CASE Goto(w, "restore")
    <3>1. pc'[w] = "restore"
      BY <2>4 DEF Goto, TypeOK
    <3> QED BY <2>1, <2>2, <3>1, MappedStutter DEF Holding
  <2> QED BY <1>4, <2>3, <2>4 DEF Reload
<1>5. ASSUME NEW w \in Writer, CompareJob(w) \/ PutBackJob(w)
      PROVE  Catalog!Next \/ UNCHANGED <<file.items, Before, Target>>
  <2>1. UNCHANGED <<id, snapshot>>
    BY <1>5 DEF CompareJob, PutBackJob, requestVars, readVars
  <2>2. pc[w] = "restore"
    BY <1>5, JobsAreAwaited DEF CompareJob, PutBackJob, Alone
  <2>3. \A v \in Writer : v # w => pc[v] \notin Holding /\ UNCHANGED pc[v]
    BY <1>5, <2>2, OneInside DEF CompareJob, PutBackJob, Finish, TypeOK, Holding
  <2>4. Before = snapshot[w].items /\ Target = id[w] /\ Target # Gone
    BY <2>2, MappedInside DEF Inside, TypeOK
  <2>5. CASE UNCHANGED <<pc, file>>
    BY <2>1, <2>5, MappedStutter
  <2>6. CASE \E result \in {"changed", "kept", "failed"} : Finish(w, result)
    <3>1. NoneInside'
      BY <2>3, <2>6 DEF Finish, TypeOK, Holding, NoneInside
    <3>2. Before' = file'.items /\ Target' = Gone
      BY <3>1, MappedAfter DEF Between
    <3>3. CASE UNCHANGED file
      BY <2>4, <3>2, <3>3 DEF Catalog!Next, Catalog!Keep, Before, Target
    <3>4. CASE file' = snapshot[w]
      BY <2>4, <3>2, <3>4 DEF Catalog!Next, Catalog!TakeBack, Before, Target
    <3> QED BY <1>5, <3>3, <3>4 DEF CompareJob, PutBackJob
  <2> QED BY <1>5, <2>2, <2>5, <2>6 DEF CompareJob, PutBackJob
<1>6. CASE UNCHANGED vars
  <2>1. UNCHANGED <<pc, id, snapshot, file>>
    BY <1>6 DEF vars
  <2>2. UNCHANGED <<file.items, Before, Target>>
    BY <2>1, MappedStutter
  <2> QED BY <1>1, <2>2
<1>7. ~Edit /\ \A w \in Writer : ~Cancel(w)
  BY DEF Alone, Edit, Cancel, TypeOK
<1> QED BY <1>1, <1>2, <1>3, <1>4, <1>5, <1>6, <1>7 DEF Next, Handle

\* Where nobody else writes and no request is cancelled, the file changes as
\* the catalogue does: one request at a time, the automation it names and no
\* other, and its change is kept or taken back before the next begins.
THEOREM Implements ==
    ASSUME Alone
    PROVE  Spec => ImplementsCatalog
<1>1. Init => Catalog!Init
  <2> SUFFICES ASSUME Init PROVE Catalog!Init
    OBVIOUS
  <2>1. Before = file.items /\ Target = Gone
    BY MappedBetween DEF Init, Between, NoneInside
  <2>2. file.items \in [Id -> Content \cup {Gone}]
    BY InitTypes, ItemsOfFiles DEF Items
  <2> QED BY <2>1, <2>2 DEF Catalog!Init, Before, Target
<1>2. Init => AloneInv
  BY DEF Init, AloneInv, FileOK, FileOf, RegistryOK, Known, LoadedOK
<1>3. Spec => []AloneInv
  BY <1>2, AloneStep, Controlled, PTL DEF Spec
<1>4. ControlInv /\ ControlInv' /\ AloneInv /\ [Next]_vars
        => [Catalog!Next]_(Catalog!vars)
  BY CatalogStep
<1> QED BY <1>1, <1>3, <1>4, Controlled, PTL DEF Spec, ImplementsCatalog, Catalog!Spec

=============================================================================
