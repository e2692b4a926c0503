-------------------------- MODULE BlockPanel_proofs --------------------------
(***************************************************************************)
(* For any texts, environments and number of tasks, a stored row is that   *)
(* of its hash, as far as the hash knows the variables of the text         *)
(* (CacheHonest), and a query that the panel asks about runs   *)
(* as it was asked about (ConfirmedTextRuns).                              *)
(*                                                                         *)
(* CacheHonest is inductive together with HashIsOfTask: the hash a task    *)
(* stores under is made of the text and the variables its command was      *)
(* called with, both kept in the task since, and not of those of the panel *)
(* by then.                                                                *)
(***************************************************************************)
EXTENDS BlockPanel, TLAPS

(* A task about to store its result has the hash of what it has run.       *)
HashIsOfTask ==
  \A t \in Tasks :
    task[t].pc = "save" => task[t].hash = HashOf(task[t].text, task[t].vars)

(* A lookup that looks for a row has a hash to look for.                   *)
LookupIsHashed ==
  hydrate # None => (hydrate.pc # "hash" => hydrate.hash \in Hash)

IInv == TypeOK /\ HashIsOfTask /\ LookupIsHashed

-----------------------------------------------------------------------------
(* Values.                                                                 *)

(* What is run, and the hash it is stored under, are of the same type.     *)
LEMMA ResultType ==
  ASSUME NEW text \in Texts, NEW env \in Envs \cup {None}
  PROVE  /\ ResultOf(text, env) \in Result /\ HashOf(text, env) \in Hash
         /\ ResultOf(text, env).text = HashOf(text, env).text
         /\ HashOf(text, env).text \notin UsesEnv \ Keyed =>
              ResultOf(text, env).vars = HashOf(text, env).vars
BY PanelAssumption DEF ResultOf, HashOf, Vars, Result, Hash

(* A task that is not there is a task.                                     *)
LEMMA NoTaskType ==
  ASSUME NEW pc \in {"free", "done"}, Texts # {}
  PROVE  NoTask(pc) \in Task /\ NoTask(pc).pc = pc
<1>1. (CHOOSE text \in Texts : TRUE) \in Texts
  OBVIOUS
<1>. QED  BY <1>1 DEF NoTask, Task

(* The end of a task leaves the tasks and the references well typed, and   *)
(* the others as they were.                                                *)
LEMMA EndsType ==
  ASSUME TypeOK, NEW t \in Tasks, Ends(t)
  PROVE  /\ task' \in [Tasks -> Task] /\ abort' \in Tasks \cup {None} /\ loading' \in BOOLEAN
         /\ task'[t].pc = "done" /\ \A u \in Tasks \ {t} : task'[u] = task[u]
<1>1. NoTask("done") \in Task /\ NoTask("done").pc = "done"
  BY NoTaskType DEF TypeOK
<1>2. task' = [task EXCEPT ![t] = NoTask("done")]
  BY DEF Ends
<1>3. abort' \in Tasks \cup {None} /\ loading' \in BOOLEAN
  BY DEF Ends, Release, TypeOK, refs
<1>. QED  BY <1>1, <1>2, <1>3 DEF TypeOK

(* A task that starts is well typed, and says what it was started with.    *)
LEMMA StartType ==
  ASSUME TypeOK, NEW t \in Tasks, NEW what \in {"run", "explain", "more"},
         NEW text \in Texts, NEW asked \in Texts \cup {None}, Start(t, what, text, asked)
  PROVE  /\ task' \in [Tasks -> Task]
         /\ task'[t].pc = "collect" /\ task'[t].what = what
         /\ task'[t].text = text /\ task'[t].asked = asked
         /\ \A u \in Tasks \ {t} : task'[u] = task[u]
<1> DEFINE new == [what |-> what, pc |-> "collect", text |-> text, vars |-> None,
                   mine |-> TRUE, aborted |-> FALSE, asked |-> asked, hash |-> None]
<1>1. new \in Task
  BY DEF Task
<1>2. task' = [task EXCEPT ![t] = new]
  BY DEF Start
<1>. QED  BY <1>1, <1>2 DEF TypeOK

(* What the panel shows is well typed.                                     *)
LEMMA ShowsType ==
  ASSUME TypeOK, NEW t \in Tasks, NEW p \in Panel, Shows(t, p)
  PROVE  panel' \in Panel
BY DEF TypeOK, Shows

(* A new text starts a lookup, or none.                                    *)
LEMMA LookUpType ==
  ASSUME TypeOK, NEW text \in Texts, LookUp(text)
  PROVE  /\ hydrate' \in Lookup \cup {None}
         /\ hydrate' # None => hydrate'.pc = "hash"
BY DEF TypeOK, LookUp, Lookup
-----------------------------------------------------------------------------
(* Type correctness.                                                       *)

(* What a run from the callbacks of the panel leaves is well typed.        *)
LEMMA ExecuteRunType ==
  ASSUME TypeOK, NEW c \in Closure, NEW asked \in Texts \cup {None}, ExecuteRun(c, asked)
  PROVE  /\ panel' \in Panel /\ abort' \in Tasks \cup {None}
         /\ task' \in [Tasks -> Task]
<1>0. c.text \in Texts
  BY DEF Closure
<1>1. \A s \in States : [panel EXCEPT !.state = s] \in Panel
  BY DEF TypeOK, Panel
<1>2. ASSUME NEW t \in Tasks, Start(t, "run", c.text, asked), abort' = t
      PROVE  abort' \in Tasks \cup {None} /\ task' \in [Tasks -> Task]
  BY <1>0, <1>2, StartType
<1>3. panel' \in Panel
  BY <1>1 DEF ExecuteRun, TypeOK, States
<1>4. abort' \in Tasks \cup {None} /\ task' \in [Tasks -> Task]
  BY <1>2 DEF ExecuteRun, TypeOK
<1>. QED  BY <1>3, <1>4

(* What a task leaves when it fails or is cancelled is well typed.         *)
LEMMA FailsType ==
  ASSUME TypeOK, NEW t \in Tasks, Fails(t) \/ StopsAsCancelled(t)
  PROVE  /\ panel' \in Panel /\ task' \in [Tasks -> Task]
         /\ abort' \in Tasks \cup {None} /\ loading' \in BOOLEAN
<1>1. Ends(t)
  BY DEF Fails, StopsAsCancelled
<1>2. \A s \in States : [panel EXCEPT !.state = s] \in Panel
  BY DEF TypeOK, Panel
<1>3. panel' \in Panel
  BY <1>2, ShowsType DEF Fails, StopsAsCancelled, TypeOK, States
<1>. QED  BY <1>1, <1>3, EndsType

(* So is what it leaves when its command has completed.                    *)
LEMMA CompletesType ==
  ASSUME TypeOK, NEW t \in Tasks, Completes(t)
  PROVE  /\ panel' \in Panel /\ task' \in [Tasks -> Task]
         /\ abort' \in Tasks \cup {None} /\ loading' \in BOOLEAN
<1> DEFINE result == ResultOf(task[t].text, task[t].vars)
<1>1. result \in Result
  BY ResultType DEF TypeOK, Task
<1> HIDE DEF result
<1>2. panel \in Panel /\ panel.resp \in Response \cup {None}
  BY DEF TypeOK, Panel
<1>3. CASE /\ task[t].what = "run"
           /\ Shows(t, [state |-> "success", resp |-> {result}])
           /\ IF kind = "http" /\ task[t].text \in Volatile THEN Ends(t)
              ELSE task' = [task EXCEPT ![t].pc = "hash"] /\ UNCHANGED refs
  <2>1. [state |-> "success", resp |-> {result}] \in Panel
    BY <1>1 DEF Panel, Response, States
  <2>2. panel' \in Panel
    BY <1>3, <2>1, ShowsType
  <2>3. CASE Ends(t)
    BY <2>2, <2>3, EndsType
  <2>4. CASE task' = [task EXCEPT ![t].pc = "hash"] /\ UNCHANGED refs
    BY <2>2, <2>4 DEF TypeOK, Task, refs
  <2>. QED  BY <1>3, <2>3, <2>4
<1>4. CASE /\ task[t].what = "explain"
           /\ Shows(t, [state |-> "success",
                        resp |-> IF panel.resp = None THEN {} ELSE panel.resp])
           /\ Ends(t)
  <2>1. [state |-> "success", resp |-> IF panel.resp = None THEN {} ELSE panel.resp] \in Panel
    BY <1>2 DEF Panel, Response, States
  <2>. QED  BY <1>4, <2>1, ShowsType, EndsType
<1>5. CASE task[t].what = "explain" /\ Fails(t)
  BY <1>5, FailsType
<1>6. CASE /\ task[t].what = "more"
           /\ \/ Shows(t, [panel EXCEPT !.resp = WithPage(@, result)])
              \/ UNCHANGED panel
           /\ Ends(t)
  <2>1. WithPage(panel.resp, result) \in Response
    BY <1>1, <1>2 DEF WithPage, Response
  <2>2. [panel EXCEPT !.resp = WithPage(@, result)] \in Panel
    BY <1>2, <2>1 DEF Panel
  <2>. QED  BY <1>2, <1>6, <2>2, ShowsType, EndsType
<1>. QED  BY <1>3, <1>4, <1>5, <1>6 DEF Completes, result

(* The initial states are well typed.                                      *)
LEMMA InitType == Init => TypeOK /\ LookupIsHashed
<1> SUFFICES ASSUME Init
             PROVE  TypeOK /\ LookupIsHashed
  OBVIOUS
<1>1. NoTask("free") \in Task
  BY NoTaskType DEF Init
<1>2. NoExec \in Exec
  BY DEF NoExec, Exec
<1>3. IdlePanel \in Panel
  BY DEF IdlePanel, Panel, States
<1>4. task \in [Tasks -> Task] /\ exec \in [Tasks -> Exec]
  BY <1>1, <1>2 DEF Init
<1>5. cache \in [Hash -> Response \cup {None}]
  BY DEF Init
<1>6. store \in Envs /\ server \in Envs /\ changes \in 0..MaxChanges
  BY PanelAssumption DEF Init
<1>7. hydrate = None /\ confirm = None /\ abort = None /\ cancels = {}
  BY DEF Init
<1>8. kind \in {"db", "http"} /\ doc \in Texts /\ seen \in Texts /\ panel \in Panel
  BY <1>3 DEF Init
<1>9. mounted \in BOOLEAN /\ loading \in BOOLEAN
  BY DEF Init
<1>. QED  BY <1>4, <1>5, <1>6, <1>7, <1>8, <1>9 DEF TypeOK, LookupIsHashed

(* An action of the user keeps the types.                                  *)
LEMMA UserType ==
  ASSUME TypeOK, LookupIsHashed, User
  PROVE  TypeOK' /\ LookupIsHashed'
<1> USE DEF note, environment, refs, backend
<1>a. \A s \in States : [panel EXCEPT !.state = s] \in Panel
  BY DEF TypeOK, Panel
<1>b. Change => changes' \in 0..MaxChanges
  BY PanelAssumption DEF Change, TypeOK
<1>1. CASE Edit
  <2>1. PICK text \in Texts : /\ doc' = text
                              /\ IF kind = "http" /\ mounted THEN Told(text)
                                 ELSE UNCHANGED <<seen, hydrate>>
    BY <1>1 DEF Edit
  <2>2. /\ seen' \in Texts /\ hydrate' \in Lookup \cup {None}
        /\ LookupIsHashed'
    BY <2>1, LookUpType DEF Told, TypeOK, LookupIsHashed
  <2>. QED  BY <1>1, <1>b, <2>1, <2>2 DEF Edit, TypeOK
<1>2. CASE Mount
  <2>1. doc \in Texts
    BY DEF TypeOK
  <2>2. LookUp(doc)
    BY <1>2 DEF Mount
  <2>3. hydrate' \in Lookup \cup {None} /\ LookupIsHashed'
    BY <2>1, <2>2, LookUpType DEF LookupIsHashed
  <2>. QED  BY <1>2, <2>3 DEF Mount, TypeOK
<1>3. CASE Unmount
  <2>1. task' \in [Tasks -> Task]
    <3>1. ASSUME NEW t \in Tasks, NEW b \in BOOLEAN
          PROVE  [task[t] EXCEPT !.mine = FALSE, !.aborted = b] \in Task
      BY DEF TypeOK, Task
    <3>2. \A t \in Tasks : task[t].aborted \in BOOLEAN
      BY DEF TypeOK, Task
    <3>. QED  BY <1>3, <3>1, <3>2 DEF Unmount
  <2>2. cancels' \subseteq Tasks
    BY <1>3 DEF Unmount, TypeOK
  <2>3. IdlePanel \in Panel
    BY DEF IdlePanel, Panel, States
  <2>. QED  BY <1>3, <1>b, <2>1, <2>2, <2>3 DEF Unmount, TypeOK, LookupIsHashed
<1>4. CASE RunBlock
  <2> DEFINE callbacks == [text |-> seen, state |-> panel.state]
  <2>1. callbacks \in Closure
    BY DEF TypeOK, Closure, Panel
  <2>2. CASE confirm' = callbacks /\ UNCHANGED <<panel, abort, task>>
    BY <1>4, <2>1, <2>2 DEF RunBlock, TypeOK, LookupIsHashed
  <2>3. CASE ExecuteRun(callbacks, None) /\ UNCHANGED confirm
    <3>1. panel' \in Panel /\ abort' \in Tasks \cup {None} /\ task' \in [Tasks -> Task]
      BY <2>1, <2>3, ExecuteRunType
    <3>. QED  BY <1>4, <2>3, <3>1 DEF RunBlock, TypeOK, LookupIsHashed
  <2>. QED  BY <1>4, <2>2, <2>3 DEF RunBlock
<1>5. CASE ContinueRun
  <2>1. confirm \in Closure /\ confirm.text \in Texts /\ ExecuteRun(confirm, confirm.text)
    BY <1>5 DEF ContinueRun, TypeOK, Closure
  <2>2. panel' \in Panel /\ abort' \in Tasks \cup {None} /\ task' \in [Tasks -> Task]
    BY <2>1, ExecuteRunType
  <2>. QED  BY <1>5, <2>2 DEF ContinueRun, TypeOK, LookupIsHashed
<1>6. CASE DismissRun
  BY <1>6 DEF DismissRun, TypeOK, LookupIsHashed
<1>7. CASE RunExplain
  <2>1. PICK t \in Tasks : Start(t, "explain", seen, None) /\ abort' = t
    BY <1>7 DEF RunExplain
  <2>2. seen \in Texts /\ task' \in [Tasks -> Task]
    BY <2>1, StartType DEF TypeOK
  <2>3. panel' \in Panel
    BY <1>7, <1>a DEF RunExplain, States
  <2>. QED  BY <1>7, <2>1, <2>2, <2>3 DEF RunExplain, TypeOK, LookupIsHashed
<1>8. CASE LoadMore
  <2>1. PICK t \in Tasks : Start(t, "more", seen, None)
    BY <1>8 DEF LoadMore
  <2>2. seen \in Texts /\ task' \in [Tasks -> Task]
    BY <2>1, StartType DEF TypeOK
  <2>. QED  BY <1>8, <2>2 DEF LoadMore, TypeOK, LookupIsHashed
<1>9. CASE CancelBlock
  <2>1. abort \in Tasks
    BY <1>9 DEF CancelBlock, TypeOK
  <2>2. [task[abort] EXCEPT !.aborted = TRUE] \in Task
    BY <2>1 DEF TypeOK, Task
  <2>3. task' \in [Tasks -> Task]
    BY <1>9, <2>1, <2>2 DEF CancelBlock, Aborted, TypeOK
  <2>4. cancels' \subseteq Tasks
    BY <1>9, <2>1 DEF CancelBlock, Aborted, TypeOK
  <2>. QED  BY <1>9, <2>3, <2>4 DEF CancelBlock, TypeOK, LookupIsHashed
<1>10. CASE SwitchEnvironment
  BY <1>10, <1>b DEF SwitchEnvironment, TypeOK, LookupIsHashed
<1>11. CASE RefreshEnvironment
  BY <1>11 DEF RefreshEnvironment, TypeOK, LookupIsHashed
<1>. QED  BY <1>1, <1>2, <1>3, <1>4, <1>5, <1>6, <1>7, <1>8, <1>9, <1>10, <1>11 DEF User

(* So does a callback of the panel.                                        *)
LEMMA PageType ==
  ASSUME TypeOK, LookupIsHashed, Page
  PROVE  TypeOK' /\ LookupIsHashed'
<1> USE DEF note, environment, refs, backend
<1>1. CASE BodyNotify
  <2>1. doc \in Texts /\ seen' = doc /\ LookUp(doc)
    BY <1>1 DEF BodyNotify, Told, TypeOK
  <2>2. hydrate' \in Lookup \cup {None} /\ LookupIsHashed'
    BY <2>1, LookUpType DEF LookupIsHashed
  <2>. QED  BY <1>1, <2>1, <2>2 DEF BodyNotify, TypeOK
<1>2. CASE HydrateHash
  <2>1. hydrate \in Lookup /\ HashOf(hydrate.text, hydrate.vars) \in Hash
    BY <1>2, ResultType DEF HydrateHash, TypeOK, Lookup
  <2>2. hydrate' \in Lookup /\ hydrate'.hash \in Hash
    BY <1>2, <2>1, PanelAssumption DEF HydrateHash, Lookup
  <2>. QED  BY <1>2, <2>2 DEF HydrateHash, TypeOK, LookupIsHashed
<1>3. CASE HydrateRow
  <2>1. hydrate \in Lookup /\ hydrate.hash \in Hash
    BY <1>3 DEF HydrateRow, TypeOK, LookupIsHashed
  <2>2. cache[hydrate.hash] \in Response \cup {None}
    BY <2>1 DEF TypeOK
  <2>3. hydrate' \in Lookup \cup {None} /\ LookupIsHashed'
    BY <1>3, <2>1, <2>2 DEF HydrateRow, Lookup, LookupIsHashed
  <2>. QED  BY <1>3, <2>3 DEF HydrateRow, TypeOK
<1>4. CASE HydrateApply
  <2>1. [state |-> "success", resp |-> hydrate.row] \in Panel
    BY <1>4 DEF HydrateApply, TypeOK, Lookup, Panel, States
  <2>. QED  BY <1>4, <2>1 DEF HydrateApply, TypeOK, LookupIsHashed
<1>. QED  BY <1>1, <1>2, <1>3, <1>4 DEF Page

(* So does a task.                                                         *)
LEMMA FrontType ==
  ASSUME TypeOK, LookupIsHashed, HashIsOfTask, NEW t \in Tasks, Front(t)
  PROVE  TypeOK' /\ LookupIsHashed'
<1> USE DEF note, environment, refs, backend
<1>1. CASE Collect(t)
  <2>1. CASE (Fails(t) \/ StopsAsCancelled(t)) /\ UNCHANGED exec
    BY <1>1, <2>1, FailsType DEF Collect, TypeOK, LookupIsHashed
  <2>2. CASE /\ task' = [task EXCEPT ![t].pc = "await", ![t].vars = store]
             /\ exec' = [exec EXCEPT ![t].at = "validate"]
             /\ UNCHANGED <<panel, refs>>
    <3>1. task' \in [Tasks -> Task]
      <4>1. [task[t] EXCEPT !.pc = "await", !.vars = store] \in Task
        BY DEF TypeOK, Task
      <4>2. task' = [task EXCEPT ![t] = [task[t] EXCEPT !.pc = "await", !.vars = store]]
        BY <2>2 DEF TypeOK
      <4>. QED  BY <4>1, <4>2 DEF TypeOK
    <3>2. exec' \in [Tasks -> Exec]
      BY <2>2 DEF TypeOK, Exec
    <3>. QED  BY <1>1, <2>2, <3>1, <3>2 DEF Collect, TypeOK, LookupIsHashed
  <2>. QED  BY <1>1, <2>1, <2>2 DEF Collect
<1>2. CASE Settle(t)
  <2>1. /\ panel' \in Panel /\ task' \in [Tasks -> Task]
        /\ abort' \in Tasks \cup {None} /\ loading' \in BOOLEAN
    BY <1>2, FailsType, CompletesType DEF Settle
  <2>2. exec' \in [Tasks -> Exec]
    BY <1>2 DEF Settle, NoExec, TypeOK, Exec
  <2>. QED  BY <1>2, <2>1, <2>2 DEF Settle, TypeOK, LookupIsHashed
<1>3. CASE HashResult(t)
  <2>1. CASE Ends(t)
    BY <1>3, <2>1, EndsType DEF HashResult, TypeOK, LookupIsHashed
  <2>2. CASE /\ task' = [task EXCEPT ![t].pc = "save",
                                     ![t].hash = HashOf(task[t].text, task[t].vars)]
             /\ UNCHANGED refs
    <3>1. HashOf(task[t].text, task[t].vars) \in Hash
      BY ResultType DEF TypeOK, Task
    <3>2. task' \in [Tasks -> Task]
      <4> DEFINE new == [task[t] EXCEPT !.pc = "save",
                                        !.hash = HashOf(task[t].text, task[t].vars)]
      <4>1. new \in Task
        BY <3>1 DEF TypeOK, Task
      <4>2. task' = [task EXCEPT ![t] = new]
        BY <2>2 DEF TypeOK
      <4>. QED  BY <4>1, <4>2 DEF TypeOK
    <3>. QED  BY <1>3, <2>2, <3>2 DEF HashResult, TypeOK, LookupIsHashed
  <2>. QED  BY <1>3, <2>1, <2>2 DEF HashResult
<1>4. CASE SaveBlockResult(t)
  <2>1. ResultOf(task[t].text, task[t].vars) \in Result
    BY ResultType DEF TypeOK, Task
  <2>2. cache' \in [Hash -> Response \cup {None}]
    BY <1>4, <2>1 DEF SaveBlockResult, TypeOK, Response
  <2>. QED  BY <1>4, <2>2, EndsType DEF SaveBlockResult, TypeOK, LookupIsHashed
<1>. QED  BY <1>1, <1>2, <1>3, <1>4 DEF Front

(* So does a command.                                                      *)
LEMMA BackType ==
  ASSUME TypeOK, LookupIsHashed, NEW t \in Tasks, Back(t)
  PROVE  TypeOK' /\ LookupIsHashed'
<1> USE DEF note, environment, refs, backend
<1>1. ASSUME NEW e \in Exec, Command(t, e)
      PROVE  TypeOK' /\ LookupIsHashed'
  BY <1>1 DEF Command, TypeOK, LookupIsHashed
<1>2. CASE Validate(t)
  <2>1. \A at \in {"running", "refused"} : [exec[t] EXCEPT !.at = at] \in Exec
    BY DEF TypeOK, Exec
  <2>. QED  BY <1>1, <1>2, <2>1 DEF Validate
<1>3. ASSUME NEW outcomes \in SUBSET {"complete", "error", "cancelled"}, Returns(t, outcomes)
      PROVE  TypeOK' /\ LookupIsHashed'
  <2>1. \A out \in outcomes : [exec[t] EXCEPT !.at = "ended", !.out = out] \in Exec
    BY DEF TypeOK, Exec
  <2>. QED  BY <1>1, <1>3, <2>1 DEF Returns
<1>4. CASE ExecutorReturns(t)
  BY <1>3, <1>4 DEF ExecutorReturns, QueryReturns, RequestReturns
<1>5. CASE Cancel(t)
  <2>1. exec' \in [Tasks -> Exec] /\ cancels' \subseteq Tasks
    BY <1>5 DEF Cancel, TypeOK, Exec
  <2>. QED  BY <1>5, <2>1 DEF Cancel, TypeOK, LookupIsHashed
<1>. QED  BY <1>2, <1>4, <1>5 DEF Back
-----------------------------------------------------------------------------
(* What a step does to a task.                                             *)

(* It stays at what it works on, in its place or in the next one; its hash *)
(* is made when it comes to its last place.                                *)
Advances(t) ==
  /\ task'[t].what = task[t].what /\ task'[t].text = task[t].text
  /\ task'[t].asked = task[t].asked
  /\ task[t].pc \notin {"free", "done"}
  /\ \/ task'[t].pc = task[t].pc /\ task'[t].vars = task[t].vars /\ task'[t].hash = task[t].hash
     \/ task'[t].pc \in {"await", "hash"}
     \/ /\ task'[t].pc = "save" /\ task'[t].vars = task[t].vars
        /\ task'[t].hash = HashOf(task[t].text, task[t].vars)

(* It starts, and if it is a run of a query that is asked about, the user  *)
(* was asked about its text.                                               *)
StartsAsAsked(t) ==
  /\ task'[t].pc = "collect"
  /\ task'[t].what = "run" =>
       \/ task'[t].asked = task'[t].text
       \/ task'[t].asked = None /\ ~ (kind = "db" /\ task'[t].text \in Dangerous)

TaskStep(t) ==
  \/ task'[t].pc \in {"free", "done"}
  \/ Advances(t)
  \/ StartsAsAsked(t)

(* A task that a step leaves alone is one of these.                        *)
LEMMA AloneStep ==
  ASSUME NEW t \in Tasks, task'[t] = task[t]
  PROVE  TaskStep(t)
BY DEF TaskStep, Advances

(* So are all of them when one starts.                                     *)
LEMMA StartStep ==
  ASSUME TypeOK, NEW t \in Tasks, NEW what \in {"run", "explain", "more"},
         NEW text \in Texts, NEW asked \in Texts \cup {None}, Start(t, what, text, asked),
         what = "run" => \/ asked = text
                         \/ asked = None /\ ~ (kind = "db" /\ text \in Dangerous)
  PROVE  \A u \in Tasks : TaskStep(u)
<1>1. StartsAsAsked(t)
  BY StartType DEF StartsAsAsked
<1>2. \A u \in Tasks \ {t} : TaskStep(u)
  BY StartType, AloneStep
<1>. QED  BY <1>1, <1>2 DEF TaskStep

(* And when one is started from the callbacks of the panel.                *)
LEMMA ExecuteRunStep ==
  ASSUME TypeOK, NEW c \in Closure, NEW asked \in Texts \cup {None}, ExecuteRun(c, asked),
         asked = c.text \/ (asked = None /\ ~ (kind = "db" /\ c.text \in Dangerous))
  PROVE  \A u \in Tasks : TaskStep(u)
<1>1. CASE UNCHANGED task
  BY <1>1, AloneStep
<1>2. CASE \E t \in Tasks : Start(t, "run", c.text, asked)
  <2>1. c.text \in Texts
    BY DEF Closure
  <2>. QED  BY <1>2, <2>1, StartStep
<1>. QED  BY <1>1, <1>2 DEF ExecuteRun

(* And when one ends.                                                      *)
LEMMA EndsStep ==
  ASSUME TypeOK, NEW t \in Tasks, Ends(t)
  PROVE  \A u \in Tasks : TaskStep(u)
BY EndsType, AloneStep DEF TaskStep

(* And when one goes on.                                                   *)
LEMMA GoesOnStep ==
  ASSUME TypeOK, NEW t \in Tasks, NEW new \in Task, task' = [task EXCEPT ![t] = new],
         new.what = task[t].what, new.text = task[t].text, new.asked = task[t].asked,
         task[t].pc \notin {"free", "done"},
         \/ new.pc \in {"await", "hash"}
         \/ /\ new.pc = "save" /\ new.vars = task[t].vars
            /\ new.hash = HashOf(task[t].text, task[t].vars)
  PROVE  \A u \in Tasks : TaskStep(u)
<1>1. task'[t] = new /\ \A u \in Tasks \ {t} : task'[u] = task[u]
  BY DEF TypeOK
<1>. QED  BY <1>1, AloneStep DEF TaskStep, Advances

(* Every action does one of these to every task.                           *)
LEMMA TaskSteps ==
  ASSUME TypeOK, [Next]_vars
  PROVE  \A u \in Tasks : TaskStep(u)
<1>1. ASSUME UNCHANGED task
      PROVE  \A u \in Tasks : TaskStep(u)
  BY <1>1, AloneStep
<1>2. ASSUME NEW t \in Tasks, Fails(t) \/ StopsAsCancelled(t)
      PROVE  \A u \in Tasks : TaskStep(u)
  BY <1>2, EndsStep DEF Fails, StopsAsCancelled
<1>3. ASSUME NEW u \in Tasks,
             /\ task'[u].what = task[u].what /\ task'[u].text = task[u].text
             /\ task'[u].asked = task[u].asked /\ task'[u].pc = task[u].pc
             /\ task'[u].vars = task[u].vars /\ task'[u].hash = task[u].hash
      PROVE  TaskStep(u)
  BY <1>3 DEF TaskStep, Advances
<1>4. CASE Unmount
  <2>1. ASSUME NEW u \in Tasks, NEW b \in BOOLEAN,
               task'[u] = [task[u] EXCEPT !.mine = FALSE, !.aborted = b]
        PROVE  TaskStep(u)
    <3>1. task[u] \in Task
      BY DEF TypeOK
    <3>. QED  BY <1>3, <2>1, <3>1 DEF Task
  <2>2. ASSUME NEW u \in Tasks
        PROVE  TaskStep(u)
    <3> DEFINE b == task[u].aborted \/ (kind = "http" /\ abort # None /\ u = abort)
    <3>1. task'[u] = [task[u] EXCEPT !.mine = FALSE, !.aborted = b]
      BY <1>4 DEF Unmount
    <3>2. b \in BOOLEAN
      OBVIOUS
    <3> HIDE DEF b
    <3>. QED  BY <2>1, <3>1, <3>2
  <2>. QED  BY <2>2
<1>5. CASE RunBlock
  <2> DEFINE callbacks == [text |-> seen, state |-> panel.state]
  <2>1. callbacks \in Closure
    BY DEF TypeOK, Closure, Panel
  <2>2. CASE UNCHANGED task
    BY <1>1, <2>2
  <2>3. CASE ~ (kind = "db" /\ seen \in Dangerous) /\ ExecuteRun(callbacks, None)
    <3>1. callbacks.text = seen
      OBVIOUS
    <3> HIDE DEF callbacks
    <3>. QED  BY <2>1, <2>3, <3>1, ExecuteRunStep
  <2>. QED  BY <1>5, <2>2, <2>3 DEF RunBlock
<1>6. CASE ContinueRun
  <2>1. confirm \in Closure /\ confirm.text \in Texts /\ ExecuteRun(confirm, confirm.text)
    BY <1>6 DEF ContinueRun, TypeOK, Closure
  <2>. QED  BY <2>1, ExecuteRunStep
<1>7. CASE RunExplain \/ LoadMore
  <2>1. seen \in Texts
    BY DEF TypeOK
  <2>2. PICK t \in Tasks : Start(t, "explain", seen, None) \/ Start(t, "more", seen, None)
    BY <1>7 DEF RunExplain, LoadMore
  <2>. QED  BY <2>1, <2>2, StartStep
<1>8. CASE CancelBlock
  <2>1. abort \in Tasks /\ task' = [task EXCEPT ![abort].aborted = TRUE]
    BY <1>8 DEF CancelBlock, Aborted, TypeOK
  <2>2. ASSUME NEW u \in Tasks
        PROVE  TaskStep(u)
    BY <1>3, <2>1 DEF TypeOK, Task
  <2>. QED  BY <2>2
<1>9. CASE \/ Edit \/ Mount \/ DismissRun \/ SwitchEnvironment \/ RefreshEnvironment \/ Page
  BY <1>1, <1>9
     DEF Edit, Mount, DismissRun, SwitchEnvironment, RefreshEnvironment, Page, BodyNotify,
         HydrateHash, HydrateRow, HydrateApply
<1>10. ASSUME NEW t \in Tasks, Collect(t)
       PROVE  \A u \in Tasks : TaskStep(u)
  <2>1. CASE task' = [task EXCEPT ![t].pc = "await", ![t].vars = store]
    <3> DEFINE new == [task[t] EXCEPT !.pc = "await", !.vars = store]
    <3>1. new \in Task
      BY DEF TypeOK, Task
    <3>2. task' = [task EXCEPT ![t] = new]
      BY <2>1 DEF TypeOK
    <3>3. /\ new.what = task[t].what /\ new.text = task[t].text /\ new.asked = task[t].asked
          /\ new.pc = "await" /\ task[t].pc \notin {"free", "done"}
      BY <1>10 DEF Collect, TypeOK, Task
    <3> HIDE DEF new
    <3>. QED  BY <3>1, <3>2, <3>3, GoesOnStep
  <2>. QED  BY <1>2, <1>10, <2>1 DEF Collect
<1>11. ASSUME NEW t \in Tasks, Settle(t)
       PROVE  \A u \in Tasks : TaskStep(u)
  <2>1. CASE task' = [task EXCEPT ![t].pc = "hash"]
    <3> DEFINE new == [task[t] EXCEPT !.pc = "hash"]
    <3>1. new \in Task
      BY DEF TypeOK, Task
    <3>2. task' = [task EXCEPT ![t] = new]
      BY <2>1 DEF TypeOK
    <3>3. /\ new.what = task[t].what /\ new.text = task[t].text /\ new.asked = task[t].asked
          /\ new.pc = "hash" /\ task[t].pc \notin {"free", "done"}
      BY <1>11 DEF Settle, TypeOK, Task
    <3> HIDE DEF new
    <3>. QED  BY <3>1, <3>2, <3>3, GoesOnStep
  <2>2. CASE Ends(t)
    BY <2>2, EndsStep
  <2>. QED  BY <1>2, <1>11, <2>1, <2>2 DEF Settle, Completes
<1>12. ASSUME NEW t \in Tasks, HashResult(t)
       PROVE  \A u \in Tasks : TaskStep(u)
  <2>1. CASE task' = [task EXCEPT ![t].pc = "save",
                                  ![t].hash = HashOf(task[t].text, task[t].vars)]
    <3> DEFINE h == HashOf(task[t].text, task[t].vars)
               new == [task[t] EXCEPT !.pc = "save", !.hash = h]
    <3>1. h \in Hash
      BY ResultType DEF TypeOK, Task
    <3>2. task' = [task EXCEPT ![t] = new]
      BY <2>1 DEF TypeOK
    <3> HIDE DEF h
    <3>3. new \in Task
      BY <3>1 DEF TypeOK, Task
    <3>4. /\ new.what = task[t].what /\ new.text = task[t].text /\ new.asked = task[t].asked
          /\ new.vars = task[t].vars /\ new.hash = h
          /\ new.pc = "save" /\ task[t].pc \notin {"free", "done"}
      BY <1>12 DEF HashResult, TypeOK, Task
    <3> HIDE DEF new
    <3>. QED  BY <3>2, <3>3, <3>4, GoesOnStep DEF h
  <2>. QED  BY <1>12, <2>1, EndsStep DEF HashResult
<1>13. ASSUME NEW t \in Tasks, SaveBlockResult(t)
       PROVE  \A u \in Tasks : TaskStep(u)
  BY <1>13, EndsStep DEF SaveBlockResult
<1>14. ASSUME NEW t \in Tasks, Back(t)
       PROVE  \A u \in Tasks : TaskStep(u)
  BY <1>1, <1>14
     DEF Back, Validate, ExecutorReturns, QueryReturns, RequestReturns, Returns, Command, Cancel
<1>15. CASE UNCHANGED vars
  BY <1>1, <1>15 DEF vars
<1>. QED  BY <1>4, <1>5, <1>6, <1>7, <1>8, <1>9, <1>10, <1>11, <1>12, <1>13, <1>14, <1>15
          DEF Next, User, Front

-----------------------------------------------------------------------------
(* The theorems.                                                           *)

(* The invariant is preserved.                                             *)
LEMMA NextInv == IInv /\ [Next]_vars => IInv'
<1> SUFFICES ASSUME IInv, [Next]_vars
             PROVE  IInv'
  OBVIOUS
<1> USE DEF IInv
<1>1. TypeOK' /\ LookupIsHashed'
  <2>1. CASE UNCHANGED vars
    BY <2>1 DEF vars, TypeOK, LookupIsHashed
  <2>. QED  BY <2>1, UserType, PageType, FrontType, BackType DEF Next
<1>2. ASSUME NEW t \in Tasks, task'[t].pc = "save"
      PROVE  task'[t].hash = HashOf(task'[t].text, task'[t].vars)
  <2>1. Advances(t)
    BY <1>2, TaskSteps DEF TaskStep, StartsAsAsked
  <2>. QED  BY <1>2, <2>1 DEF Advances, HashIsOfTask
<1>. QED  BY <1>1, <1>2 DEF HashIsOfTask

(* It holds in every reachable state.                                      *)
LEMMA Invariance == Spec => []IInv
<1>1. Init => IInv
  <2> SUFFICES ASSUME Init
               PROVE  IInv
    OBVIOUS
  <2>1. \A t \in Tasks : task[t].pc = "free"
    BY DEF Init, NoTask
  <2>. QED  BY <2>1, InitType DEF IInv, HashIsOfTask
<1>. QED  BY <1>1, NextInv, PTL DEF Spec

(* The panel, its tasks and the commands are well typed: in particular the *)
(* row that a lookup shows is looked for under a hash.                     *)
THEOREM TypeCorrect == Spec => []TypeOK
<1>1. IInv => TypeOK
  BY DEF IInv
<1>. QED  BY <1>1, Invariance, PTL

(* A stored row holds the result of the very text of its hash and, unless  *)
(* the hash misses variables of that text, of the very variables of its    *)
(* hash, whatever is edited or switched between a run and the end of its   *)
(* storing (save_block_result).                                            *)
THEOREM CacheHonestHolds == Spec => []CacheHonest
<1>1. Init => CacheHonest
  BY DEF Init, CacheHonest
<1>2. IInv /\ CacheHonest /\ [Next]_vars => CacheHonest'
  <2> SUFFICES ASSUME IInv, CacheHonest, [Next]_vars
               PROVE  CacheHonest'
    OBVIOUS
  <2>1. CASE UNCHANGED cache
    BY <2>1 DEF CacheHonest
  <2>2. ASSUME NEW t \in Tasks, SaveBlockResult(t)
        PROVE  CacheHonest'
    <3> DEFINE h == HashOf(task[t].text, task[t].vars)
               r == ResultOf(task[t].text, task[t].vars)
    <3>1. /\ h \in Hash /\ r \in Result /\ r.text = h.text
          /\ h.text \notin UsesEnv \ Keyed => r.vars = h.vars
      BY ResultType DEF IInv, TypeOK, Task
    <3>2. cache' \in {cache, [cache EXCEPT ![h] = {r}]}
      BY <2>2, <3>1 DEF SaveBlockResult, IInv, HashIsOfTask
    <3>3. cache \in [Hash -> Response \cup {None}]
      BY DEF IInv, TypeOK
    <3> HIDE DEF h, r
    <3>4. \A g \in Hash : g # h \/ cache' = cache => cache'[g] = cache[g]
      BY <3>2, <3>3
    <3>5. cache' = cache \/ cache'[h] = {r}
      BY <3>1, <3>2, <3>3
    <3>. QED  BY <3>1, <3>4, <3>5 DEF CacheHonest
  <2>3. CASE User \/ Page
    BY <2>1, <2>3
       DEF User, Edit, Mount, Unmount, RunBlock, ContinueRun, DismissRun, RunExplain, LoadMore,
           CancelBlock, SwitchEnvironment, RefreshEnvironment, Page, BodyNotify, HydrateHash,
           HydrateRow, HydrateApply
  <2>4. ASSUME NEW t \in Tasks, Collect(t) \/ Settle(t) \/ HashResult(t) \/ Back(t)
        PROVE  CacheHonest'
    BY <2>1, <2>4
       DEF Collect, Settle, HashResult, Back, Validate, ExecutorReturns, QueryReturns,
           RequestReturns, Returns, Command, Cancel
  <2>. QED  BY <2>1, <2>2, <2>3, <2>4 DEF Next, Front, vars
<1>. QED  BY <1>1, <1>2, Invariance, PTL DEF Spec

(* A query that the panel asks about (isUnscopedMutation) is run only when *)
(* the user was asked about that very text, and an answer runs nothing     *)
(* else, whatever becomes of the block while the question is up.           *)
THEOREM ConfirmedTextRunsHolds == Spec => []ConfirmedTextRuns
<1>1. Init => ConfirmedTextRuns
  <2> SUFFICES ASSUME Init
               PROVE  ConfirmedTextRuns
    OBVIOUS
  <2>1. \A t \in Tasks : task[t].pc = "free"
    BY DEF Init, NoTask
  <2>. QED  BY <2>1 DEF ConfirmedTextRuns
<1>2. TypeOK /\ TypeOK' /\ ConfirmedTextRuns /\ [Next]_vars => ConfirmedTextRuns'
  <2> SUFFICES ASSUME TypeOK, TypeOK', ConfirmedTextRuns, [Next]_vars,
                      NEW t \in Tasks, task'[t].pc \notin {"free", "done"},
                      task'[t].what = "run", kind' = "db"
               PROVE  /\ task'[t].text \in Dangerous => task'[t].asked # None
                      /\ task'[t].asked # None => task'[t].asked = task'[t].text
    BY DEF ConfirmedTextRuns
  <2>1. kind = "db"
    <3>1. UNCHANGED kind
      BY DEF Next, vars, note, User, Edit, Mount, Unmount, RunBlock, ContinueRun, DismissRun,
             RunExplain, LoadMore, CancelBlock, SwitchEnvironment, RefreshEnvironment, Page,
             BodyNotify, HydrateHash, HydrateRow, HydrateApply, Front, Collect, Settle,
             HashResult, SaveBlockResult, Back, Validate, ExecutorReturns, QueryReturns,
             RequestReturns, Returns, Command, Cancel
    <3>. QED  BY <3>1
  <2>2. task'[t].text \in Texts /\ None \notin Texts
    BY PanelAssumption DEF TypeOK, Task
  <2>3. Advances(t) \/ StartsAsAsked(t)
    BY TaskSteps DEF TaskStep
  <2>4. CASE Advances(t)
    BY <2>1, <2>4 DEF Advances, ConfirmedTextRuns
  <2>5. CASE StartsAsAsked(t)
    BY <2>1, <2>2, <2>5 DEF StartsAsAsked
  <2>. QED  BY <2>3, <2>4, <2>5
<1>. QED  BY <1>1, <1>2, TypeCorrect, PTL DEF Spec
=============================================================================
