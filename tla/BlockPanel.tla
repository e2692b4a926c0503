----------------------------- MODULE BlockPanel -----------------------------
(***************************************************************************)
(* Running a block of a note in the desktop application: the React panel   *)
(* of a db or http block (DbFencedPanel.tsx, HttpFencedPanel.tsx), the     *)
(* calls it makes (streamedExecution.ts, hash.ts), and the commands that   *)
(* answer them (executions.rs with its registry of tokens, the executors,  *)
(* block_results.rs).                                                      *)
(*                                                                         *)
(* One panel is modelled, of either kind.  A text stands for the block:    *)
(* its body with its connection.  The text that the callbacks of the panel *)
(* read is the one it was told last, which may be older than the text in   *)
(* the editor; their state is taken to be that of the panel, which it is   *)
(* after one more turn of the event loop.                                  *)
(***************************************************************************)
EXTENDS Naturals, FiniteSets

CONSTANTS Texts,      \* what the block may say
          Dangerous,  \* queries that the panel asks about before it runs them
          Volatile,   \* requests whose method is not GET: never cached
          UsesEnv,    \* texts that refer to a variable of the environment
          Keyed,      \* those of them whose variables the hash finds
          Envs,       \* the environments
          FirstEnv,   \* the one that is active at the start
          None,
          MaxTasks,   \* bound: runs, EXPLAINs and further pages started
          MaxChanges  \* bound: edits, switches of the environment, unmounts

Tasks == 1..MaxTasks

(* A result is known by the text that was run and the variables it was     *)
(* run with, if it refers to any.                                          *)
Vars(text, env) == IF text \in UsesEnv THEN env ELSE None

Result == [text : Texts, vars : Envs \cup {None}]

ResultOf(text, env) == [text |-> text, vars |-> Vars(text, env)]

(* A response is the set of results whose rows it shows; it is empty when  *)
(* there is only the plan of an EXPLAIN.                                   *)
Response == SUBSET Result

(* The row of a result in the cache: the front end hashes the text with    *)
(* the variables it finds in it.  It looks for {{KEY}} to the letter, and  *)
(* in what it has encoded already of the parameters of a request: it does  *)
(* not find {{ KEY }}, nor a variable of such a parameter, which are       *)
(* resolved all the same when the block is run.  The environment that the  *)
(* command adds is the one of the SQLite table, which no command of the    *)
(* desktop changes: it is the same in every hash.                          *)
Hash == [text : Texts, vars : Envs \cup {None}]

HashOf(text, vars) == [text |-> text, vars |-> IF text \in Keyed THEN vars ELSE None]

States == {"idle", "running", "success", "error", "cancelled"}

ASSUME PanelAssumption ==
  /\ Dangerous \subseteq Texts /\ Volatile \subseteq Texts /\ UsesEnv \subseteq Texts
  /\ Keyed \subseteq UsesEnv
  /\ FirstEnv \in Envs /\ None \notin Texts \cup Envs \cup Tasks
  /\ MaxTasks \in Nat /\ MaxChanges \in Nat

VARIABLES
  kind,     \* "db" or "http"
  doc,      \* the text of the block in the editor
  store,    \* the environment that is active to the front end
  server,   \* and to the commands
  mounted,  \* whether the panel is there
  panel,    \* its state: executionState and response
  seen,     \* the text it was told
  confirm,  \* text and state that the callbacks of the question read, or None
  abort,    \* abortRef: a task, or None
  loading,  \* loadingMoreRef
  hydrate,  \* the lookup of a stored result under way, or None
  task,     \* what the panel has started
  exec,     \* the command that executes it
  cancels,  \* calls of cancel_block under way
  cache,    \* block_results: a response, or None
  changes   \* number of changes so far

vars == <<kind, doc, store, server, mounted, panel, seen, confirm, abort, loading,
          hydrate, task, exec, cancels, cache, changes>>

note == <<kind, doc>>
environment == <<store, server, changes>>
refs == <<abort, loading>>
backend == <<exec, cancels>>

Panel == [state : States, resp : Response \cup {None}]

Closure == [text : Texts, state : States]

(* A lookup reads the variables at once and then awaits the hash, the row  *)
(* and the end of that call.                                               *)
Lookup == [pc : {"hash", "row", "apply"}, text : Texts, vars : Envs,
           hash : Hash \cup {None}, row : Response \cup {None}]

(* A task with its text, the variables it was resolved with, the panel it  *)
(* belongs to (the one that is there, or one that has gone), whether its   *)
(* signal was aborted, and the text that the user was asked about.         *)
Task == [what : {"run", "explain", "more"},
         pc : {"free", "collect", "await", "hash", "save", "done"},
         text : Texts, vars : Envs \cup {None}, mine : BOOLEAN, aborted : BOOLEAN,
         asked : Texts \cup {None}, hash : Hash \cup {None}]

(* A command awaits validation, is registered while it runs, and has       *)
(* answered.  token: it is cancelled.                                      *)
Exec == [at : {"idle", "validate", "running", "ended", "refused"},
         token : BOOLEAN, out : {None, "complete", "error", "cancelled"}]

TypeOK ==
  /\ kind \in {"db", "http"} /\ doc \in Texts /\ store \in Envs /\ server \in Envs
  /\ mounted \in BOOLEAN /\ panel \in Panel /\ seen \in Texts
  /\ confirm \in Closure \cup {None}
  /\ abort \in Tasks \cup {None} /\ loading \in BOOLEAN
  /\ hydrate \in Lookup \cup {None}
  /\ task \in [Tasks -> Task] /\ exec \in [Tasks -> Exec]
  /\ cancels \subseteq Tasks
  /\ cache \in [Hash -> Response \cup {None}]
  /\ changes \in 0..MaxChanges

(* A task that has ended is of no more interest.                           *)
NoTask(pc) ==
  [what |-> "run", pc |-> pc, text |-> CHOOSE text \in Texts : TRUE, vars |-> None,
   mine |-> FALSE, aborted |-> FALSE, asked |-> None, hash |-> None]

NoExec == [at |-> "idle", token |-> FALSE, out |-> None]

IdlePanel == [state |-> "idle", resp |-> None]

Init ==
  /\ kind \in {"db", "http"} /\ doc \in Texts
  /\ store = FirstEnv /\ server = FirstEnv
  /\ mounted = FALSE /\ panel = IdlePanel
  /\ seen = doc /\ confirm = None /\ abort = None /\ loading = FALSE /\ hydrate = None
  /\ task = [t \in Tasks |-> NoTask("free")] /\ exec = [t \in Tasks |-> NoExec]
  /\ cancels = {}
  /\ cache = [h \in Hash |-> None] /\ changes = 0

-----------------------------------------------------------------------------
(* The panel.                                                              *)

Change == changes < MaxChanges /\ changes' = changes + 1

(* A new text starts a lookup of a stored result and drops the one under   *)
(* way; requests that are not GET have none.                               *)
LookUp(text) ==
  hydrate' = IF kind = "http" /\ text \in Volatile THEN None
             ELSE [pc |-> "hash", text |-> text, vars |-> store, hash |-> None, row |-> None]

(* The panel is told of the text: at once in the case of http, after 250   *)
(* ms without another change in the case of db.                            *)
Told(text) ==
  /\ seen' = text
  /\ IF text = seen THEN UNCHANGED hydrate ELSE LookUp(text)

Edit ==
  /\ Change
  /\ \E text \in Texts \ {doc} :
       /\ doc' = text
       /\ IF kind = "http" /\ mounted THEN Told(text) ELSE UNCHANGED <<seen, hydrate>>
  /\ UNCHANGED <<kind, store, server, mounted, panel, confirm, refs, task, backend, cache>>

BodyNotify ==
  /\ kind = "db" /\ mounted /\ seen # doc
  /\ Told(doc)
  /\ UNCHANGED <<note, environment, mounted, panel, confirm, refs, task, backend, cache>>

Mount ==
  /\ ~mounted /\ mounted' = TRUE
  /\ seen' = doc /\ LookUp(doc)
  /\ UNCHANGED <<note, environment, panel, confirm, refs, task, backend, cache>>

(* What abort() does to a task: its listener calls cancel_block while the  *)
(* command is awaited.                                                     *)
Aborted(t) ==
  /\ task' = [task EXCEPT ![t].aborted = TRUE]
  /\ cancels' = IF task[t].pc = "await" THEN cancels \cup {t} ELSE cancels

(* The state of the panel goes with it; what it started goes on.  Only the *)
(* panel of a request aborts.                                              *)
Unmount ==
  /\ Change /\ mounted /\ mounted' = FALSE
  /\ panel' = IdlePanel /\ confirm' = None /\ abort' = None /\ loading' = FALSE
  /\ hydrate' = None /\ seen' = doc
  /\ LET stopped == kind = "http" /\ abort # None
     IN /\ task' = [t \in Tasks |->
                      [task[t] EXCEPT !.mine = FALSE,
                                      !.aborted = @ \/ (stopped /\ t = abort)]]
        /\ cancels' = IF stopped /\ task[abort].pc = "await" THEN cancels \cup {abort}
                      ELSE cancels
  /\ UNCHANGED <<note, store, server, exec, cache>>

(* The next task, for the text that the callbacks read.                    *)
Start(t, what, text, asked) ==
  /\ task[t].pc = "free" /\ \A u \in 1..(t - 1) : task[u].pc # "free"
  /\ task' = [task EXCEPT ![t] =
                [what |-> what, pc |-> "collect", text |-> text, vars |-> None,
                 mine |-> TRUE, aborted |-> FALSE, asked |-> asked, hash |-> None]]

(* executeRun and runBlock: nothing while the state that was seen is       *)
(* running; an error if no connection or URL is known.                     *)
ExecuteRun(c, asked) ==
  \/ c.state = "running" /\ UNCHANGED <<panel, abort, task>>
  \/ /\ c.state # "running" /\ panel' = [panel EXCEPT !.state = "error"]
     /\ UNCHANGED <<abort, task>>
  \/ /\ c.state # "running" /\ panel' = [panel EXCEPT !.state = "running"]
     /\ \E t \in Tasks : Start(t, "run", c.text, asked) /\ abort' = t

RunBlock ==
  LET callbacks == [text |-> seen, state |-> panel.state]
  IN /\ mounted
     /\ IF kind = "db" /\ seen \in Dangerous
          THEN confirm' = callbacks /\ UNCHANGED <<panel, abort, task>>
          ELSE ExecuteRun(callbacks, None) /\ UNCHANGED confirm
     /\ UNCHANGED <<note, environment, mounted, seen, loading, hydrate, backend, cache>>

(* Mutant: the answer runs the text that the panel has by then.    *)
ContinueRunLatest ==
  /\ confirm # None /\ confirm' = None
  /\ ExecuteRun([text |-> seen, state |-> panel.state], confirm.text)
  /\ UNCHANGED <<note, environment, mounted, seen, loading, hydrate, backend, cache>>

(* The question is answered; the run is that of the callbacks that asked.  *)
ContinueRun ==
  /\ confirm # None /\ confirm' = None
  /\ ExecuteRun(confirm, confirm.text)
  /\ UNCHANGED <<note, environment, mounted, seen, loading, hydrate, backend, cache>>

DismissRun ==
  /\ confirm # None /\ confirm' = None
  /\ UNCHANGED <<note, environment, mounted, panel, seen, refs, hydrate, task,
                 backend, cache>>

(* EXPLAIN of the first statement, which the driver does not execute.      *)
RunExplain ==
  /\ mounted /\ kind = "db" /\ panel.state # "running"
  /\ panel' = [panel EXCEPT !.state = "running"]
  /\ \E t \in Tasks : Start(t, "explain", seen, None) /\ abort' = t
  /\ UNCHANGED <<note, environment, mounted, seen, confirm, loading, hydrate, backend,
                 cache>>

(* The next page of the rows that are shown, when they are scrolled near   *)
(* their end; the query is the one the panel has now.                      *)
LoadMore ==
  /\ mounted /\ kind = "db" /\ ~loading /\ panel.resp \notin {None, {}}
  /\ loading' = TRUE
  /\ \E t \in Tasks : Start(t, "more", seen, None)
  /\ UNCHANGED <<note, environment, mounted, panel, seen, confirm, abort, hydrate,
                 backend, cache>>

(* Mutant: the reference is not looked at first.                   *)
CancelBlockUnguarded ==
  /\ mounted /\ abort' = None /\ cancels' = cancels \cup {abort}
  /\ UNCHANGED <<note, environment, mounted, panel, seen, confirm, loading, hydrate,
                 task, exec, cache>>

(* The call of cancel_block for the id of the block itself, which no       *)
(* execution has, does nothing.                                            *)
CancelBlock ==
  /\ mounted /\ abort # None /\ abort' = None
  /\ Aborted(abort)
  /\ UNCHANGED <<note, environment, mounted, panel, seen, confirm, loading, hydrate,
                 exec, cache>>

-----------------------------------------------------------------------------
(* The end of a task: a further page gives back the guard, the others      *)
(* empty abortRef whoever is in it, all of them that of their own panel.   *)
Release(t) ==
  IF ~task[t].mine THEN UNCHANGED refs
  ELSE IF task[t].what = "more" THEN loading' = FALSE /\ UNCHANGED abort
  ELSE abort' = None /\ UNCHANGED loading

Ends(t) == task' = [task EXCEPT ![t] = NoTask("done")] /\ Release(t)

Shows(t, p) == panel' = IF task[t].mine THEN p ELSE panel

Fails(t) ==
  /\ IF task[t].what = "more" THEN UNCHANGED panel
     ELSE Shows(t, [panel EXCEPT !.state = "error"])
  /\ Ends(t)

(* Mutant: the answer to a cancel is not shown.                    *)
StopsSilently(t) == UNCHANGED panel /\ Ends(t)

StopsAsCancelled(t) ==
  /\ IF task[t].what = "more" THEN UNCHANGED panel
     ELSE Shows(t, [panel EXCEPT !.state = "cancelled"])
  /\ Ends(t)

(* The references have been resolved, or not all of them; the command is   *)
(* called unless the signal was aborted in the meantime.                   *)
Collect(t) ==
  /\ task[t].pc = "collect"
  /\ \/ Fails(t) /\ UNCHANGED exec
     \/ task[t].aborted /\ StopsAsCancelled(t) /\ UNCHANGED exec
     \/ /\ ~task[t].aborted
        /\ task' = [task EXCEPT ![t].pc = "await", ![t].vars = store]
        /\ exec' = [exec EXCEPT ![t].at = "validate"]
        /\ UNCHANGED <<panel, refs>>
  /\ UNCHANGED <<note, environment, mounted, seen, confirm, hydrate, cancels, cache>>

(* The rows of a response with those of another page.                      *)
WithPage(resp, page) == IF resp = None THEN {page} ELSE resp \cup {page}

(* What comes of a task whose command has completed.                       *)
Completes(t) ==
  LET result == ResultOf(task[t].text, task[t].vars)
  IN \/ /\ task[t].what = "run"
        /\ Shows(t, [state |-> "success", resp |-> {result}])
        /\ IF kind = "http" /\ task[t].text \in Volatile THEN Ends(t)
           ELSE task' = [task EXCEPT ![t].pc = "hash"] /\ UNCHANGED refs
     \/ /\ task[t].what = "explain"
        /\ Shows(t, [state |-> "success", resp |-> IF panel.resp = None THEN {} ELSE panel.resp])
        /\ Ends(t)
     \/ task[t].what = "explain" /\ Fails(t)     \* no plan in the answer
     \/ /\ task[t].what = "more"
        /\ \/ Shows(t, [panel EXCEPT !.resp = WithPage(@, result)])
           \/ UNCHANGED panel                    \* no rows in the answer
        /\ Ends(t)

(* Both the reply of the command and its last chunk have arrived.          *)
Settle(t) ==
  /\ task[t].pc = "await" /\ exec[t].at \in {"ended", "refused"}
  /\ \/ exec[t].at = "refused" /\ Fails(t)
     \/ exec[t].out = "error" /\ Fails(t)
     \/ exec[t].out = "cancelled" /\ StopsAsCancelled(t)
     \/ exec[t].out = "complete" /\ Completes(t)
  /\ exec' = [exec EXCEPT ![t] = NoExec]
  /\ UNCHANGED <<note, environment, mounted, seen, confirm, hydrate, cancels, cache>>

(* Mutant: the variables are read again when the result is stored. *)
HashResultFresh(t) ==
  /\ task[t].pc = "hash"
  /\ task' = [task EXCEPT ![t].pc = "save", ![t].hash = HashOf(task[t].text, store)]
  /\ UNCHANGED <<note, environment, mounted, panel, seen, confirm, refs, hydrate, backend,
                 cache>>

(* A result is stored in two calls, either of which may fail; the task     *)
(* ends with the reply of the second, here in one step with its write.     *)
HashResult(t) ==
  /\ task[t].pc = "hash"
  /\ \/ /\ task' = [task EXCEPT ![t].pc = "save",
                                ![t].hash = HashOf(task[t].text, task[t].vars)]
        /\ UNCHANGED refs
     \/ Ends(t)
  /\ UNCHANGED <<note, environment, mounted, panel, seen, confirm, hydrate, backend,
                 cache>>

SaveBlockResult(t) ==
  /\ task[t].pc = "save" /\ Ends(t)
  /\ \/ cache' = [cache EXCEPT ![task[t].hash] = {ResultOf(task[t].text, task[t].vars)}]
     \/ UNCHANGED cache
  /\ UNCHANGED <<note, environment, mounted, panel, seen, confirm, hydrate, backend>>

-----------------------------------------------------------------------------
(* The lookup of a stored result.  Only results of success are stored.     *)
HydrateHash ==
  /\ hydrate # None /\ hydrate.pc = "hash"
  /\ hydrate' = [hydrate EXCEPT !.pc = "row", !.vars = FirstEnv,  \* of no more use
                                !.hash = HashOf(hydrate.text, hydrate.vars)]
  /\ UNCHANGED <<note, environment, mounted, panel, seen, confirm, refs, task, backend,
                 cache>>

HydrateRow ==
  /\ hydrate # None /\ hydrate.pc = "row"
  /\ hydrate' = IF cache[hydrate.hash] = None THEN None
                ELSE [hydrate EXCEPT !.pc = "apply", !.row = cache[hydrate.hash]]
  /\ UNCHANGED <<note, environment, mounted, panel, seen, confirm, refs, task, backend,
                 cache>>

HydrateApply ==
  /\ hydrate # None /\ hydrate.pc = "apply" /\ hydrate' = None
  /\ panel' = [state |-> "success", resp |-> hydrate.row]
  /\ UNCHANGED <<note, environment, mounted, seen, confirm, refs, task, backend, cache>>

(* The environment is switched by a command and read again.                *)
SwitchEnvironment ==
  /\ Change /\ \E e \in Envs \ {server} : server' = e
  /\ UNCHANGED <<note, store, mounted, panel, seen, confirm, refs, hydrate, task,
                 backend, cache>>

RefreshEnvironment ==
  /\ store # server /\ store' = server
  /\ UNCHANGED <<note, server, changes, mounted, panel, seen, confirm, refs, hydrate, task,
                 backend, cache>>

-----------------------------------------------------------------------------
(* The commands.                                                           *)

Command(t, e) ==
  /\ exec' = [exec EXCEPT ![t] = e]
  /\ UNCHANGED <<note, environment, mounted, panel, seen, confirm, refs, hydrate, task,
                 cancels, cache>>

(* Validated, and the token is registered; or refused.                     *)
Validate(t) ==
  /\ exec[t].at = "validate"
  /\ \E at \in {"running", "refused"} : Command(t, [exec[t] EXCEPT !.at = at])

(* The executor returns, the token is unregistered, the last chunk and the *)
(* reply are sent.  A cancelled token is seen before anything else while   *)
(* the executor waits; a query is logged after that, and a cancel during   *)
(* the log has no effect.                                                  *)
Returns(t, outcomes) ==
  /\ exec[t].at = "running"
  /\ \E out \in outcomes : Command(t, [exec[t] EXCEPT !.at = "ended", !.out = out])

QueryReturns(t) ==
  /\ kind = "db"
  /\ Returns(t, {"complete", "error"} \cup IF exec[t].token THEN {"cancelled"} ELSE {})

(* Reading the files of the body, sending, and receiving are all left when *)
(* the token is cancelled.                                                 *)
RequestReturns(t) ==
  /\ kind = "http"
  /\ Returns(t, IF exec[t].token THEN {"cancelled", "error"} ELSE {"complete", "error"})

ExecutorReturns(t) == QueryReturns(t) \/ RequestReturns(t)

(* cancel_block does nothing for an id that is not registered.             *)
Cancel(t) ==
  /\ t \in cancels /\ cancels' = cancels \ {t}
  /\ exec' = [exec EXCEPT ![t].token = @ \/ exec[t].at = "running"]
  /\ UNCHANGED <<note, environment, mounted, panel, seen, confirm, refs, hydrate, task,
                 cache>>

User ==
  \/ Edit \/ Mount \/ Unmount \/ RunBlock \/ ContinueRun \/ DismissRun \/ RunExplain
  \/ LoadMore \/ CancelBlock \/ SwitchEnvironment \/ RefreshEnvironment

Page == BodyNotify \/ HydrateHash \/ HydrateRow \/ HydrateApply

Front(t) == Collect(t) \/ Settle(t) \/ HashResult(t) \/ SaveBlockResult(t)

Back(t) == Validate(t) \/ ExecutorReturns(t) \/ Cancel(t)

Next == User \/ Page \/ \E t \in Tasks : Front(t) \/ Back(t)

(* Every query and every request has a limit of time, 30 seconds if none   *)
(* is given, and the calls that the panel awaits are answered.             *)
Fairness ==
  \A t \in Tasks : /\ WF_vars(Front(t)) /\ WF_vars(Validate(t))
                   /\ WF_vars(ExecutorReturns(t))

Spec == Init /\ [][Next]_vars /\ Fairness

-----------------------------------------------------------------------------
(* A stored row holds the result of the very text of its hash and, unless  *)
(* the hash misses variables of that text, of the very variables of its    *)
(* hash: the environment may be switched, and the text changed, at any     *)
(* moment between the start of a run and the end of its storing.           *)
CacheHonest ==
  \A h \in Hash :
    cache[h] # None =>
      \E r \in Result :
        /\ cache[h] = {r} /\ r.text = h.text
        /\ h.text \notin UsesEnv \ Keyed => r.vars = h.vars

(* A lookup finds nothing but results of the environment that it is made   *)
(* in.  This fails: the rows of a text whose variables the hash does not   *)
(* find are shared by all environments.                                    *)
LookupOfEnvironment ==
  (hydrate # None /\ hydrate.pc = "hash") =>
    LET row == cache[HashOf(hydrate.text, hydrate.vars)]
    IN row # None => \A r \in row : r.vars = Vars(hydrate.text, hydrate.vars)

(* A query that the panel asks about is run only when the user was asked   *)
(* about that very text, whatever becomes of the block while the question  *)
(* is up; and an answer runs nothing else.                                 *)
ConfirmedTextRuns ==
  \A t \in Tasks :
    (task[t].pc \notin {"free", "done"} /\ task[t].what = "run" /\ kind = "db") =>
      /\ task[t].text \in Dangerous => task[t].asked # None
      /\ task[t].asked # None => task[t].asked = task[t].text

(* A query that the panel asks about is not executed unasked.  This fails: *)
(* the next page executes whatever the block says by then.                 *)
DangerIsConfirmed ==
  \A t \in Tasks :
    task[t].pc = "await" /\ task[t].what # "explain" /\ task[t].text \in Dangerous
      /\ kind = "db" => task[t].asked # None

(* The rows that are shown are those of one query.  This fails: a page     *)
(* that is late is added to the rows of the query that was run since.      *)
RowsOfOneQuery == panel.resp # None => Cardinality(panel.resp) <= 1

(* A block does not say running forever: whatever way a run takes,         *)
(* whatever overlaps it, and whether or not its cancel arrives, it leaves  *)
(* the panel in another state.                                             *)
RunSettles == panel.state = "running" ~> panel.state # "running"
=============================================================================
