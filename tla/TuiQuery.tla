------------------------------ MODULE TuiQuery ------------------------------
(***************************************************************************)
(* Running blocks in the terminal editor (commands/db.rs, commands/http.rs *)
(* and the main loop of app.rs): a run, an EXPLAIN or a page of further    *)
(* rows is a task in the background; one slot, running_query, remembers    *)
(* the last one that was started; the outcome comes back as an event and   *)
(* is folded into the note that is open by then; rows that were read are   *)
(* kept in a cache on disk.                                                *)
(*                                                                         *)
(* A text stands for the query of a block with its connection and the      *)
(* values of its variables, and a row is known by the text and the page    *)
(* it comes from.  The cursor may be on any block.                         *)
(***************************************************************************)
EXTENDS Naturals, FiniteSets, SequencesExt

CONSTANTS Files,        \* the notes, each open in a tab
          Reads,        \* queries that read
          Writes,       \* queries that change the database
          Unscoped,     \* those of them that lack a WHERE
          Requests,     \* HTTP requests
          Open,         \* the texts of the blocks of each note at the start
          Notes,        \* what other programs may write to a note
          None,
          MaxPages,     \* bound: pages of a query
          MaxTasks,     \* bound: tasks started
          MaxChanges    \* bound: changes of a note

Texts == Reads \cup Writes \cup Requests

(* The key of an entry in the cache, and what the slot remembers.          *)
Key == Files \X Reads

RunningQuery == [id : 1..MaxTasks, key : Key \cup {None}]

ASSUME QueryAssumption ==
  /\ Reads \cap Writes = {} /\ Requests \cap (Reads \cup Writes) = {}
  /\ Unscoped \subseteq Writes
  /\ Open \in [Files -> Seq(Texts)] /\ Notes \subseteq Seq(Texts)
  /\ None \notin Texts \cup RunningQuery
  /\ MaxPages \in Nat \ {0} /\ MaxTasks \in Nat /\ MaxChanges \in Nat

(* A block with its state, the rows of its result and whether there are    *)
(* more; as it is parsed, nothing has run.                                 *)
BlockNode(text, state, rows, more) ==
  [text |-> text, state |-> state, rows |-> rows, more |-> more]

Fresh(note) == [i \in DOMAIN note |-> BlockNode(note[i], "idle", <<>>, FALSE)]

VARIABLES
  docs,        \* the blocks of each note
  active,      \* the note of the active tab
  confirm,     \* the modal that asks before an unscoped write, or None
  slot,        \* running_query, or None
  tasks,       \* the tasks in the background and the events they have sent
  started,     \* number of tasks started
  cache,       \* block_results on disk
  saves,       \* writes to the cache under way
  changes,     \* number of changes of notes so far
  upset        \* history: "explain" was started while something was under
               \* way, a note was "moved" (changed, or left for another) then,
               \* or a block with a result was "edited"

docVars   == <<docs, active, changes>>
taskVars  == <<slot, tasks, started>>
cacheVars == <<cache, saves>>
vars == <<docVars, confirm, taskVars, cacheVars, upset>>

Row == [text : Reads, page : Nat \ {0}]

Block == [text : Texts, state : {"idle", "running", "cached", "success", "error"},
          rows : Seq(Row), more : BOOLEAN]

Value == [rows : Seq(Row), more : BOOLEAN]

(* The key of a task and what the user was asked are history; the code     *)
(* knows the key of the task in the slot only.                             *)
Task == [id : 1..MaxTasks, kind : {"run", "more", "explain"}, text : Texts, seg : Nat,
         offset : Nat, key : Key \cup {None}, asked : Texts \cup {None},
         cancelled : BOOLEAN, out : {None, "more", "last", "err"}]

TypeOK ==
  /\ docs \in [Files -> Seq(Block)]
  /\ active \in Files
  /\ confirm \in [seg : Nat, text : Texts] \cup {None}
  /\ slot \in RunningQuery \cup {None}
  /\ tasks \subseteq Task
  /\ started \in 0..MaxTasks
  /\ cache \in [Key -> Value \cup {None}]
  /\ saves \subseteq [key : Key, value : Value]
  /\ changes \in 0..MaxChanges
  /\ upset \subseteq {"explain", "moved", "edited"}

Init ==
  /\ docs = [f \in Files |-> Fresh(Open[f])]
  /\ active \in Files
  /\ confirm = None
  /\ slot = None
  /\ tasks = {}
  /\ started = 0
  /\ cache = [k \in Key |-> None]
  /\ saves = {}
  /\ changes = 0
  /\ upset = {}

-----------------------------------------------------------------------------
Blocks == docs[active]

IsDb(b) == b.text \in Reads \cup Writes

Failed(b) == BlockNode(b.text, "error", <<>>, FALSE)

(* spawn_db_query, and its like for a request.                             *)
Spawn(i, kind, offset, key, asked) ==
  /\ started < MaxTasks
  /\ started' = started + 1
  /\ tasks' = tasks \cup
       {[id |-> started + 1, kind |-> kind, text |-> Blocks[i].text,
         seg |-> i, offset |-> offset, key |-> key, asked |-> asked,
         cancelled |-> FALSE, out |-> None]}
  /\ slot' = [id |-> started + 1, key |-> key]

(* A reference or the connection of the block cannot be resolved, or the   *)
(* connection is read-only.                                                *)
Preflight(i) ==
  /\ docs' = [docs EXCEPT ![active][i] = Failed(@)]
  /\ UNCHANGED taskVars

CacheKey(i) == IF Blocks[i].text \in Reads THEN <<active, Blocks[i].text>> ELSE None

Hit(i) == CacheKey(i) # None /\ cache[CacheKey(i)] # None

(* run_db_block_inner and apply_run_http_block; the text that the user has *)
(* agreed to run is asked, if there is one.                                *)
Execute(i, asked) ==
  \/ Preflight(i) /\ confirm' = None
  \/ /\ Blocks[i].text \in Unscoped
     /\ asked = None
     /\ confirm' = [seg |-> i, text |-> Blocks[i].text]
     /\ UNCHANGED <<docs, taskVars>>
  \/ /\ Hit(i)
     /\ LET found == cache[CacheKey(i)]
        IN docs' = [docs EXCEPT ![active][i] =
                      BlockNode(Blocks[i].text, "cached", found.rows, found.more)]
     /\ confirm' = None
     /\ UNCHANGED taskVars
  \/ /\ Blocks[i].text \in Unscoped => asked # None
     /\ ~Hit(i)
     /\ Spawn(i, "run", 0, CacheKey(i), asked)
     /\ docs' = [docs EXCEPT ![active][i].state = "running"]
     /\ confirm' = None

(* Mutant: the slot is not looked at.                                      *)
RunAnyway ==
  /\ confirm = None
  /\ \E i \in DOMAIN Blocks : Execute(i, None)
  /\ UNCHANGED <<active, changes, cacheVars, upset>>

(* apply_run_block, from the key and, on the block that ran last, from the *)
(* key that runs it again.                                                 *)
Run ==
  /\ confirm = None
  /\ slot = None
  /\ \E i \in DOMAIN Blocks : Execute(i, None)
  /\ UNCHANGED <<active, changes, cacheVars, upset>>

(* The modal closes, and the block at its index is run, if there is one.   *)
ConfirmRun ==
  /\ confirm # None
  /\ IF confirm.seg \in DOMAIN Blocks /\ IsDb(Blocks[confirm.seg])
       THEN Execute(confirm.seg, confirm.text)
       ELSE confirm' = None /\ UNCHANGED <<docs, taskVars>>
  /\ UNCHANGED <<active, changes, cacheVars, upset>>

CancelRun ==
  /\ confirm # None
  /\ confirm' = None
  /\ UNCHANGED <<docVars, taskVars, cacheVars, upset>>

(* run_explain: the one command that starts a task whatever the slot holds.*)
Explain ==
  /\ confirm = None
  /\ \E i \in DOMAIN Blocks :
       /\ IsDb(Blocks[i])
       /\ \/ Preflight(i) /\ UNCHANGED upset
          \/ /\ Spawn(i, "explain", 0, None, None)
             /\ upset' = IF tasks = {} THEN upset ELSE upset \cup {"explain"}
             /\ UNCHANGED docs
  /\ UNCHANGED <<active, changes, confirm, cacheVars>>

(* load_more_db_block, when the cursor comes near the last row: the next   *)
(* page of what the query of the block is now.                             *)
LoadMore ==
  /\ confirm = None
  /\ slot = None
  /\ \E i \in DOMAIN Blocks :
       /\ IsDb(Blocks[i])
       /\ Blocks[i].rows # <<>> /\ Blocks[i].more
       /\ Spawn(i, "more", Len(Blocks[i].rows), None, None)
  /\ UNCHANGED <<docVars, confirm, cacheVars, upset>>

-----------------------------------------------------------------------------
(* The executor.  Ctrl-C reaches the task that is in the slot.  A query    *)
(* that fails, is cancelled or takes too long ends in the same way.        *)

Cancel ==
  /\ slot # None
  /\ \E t \in tasks :
       /\ t.id = slot.id /\ t.out = None
       /\ tasks' = (tasks \ {t}) \cup {[t EXCEPT !.cancelled = TRUE]}
  /\ UNCHANGED <<docVars, confirm, slot, started, cacheVars, upset>>

Outcomes(t) ==
  IF t.cancelled THEN {"err"}
  ELSE {"last", "err"} \cup (IF t.text \in Reads /\ t.kind # "explain" /\ t.offset + 1 < MaxPages
                               THEN {"more"} ELSE {})

Finish(id) ==
  /\ \E t \in tasks :
       /\ t.id = id /\ t.out = None
       /\ \E out \in Outcomes(t) : tasks' = (tasks \ {t}) \cup {[t EXCEPT !.out = out]}
  /\ UNCHANGED <<docVars, confirm, slot, started, cacheVars, upset>>

-----------------------------------------------------------------------------
(* The main loop: an event is folded into the block at its index in the    *)
(* note that is open, if there is one.                                     *)

Page(t) == [text |-> t.text, page |-> t.offset + 1]

Ok(t) == t.out \in {"more", "last"}

Ran(b, t) ==
  IF Ok(t) THEN BlockNode(b.text, "success", IF t.text \in Reads THEN <<Page(t)>> ELSE <<>>,
                          t.out = "more")
           ELSE Failed(b)

LoadedMore(b, t) ==
  IF Ok(t) /\ t.text \in Reads /\ b.rows # <<>>
    THEN BlockNode(b.text, b.state, Append(b.rows, Page(t)), t.out = "more")
    ELSE b

(* Mutant: the rows of a run are added to those that are there.            *)
LandedAppending(b, t) ==
  CASE t.kind = "run"     -> [Ran(b, t) EXCEPT !.rows = b.rows \o @]
    [] t.kind = "more"    -> LoadedMore(b, t)
    [] t.kind = "explain" -> b

(* Mutant: the error of a run is reported, and the block left as it is.    *)
LandedStuck(b, t) ==
  CASE t.kind = "run"     -> IF Ok(t) THEN Ran(b, t) ELSE b
    [] t.kind = "more"    -> LoadedMore(b, t)
    [] t.kind = "explain" -> b

Landed(b, t) ==
  CASE t.kind = "run"     -> Ran(b, t)
    [] t.kind = "more"    -> LoadedMore(b, t)
    [] t.kind = "explain" -> b

(* Mutant: what is not cacheable, and has no key, is saved as well.        *)
SavedAlways(t) ==
  IF t.kind = "run" /\ Ok(t) /\ slot # None
    THEN {[key |-> slot.key, value |-> [rows |-> <<Page(t)>>, more |-> (t.out = "more")]]}
    ELSE {}

(* Mutant: the key is derived again from the block that is at the index.   *)
SavedUnderDerived(t) ==
  IF /\ t.kind = "run" /\ Ok(t) /\ t.text \in Reads
     /\ t.seg \in DOMAIN Blocks /\ CacheKey(t.seg) # None
    THEN {[key |-> CacheKey(t.seg), value |-> [rows |-> <<Page(t)>>, more |-> (t.out = "more")]]}
    ELSE {}

(* What is written to the cache: the outcome of a run, under the key that  *)
(* is in the slot.                                                         *)
Saved(t) ==
  IF t.kind = "run" /\ Ok(t) /\ slot # None /\ slot.key # None /\ t.text \in Reads
    THEN {[key |-> slot.key, value |-> [rows |-> <<Page(t)>>, more |-> (t.out = "more")]]}
    ELSE {}

(* Mutant: an error returns before the slot is emptied.                    *)
HandleEarly(id) ==
  /\ \E t \in tasks :
       /\ t.id = id /\ t.out # None
       /\ tasks' = tasks \ {t}
       /\ slot' = IF Ok(t) THEN None ELSE slot
       /\ docs' = IF t.seg \in DOMAIN Blocks
                    THEN [docs EXCEPT ![active][t.seg] = Landed(@, t)] ELSE docs
       /\ saves' = saves \cup Saved(t)
  /\ UNCHANGED <<active, changes, confirm, started, cache, upset>>

(* handle_db_block_result and handle_http_block_result.                    *)
Handle(id) ==
  /\ \E t \in tasks :
       /\ t.id = id /\ t.out # None
       /\ tasks' = tasks \ {t}
       /\ slot' = None
       /\ docs' = IF t.seg \in DOMAIN Blocks
                    THEN [docs EXCEPT ![active][t.seg] = Landed(@, t)] ELSE docs
       /\ saves' = saves \cup Saved(t)
  /\ UNCHANGED <<active, changes, confirm, started, cache, upset>>

(* save_db_cache_async; it may fail.                                       *)
SaveCache ==
  /\ \E s \in saves :
       /\ saves' = saves \ {s}
       /\ cache' \in {cache, [cache EXCEPT ![s.key] = s.value]}
  /\ UNCHANGED <<docVars, confirm, taskVars, upset>>

-----------------------------------------------------------------------------
(* What goes on in the notes meanwhile.                                    *)

Moved == IF tasks = {} THEN {} ELSE {"moved"}

Change(blocks, why) ==
  /\ changes < MaxChanges
  /\ changes' = changes + 1
  /\ docs' = [docs EXCEPT ![active] = blocks]
  /\ upset' = upset \cup Moved \cup why
  /\ UNCHANGED <<active, taskVars, cacheVars>>

(* The text of a block changes; its state and its result stay.             *)
EditText ==
  /\ confirm = None
  /\ \E i \in DOMAIN Blocks : \E text \in Texts \ {Blocks[i].text} :
       Change([Blocks EXCEPT ![i].text = text],
              IF Blocks[i].rows = <<>> THEN {} ELSE {"edited"})
  /\ UNCHANGED confirm

RemoveBlock ==
  /\ confirm = None
  /\ \E i \in DOMAIN Blocks :
       Change(RemoveAt(Blocks, i), {})
  /\ UNCHANGED confirm

(* The note has changed on disk: also while the modal is open.             *)
Reload ==
  /\ \E note \in Notes : Change(Fresh(note), {})
  /\ UNCHANGED confirm

SwitchTab ==
  /\ confirm = None
  /\ active' \in Files \ {active}
  /\ upset' = upset \cup Moved
  /\ UNCHANGED <<docs, changes, confirm, taskVars, cacheVars>>

-----------------------------------------------------------------------------
Next ==
  \/ Run \/ ConfirmRun \/ CancelRun \/ Explain \/ LoadMore \/ Cancel
  \/ \E id \in 1..MaxTasks : Finish(id) \/ Handle(id)
  \/ SaveCache
  \/ EditText \/ RemoveBlock \/ Reload \/ SwitchTab

(* Every query and request ends: the executors have a time limit for each. *)
(* The main loop takes the events that are there.                          *)
Fairness == \A id \in 1..MaxTasks : WF_vars(Finish(id)) /\ WF_vars(Handle(id))

Spec == Init /\ [][Next]_vars /\ Fairness

-----------------------------------------------------------------------------
(* Properties.                                                             *)

(* The slot speaks for what is under way: Ctrl-C reaches it, and nothing   *)
(* else can be started meanwhile.  It does so until an EXPLAIN overlaps    *)
(* (running_query, spawn_db_query, handle_db_block_result).                *)
SlotIsTask ==
  "explain" \notin upset =>
    IF slot = None THEN tasks = {}
                   ELSE \E t \in tasks : tasks = {t} /\ t.id = slot.id /\ t.key = slot.key

(* The cache holds under a key the rows of the query that the key is for,  *)
(* however the notes are changed, closed and switched while the query      *)
(* runs, unless an EXPLAIN overlaps (cache_key, handle_db_block_result).   *)
CacheHonest ==
  "explain" \notin upset =>
    /\ \A k \in Key : cache[k] # None => cache[k].rows = <<[text |-> k[2], page |-> 1]>>
    /\ \A s \in saves : s.value.rows = <<[text |-> s.key[2], page |-> 1]>>

(* The rows of a block are the pages of one query, in order, with no page  *)
(* left out or twice, if nothing has upset the notes: runs, cached results,*)
(* further pages, their errors and cancellations come in any order         *)
(* (load_more_db_block, handle_db_block_result).                           *)
PagesInOrder ==
  upset = {} =>
    \A f \in Files : \A i \in DOMAIN docs[f] :
      LET rows == docs[f][i].rows
      IN \A n \in DOMAIN rows : rows[n] = [text |-> rows[1].text, page |-> n]

(* The slot is not full forever (handle_db_block_result always clears it). *)
SlotReleased == slot # None ~> slot = None

(* A block does not show that it is running forever, unless its note is    *)
(* changed or left meanwhile (handle_db_block_result).                     *)
BlockSettles ==
  \A f \in Files : \A i \in DOMAIN Open[f] :
    (i \in DOMAIN docs[f] /\ docs[f][i].state = "running")
      ~> ("moved" \in upset \/ (i \in DOMAIN docs[f] => docs[f][i].state # "running"))

-----------------------------------------------------------------------------
(* What the comments of the code promise and the code does not keep.       *)

(* A write without a WHERE is started only if the user has agreed to it.   *)
UnscopedIsConfirmed ==
  \A t \in tasks : t.kind # "explain" /\ t.text \in Unscoped => t.asked = t.text

(* A key gives the rows of its own query.                                  *)
CacheHoldsOwnResult ==
  \A k \in Key : cache[k] # None => cache[k].rows[1].text = k[2]
=============================================================================
