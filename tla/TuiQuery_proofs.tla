--------------------------- MODULE TuiQuery_proofs --------------------------
(***************************************************************************)
(* Proofs about TuiQuery: its type invariant, that the slot speaks for the *)
(* task that is under way, and that the cache holds the rows of the query  *)
(* of each key, for any notes, texts, pages, tasks and changes.            *)
(***************************************************************************)
EXTENDS TuiQuery, SequenceTheorems, TLAPS

-----------------------------------------------------------------------------
(* Types.                                                                  *)

(* Taking an element out of a sequence keeps its type.                     *)
LEMMA RemoveAtType ==
  ASSUME NEW T, NEW s \in Seq(T), NEW i \in DOMAIN s
  PROVE  RemoveAt(s, i) \in Seq(T)
<1>1. i \in 1..Len(s)
  OBVIOUS
<1>2. SubSeq(s, 1, i - 1) \in Seq(T)
  BY <1>1
<1>3. SubSeq(s, i + 1, Len(s)) \in Seq(T)
  BY <1>1
<1>. QED  BY <1>2, <1>3 DEF RemoveAt

(* What is left was there.                                                 *)
LEMMA RemoveAtElements ==
  ASSUME NEW T, NEW s \in Seq(T), NEW i \in DOMAIN s
  PROVE  \A j \in DOMAIN RemoveAt(s, i) : \E k \in DOMAIN s : RemoveAt(s, i)[j] = s[k]
<1> DEFINE before == SubSeq(s, 1, i - 1)
           after  == SubSeq(s, i + 1, Len(s))
<1>1. i \in 1..Len(s) /\ Len(s) \in Nat
  OBVIOUS
<1>2. before \in Seq(T) /\ Len(before) = i - 1 /\ \A j \in 1..(i - 1) : before[j] = s[j]
  BY <1>1
<1>3. after \in Seq(T) /\ Len(after) = Len(s) - i
      /\ \A j \in 1..(Len(s) - i) : after[j] = s[i + j]
  BY <1>1
<1>4. RemoveAt(s, i) = before \o after
  BY DEF RemoveAt
<1>. HIDE DEF before, after
<1>5. Len(before \o after) = Len(s) - 1
  BY <1>1, <1>2, <1>3
<1>6. \A j \in 1..(Len(s) - 1) :
         (before \o after)[j] = IF j <= i - 1 THEN before[j] ELSE after[j - (i - 1)]
  <2>1. \A j \in 1..(Len(before) + Len(after)) :
           (before \o after)[j] = IF j <= Len(before) THEN before[j] ELSE after[j - Len(before)]
    BY <1>2, <1>3, ConcatProperties
  <2>2. Len(before) = i - 1 /\ Len(before) + Len(after) = Len(s) - 1
    BY <1>1, <1>2, <1>3
  <2>. QED  BY <2>1, <2>2
<1>7. before \o after \in Seq(T)
  BY <1>2, <1>3
<1>8. DOMAIN (before \o after) = 1..(Len(s) - 1)
  BY <1>5, <1>7
<1>9. ASSUME NEW j \in 1..(Len(s) - 1)
      PROVE  \E k \in DOMAIN s : (before \o after)[j] = s[k]
  <2>1. CASE j <= i - 1
    <3>1. (before \o after)[j] = s[j] /\ j \in DOMAIN s
      BY <1>1, <1>2, <1>6, <2>1
    <3>. QED  BY <3>1
  <2>2. CASE ~(j <= i - 1)
    <3>1. j - (i - 1) \in 1..(Len(s) - i) /\ i + (j - (i - 1)) = j + 1 /\ j + 1 \in DOMAIN s
      BY <1>1, <2>2
    <3>2. (before \o after)[j] = after[j - (i - 1)]
      BY <1>6, <2>2
    <3>3. after[j - (i - 1)] = s[j + 1]
      BY <1>3, <3>1
    <3>. QED  BY <3>1, <3>2, <3>3
  <2>. QED  BY <2>1, <2>2
<1>. QED  BY <1>4, <1>8, <1>9

(* The blocks of the note that is open are blocks.                         *)
LEMMA BlocksType ==
  ASSUME TypeOK
  PROVE  /\ active \in Files
         /\ Blocks \in Seq(Block)
         /\ \A i \in DOMAIN Blocks : i \in Nat /\ Blocks[i] \in Block
<1>1. active \in Files /\ docs \in [Files -> Seq(Block)]
  BY DEF TypeOK
<1>2. Blocks \in Seq(Block)
  BY <1>1 DEF Blocks
<1>. QED  BY <1>1, <1>2

(* Putting a block into the note that is open keeps the type of the notes. *)
LEMMA PutType ==
  ASSUME TypeOK, NEW i \in DOMAIN Blocks, NEW b \in Block
  PROVE  [docs EXCEPT ![active][i] = b] \in [Files -> Seq(Block)]
<1>1. active \in Files /\ docs \in [Files -> Seq(Block)]
  BY DEF TypeOK
<1>2. [docs[active] EXCEPT ![i] = b] \in Seq(Block)
  BY <1>1 DEF Blocks
<1>. QED  BY <1>1, <1>2

(* A block that has failed, or that is parsed, is a block.                 *)
LEMMA FailedType == ASSUME NEW b \in Block PROVE Failed(b) \in Block
BY DEF Failed, BlockNode, Block

LEMMA FreshType == ASSUME NEW note \in Seq(Texts) PROVE Fresh(note) \in Seq(Block)
<1>1. \A i \in DOMAIN note : BlockNode(note[i], "idle", <<>>, FALSE) \in Block
  BY DEF BlockNode, Block
<1>2. Len(note) \in Nat /\ DOMAIN note = 1..Len(note)
  OBVIOUS
<1>3. Fresh(note) \in [1..Len(note) -> Block]
  BY <1>1, <1>2, Zenon DEF Fresh
<1>. QED  BY <1>2, <1>3

(* The key of a block is a key or none.                                    *)
LEMMA CacheKeyType ==
  ASSUME TypeOK, NEW i \in DOMAIN Blocks
  PROVE  /\ CacheKey(i) \in Key \cup {None}
         /\ CacheKey(i) # None => CacheKey(i) = <<active, Blocks[i].text>>
BY BlocksType DEF CacheKey, Key

(* What is started has the type of a task.                                 *)
LEMMA SpawnType ==
  ASSUME TypeOK, NEW i \in DOMAIN Blocks, NEW kind \in {"run", "more", "explain"},
         NEW offset \in Nat, NEW key \in Key \cup {None}, NEW asked \in Texts \cup {None},
         Spawn(i, kind, offset, key, asked)
  PROVE  /\ tasks' \subseteq Task
         /\ slot' \in RunningQuery
         /\ started' \in 0..MaxTasks
<1>1. MaxTasks \in Nat /\ started \in 0..MaxTasks /\ tasks \subseteq Task
  BY QueryAssumption DEF TypeOK
<1>2. started + 1 \in 1..MaxTasks /\ started' \in 0..MaxTasks
  BY <1>1 DEF Spawn
<1>3. i \in Nat /\ Blocks[i].text \in Texts
  BY BlocksType DEF Block
<1> DEFINE new == [id |-> started + 1, kind |-> kind, text |-> Blocks[i].text, seg |-> i,
                   offset |-> offset, key |-> key, asked |-> asked,
                   cancelled |-> FALSE, out |-> None]
<1>a. new \in Task
  BY <1>2, <1>3 DEF Task
<1>b. tasks' = tasks \cup {new}
  BY DEF Spawn
<1>4. tasks' \subseteq Task
  BY <1>1, <1>a, <1>b
<1>5. slot' \in RunningQuery
  BY <1>2 DEF Spawn, RunningQuery
<1>. QED  BY <1>2, <1>4, <1>5

(* Running a block keeps the types of what it touches.                     *)
LEMMA ExecuteType ==
  ASSUME TypeOK, NEW i \in DOMAIN Blocks, NEW asked \in Texts \cup {None}, Execute(i, asked)
  PROVE  /\ docs' \in [Files -> Seq(Block)]
         /\ confirm' \in [seg : Nat, text : Texts] \cup {None}
         /\ slot' \in RunningQuery \cup {None}
         /\ tasks' \subseteq Task
         /\ started' \in 0..MaxTasks
<1>1. i \in Nat /\ Blocks[i] \in Block /\ Blocks[i].text \in Texts
  BY BlocksType DEF Block
<1>2. active \in Files /\ docs[active][i] = Blocks[i]
  BY BlocksType DEF Blocks
<1>t. /\ docs \in [Files -> Seq(Block)] /\ slot \in RunningQuery \cup {None}
      /\ tasks \subseteq Task /\ started \in 0..MaxTasks
  BY DEF TypeOK
<1>3. CASE Preflight(i) /\ confirm' = None
  <2>1. docs' = [docs EXCEPT ![active][i] = Failed(Blocks[i])]
    BY <1>2, <1>3 DEF Preflight, Blocks
  <2>2. docs' \in [Files -> Seq(Block)]
    BY <2>1, <1>1, FailedType, PutType
  <2>. QED  BY <2>2, <1>3, <1>t DEF Preflight, taskVars
<1>4. CASE confirm' = [seg |-> i, text |-> Blocks[i].text] /\ UNCHANGED <<docs, taskVars>>
  BY <1>4, <1>1, <1>t DEF taskVars
<1> DEFINE found == BlockNode(Blocks[i].text, "cached", cache[CacheKey(i)].rows,
                              cache[CacheKey(i)].more)
<1>5. CASE /\ Hit(i)
           /\ docs' = [docs EXCEPT ![active][i] = found]
           /\ confirm' = None
           /\ UNCHANGED taskVars
  <2>1. cache[CacheKey(i)] \in Value
    BY <1>5, CacheKeyType DEF Hit, TypeOK
  <2>2. found \in Block
    BY <2>1, <1>1 DEF BlockNode, Block, Value
  <2>3. docs' \in [Files -> Seq(Block)]
    BY <1>5, <2>2, PutType
  <2>. QED  BY <2>3, <1>5, <1>t DEF taskVars
<1>6. CASE /\ Spawn(i, "run", 0, CacheKey(i), asked)
           /\ docs' = [docs EXCEPT ![active][i].state = "running"]
           /\ confirm' = None
  <2> DEFINE b == [Blocks[i] EXCEPT !.state = "running"]
  <2>1. b \in Block
    BY <1>1 DEF Block
  <2>2. docs' = [docs EXCEPT ![active][i] = b]
    BY <1>2, <1>6 DEF Blocks
  <2>3. docs' \in [Files -> Seq(Block)]
    BY <2>1, <2>2, PutType
  <2>4. tasks' \subseteq Task /\ slot' \in RunningQuery /\ started' \in 0..MaxTasks
    BY <1>6, CacheKeyType, SpawnType
  <2>. QED  BY <2>3, <2>4, <1>6
<1>. QED  BY <1>3, <1>4, <1>5, <1>6 DEF Execute

(* Folding the outcome of a task into a block gives a block, and what is   *)
(* saved of it has the type of what is saved.                              *)
LEMMA LandedType ==
  ASSUME NEW b \in Block, NEW t \in Task
  PROVE  Landed(b, t) \in Block
<1>1. b.text \in Texts /\ b.rows \in Seq(Row) /\ t.offset \in Nat /\ (t.out = "more") \in BOOLEAN
  BY DEF Block, Task
<1>2. t.text \in Reads => Page(t) \in Row
  BY <1>1 DEF Page, Row
<1>3. Failed(b) \in Block
  BY FailedType
<1> DEFINE rows == IF t.text \in Reads THEN <<Page(t)>> ELSE <<>>
<1>4. rows \in Seq(Row)
  BY <1>2
<1>5. Ran(b, t) \in Block
  BY <1>1, <1>3, <1>4 DEF Ran, BlockNode, Block
<1>6. LoadedMore(b, t) \in Block
  <2>1. t.text \in Reads => Append(b.rows, Page(t)) \in Seq(Row)
    BY <1>1, <1>2
  <2>. QED  BY <1>1, <2>1 DEF LoadedMore, BlockNode, Block
<1>7. t.kind \in {"run", "more", "explain"}
  BY DEF Task
<1>. QED  BY <1>5, <1>6, <1>7 DEF Landed

LEMMA SavedType ==
  ASSUME TypeOK, NEW t \in Task
  PROVE  Saved(t) \subseteq [key : Key, value : Value]
<1>1. CASE t.kind = "run" /\ Ok(t) /\ slot # None /\ slot.key # None /\ t.text \in Reads
  <2>1. slot.key \in Key
    BY <1>1 DEF TypeOK, RunningQuery
  <2>2. Page(t) \in Row
    BY <1>1 DEF Page, Row, Task
  <2>3. [rows |-> <<Page(t)>>, more |-> (t.out = "more")] \in Value
    BY <2>2 DEF Value
  <2>. QED  BY <1>1, <2>1, <2>3 DEF Saved
<1>2. CASE ~(t.kind = "run" /\ Ok(t) /\ slot # None /\ slot.key # None /\ t.text \in Reads)
  BY <1>2 DEF Saved
<1>. QED  BY <1>1, <1>2
(* A change of the note that is open keeps the types of what it touches.   *)
LEMMA ChangeType ==
  ASSUME TypeOK, NEW blocks \in Seq(Block), NEW why \in SUBSET {"explain", "moved", "edited"},
         Change(blocks, why), UNCHANGED confirm
  PROVE  TypeOK'
<1>1. changes' \in 0..MaxChanges
  BY QueryAssumption DEF TypeOK, Change
<1>2. docs' \in [Files -> Seq(Block)]
  BY DEF TypeOK, Change
<1>3. upset' \subseteq {"explain", "moved", "edited"}
  BY DEF TypeOK, Change, Moved
<1>. QED  BY <1>1, <1>2, <1>3 DEF TypeOK, Change, taskVars, cacheVars

LEMMA InitTypeOK == Init => TypeOK
<1>. SUFFICES ASSUME Init PROVE TypeOK
  OBVIOUS
<1>1. docs \in [Files -> Seq(Block)]
  BY QueryAssumption, FreshType DEF Init
<1>2. 0 \in 0..MaxTasks /\ 0 \in 0..MaxChanges
  BY QueryAssumption
<1>3. cache \in [Key -> Value \cup {None}]
  BY DEF Init
<1>. QED  BY <1>1, <1>2, <1>3 DEF Init, TypeOK

(* Every step keeps the types.                                             *)
LEMMA NextTypeOK == TypeOK /\ [Next]_vars => TypeOK'
<1>. SUFFICES ASSUME TypeOK, [Next]_vars PROVE TypeOK'
  OBVIOUS
<1>1. CASE Run
  <2>1. PICK i \in DOMAIN Blocks : Execute(i, None)
    BY <1>1 DEF Run
  <2>. QED  BY <1>1, <2>1, ExecuteType DEF Run, cacheVars, TypeOK
<1>2. CASE ConfirmRun
  <2>1. confirm \in [seg : Nat, text : Texts] /\ confirm.text \in Texts
    BY <1>2 DEF ConfirmRun, TypeOK
  <2>2. CASE confirm.seg \in DOMAIN Blocks /\ Execute(confirm.seg, confirm.text)
    BY <1>2, <2>1, <2>2, ExecuteType DEF ConfirmRun, cacheVars, TypeOK
  <2>3. CASE confirm' = None /\ UNCHANGED <<docs, taskVars>>
    BY <1>2, <2>3 DEF ConfirmRun, cacheVars, taskVars, TypeOK
  <2>. QED  BY <1>2, <2>2, <2>3 DEF ConfirmRun
<1>3. CASE CancelRun
  BY <1>3 DEF CancelRun, docVars, taskVars, cacheVars, TypeOK
<1>4. CASE Explain
  <2>1. PICK i \in DOMAIN Blocks :
          \/ Preflight(i) /\ UNCHANGED upset
          \/ /\ Spawn(i, "explain", 0, None, None)
             /\ upset' = IF tasks = {} THEN upset ELSE upset \cup {"explain"}
             /\ UNCHANGED docs
    BY <1>4 DEF Explain
  <2>2. CASE Preflight(i) /\ UNCHANGED upset
    <3>1. docs' = [docs EXCEPT ![active][i] = Failed(Blocks[i])]
      BY <2>2, BlocksType DEF Preflight, Blocks
    <3>2. docs' \in [Files -> Seq(Block)]
      BY <3>1, BlocksType, FailedType, PutType
    <3>. QED  BY <1>4, <2>2, <3>2 DEF Explain, Preflight, cacheVars, taskVars, TypeOK
  <2>3. CASE /\ Spawn(i, "explain", 0, None, None)
             /\ upset' = IF tasks = {} THEN upset ELSE upset \cup {"explain"}
             /\ UNCHANGED docs
    <3>1. tasks' \subseteq Task /\ slot' \in RunningQuery /\ started' \in 0..MaxTasks
      BY <2>3, SpawnType
    <3>2. upset' \subseteq {"explain", "moved", "edited"}
      BY <2>3 DEF TypeOK
    <3>. QED  BY <1>4, <2>3, <3>1, <3>2 DEF Explain, cacheVars, TypeOK
  <2>. QED  BY <2>1, <2>2, <2>3
<1>5. CASE LoadMore
  <2>1. PICK i \in DOMAIN Blocks : Spawn(i, "more", Len(Blocks[i].rows), None, None)
    BY <1>5 DEF LoadMore
  <2>2. Len(Blocks[i].rows) \in Nat
    BY BlocksType DEF Block
  <2>3. tasks' \subseteq Task /\ slot' \in RunningQuery /\ started' \in 0..MaxTasks
    BY <2>1, <2>2, SpawnType
  <2>. QED  BY <1>5, <2>3 DEF LoadMore, docVars, cacheVars, TypeOK
<1>6. CASE Cancel
  <2>1. PICK t \in tasks : tasks' = (tasks \ {t}) \cup {[t EXCEPT !.cancelled = TRUE]}
    BY <1>6 DEF Cancel
  <2>2. t \in Task /\ tasks \subseteq Task
    BY DEF TypeOK
  <2>3. [t EXCEPT !.cancelled = TRUE] \in Task
    BY <2>2 DEF Task
  <2>4. tasks' \subseteq Task
    BY <2>1, <2>2, <2>3
  <2>. QED  BY <1>6, <2>4 DEF Cancel, docVars, cacheVars, TypeOK
<1>7. ASSUME NEW id \in 1..MaxTasks, Finish(id) PROVE TypeOK'
  <2>1. PICK t \in tasks, out \in {None, "more", "last", "err"} :
          tasks' = (tasks \ {t}) \cup {[t EXCEPT !.out = out]}
    BY <1>7 DEF Finish, Outcomes
  <2>2. t \in Task /\ tasks \subseteq Task
    BY DEF TypeOK
  <2>3. [t EXCEPT !.out = out] \in Task
    BY <2>2 DEF Task
  <2>4. tasks' \subseteq Task
    BY <2>1, <2>2, <2>3
  <2>. QED  BY <1>7, <2>4 DEF Finish, docVars, cacheVars, TypeOK
<1>8. ASSUME NEW id \in 1..MaxTasks, Handle(id) PROVE TypeOK'
  <2>1. PICK t \in tasks :
          /\ tasks' = tasks \ {t}
          /\ slot' = None
          /\ docs' = IF t.seg \in DOMAIN Blocks
                       THEN [docs EXCEPT ![active][t.seg] = Landed(@, t)] ELSE docs
          /\ saves' = saves \cup Saved(t)
    BY <1>8 DEF Handle
  <2>2. t \in Task /\ tasks \subseteq Task
    BY DEF TypeOK
  <2>3. docs' \in [Files -> Seq(Block)]
    <3>1. CASE t.seg \in DOMAIN Blocks
      <4>1. docs' = [docs EXCEPT ![active][t.seg] = Landed(Blocks[t.seg], t)]
        BY <2>1, <3>1, BlocksType DEF Blocks
      <4>2. Landed(Blocks[t.seg], t) \in Block
        BY <2>2, <3>1, BlocksType, LandedType
      <4>. QED  BY <3>1, <4>1, <4>2, PutType
    <3>2. CASE t.seg \notin DOMAIN Blocks
      BY <2>1, <3>2 DEF TypeOK
    <3>. QED  BY <3>1, <3>2
  <2>4. saves' \subseteq [key : Key, value : Value]
    BY <2>1, <2>2, SavedType DEF TypeOK
  <2>5. tasks' \subseteq Task
    BY <2>1, <2>2
  <2>. QED  BY <1>8, <2>1, <2>3, <2>4, <2>5 DEF Handle, TypeOK
<1>9. CASE SaveCache
  <2>1. PICK s \in saves : /\ saves' = saves \ {s}
                           /\ cache' \in {cache, [cache EXCEPT ![s.key] = s.value]}
    BY <1>9 DEF SaveCache
  <2>2. s.key \in Key /\ s.value \in Value
    BY DEF TypeOK
  <2>3. cache' \in [Key -> Value \cup {None}]
    BY <2>1, <2>2 DEF TypeOK
  <2>4. saves' \subseteq [key : Key, value : Value]
    BY <2>1 DEF TypeOK
  <2>. QED  BY <1>9, <2>3, <2>4 DEF SaveCache, docVars, taskVars, TypeOK
<1>10. CASE EditText
  <2>1. PICK i \in DOMAIN Blocks : \E text \in Texts \ {Blocks[i].text} :
          Change([Blocks EXCEPT ![i].text = text],
                 IF Blocks[i].rows = <<>> THEN {} ELSE {"edited"})
    BY <1>10 DEF EditText
  <2>2. PICK text \in Texts : Change([Blocks EXCEPT ![i].text = text],
                                     IF Blocks[i].rows = <<>> THEN {} ELSE {"edited"})
    BY <2>1
  <2> DEFINE b == [Blocks[i] EXCEPT !.text = text]
             blocks == [Blocks EXCEPT ![i].text = text]
             why == IF Blocks[i].rows = <<>> THEN {} ELSE {"edited"}
  <2>3. b \in Block /\ Blocks \in Seq(Block)
    BY BlocksType DEF Block
  <2>4. blocks = [Blocks EXCEPT ![i] = b]
    OBVIOUS
  <2>5. blocks \in Seq(Block)
    BY <2>3, <2>4
  <2>6. why \in SUBSET {"explain", "moved", "edited"}
    OBVIOUS
  <2>7. Change(blocks, why) /\ UNCHANGED confirm
    BY <1>10, <2>2 DEF EditText
  <2>. QED  BY <2>5, <2>6, <2>7, ChangeType
<1>11. CASE RemoveBlock
  <2>1. PICK i \in DOMAIN Blocks : Change(RemoveAt(Blocks, i), {})
    BY <1>11 DEF RemoveBlock
  <2>2. RemoveAt(Blocks, i) \in Seq(Block)
    BY BlocksType, RemoveAtType
  <2>. QED  BY <1>11, <2>1, <2>2, ChangeType DEF RemoveBlock
<1>12. CASE Reload
  <2>1. PICK note \in Notes : Change(Fresh(note), {})
    BY <1>12 DEF Reload
  <2>2. Fresh(note) \in Seq(Block)
    BY QueryAssumption, FreshType
  <2>. QED  BY <1>12, <2>1, <2>2, ChangeType DEF Reload
<1>13. CASE SwitchTab
  BY <1>13 DEF SwitchTab, Moved, taskVars, cacheVars, TypeOK
<1>14. CASE UNCHANGED vars
  BY <1>14 DEF vars, docVars, taskVars, cacheVars, TypeOK
<1>. QED  BY <1>1, <1>2, <1>3, <1>4, <1>5, <1>6, <1>7, <1>8, <1>9, <1>10, <1>11, <1>12, <1>13,
             <1>14 DEF Next

(* Every variable keeps its type.                                          *)
THEOREM TypeCorrect == Spec => []TypeOK
BY InitTypeOK, NextTypeOK, PTL DEF Spec
-----------------------------------------------------------------------------
(* The slot and the cache.  Two facts are needed besides: the modal is     *)
(* only open while the slot is empty, so the run that follows it starts    *)
(* alone, and the key of a run is for the text that it runs.               *)

ModalAlone == confirm # None => slot = None

OwnKeys ==
  \A t \in tasks : t.kind = "run" => t.offset = 0 /\ (t.key # None => t.key[2] = t.text)

SlotInv == TypeOK /\ ModalAlone /\ OwnKeys /\ SlotIsTask

(* A task that is started while nothing is under way is the one of the     *)
(* slot.                                                                   *)
LEMMA SpawnSlot ==
  ASSUME TypeOK, SlotIsTask, OwnKeys, NEW i \in DOMAIN Blocks,
         NEW kind \in {"run", "more", "explain"}, NEW offset \in Nat,
         NEW key \in Key \cup {None}, NEW asked \in Texts \cup {None},
         kind = "run" => offset = 0 /\ (key # None => key[2] = Blocks[i].text),
         Spawn(i, kind, offset, key, asked)
  PROVE  /\ OwnKeys'
         /\ tasks = {} => slot' # None /\ \E t \in tasks' : /\ tasks' = {t} /\ t.id = slot'.id
                                                          /\ t.key = slot'.key
<1> DEFINE new == [id |-> started + 1, kind |-> kind, text |-> Blocks[i].text, seg |-> i,
                   offset |-> offset, key |-> key, asked |-> asked,
                   cancelled |-> FALSE, out |-> None]
<1>1. tasks' = tasks \cup {new} /\ slot' = [id |-> started + 1, key |-> key]
  BY DEF Spawn
<1>2. slot' # None
  BY SpawnType, QueryAssumption
<1>3. new.kind = kind /\ new.offset = offset /\ new.key = key /\ new.text = Blocks[i].text
      /\ new.id = started + 1
  OBVIOUS
<1>4. OwnKeys'
  BY <1>1, <1>3 DEF OwnKeys
<1>. QED  BY <1>1, <1>2, <1>3, <1>4

(* Running a block while nothing is under way.                             *)
LEMMA ExecuteSlot ==
  ASSUME SlotInv, slot = None, NEW i \in DOMAIN Blocks, NEW asked \in Texts \cup {None},
         Execute(i, asked), UNCHANGED upset
  PROVE  ModalAlone' /\ OwnKeys' /\ SlotIsTask'
<1>1. CASE confirm' = None /\ UNCHANGED taskVars
  BY <1>1 DEF SlotInv, ModalAlone, OwnKeys, SlotIsTask, taskVars
<1>2. CASE UNCHANGED taskVars
  BY <1>2 DEF SlotInv, ModalAlone, OwnKeys, SlotIsTask, taskVars
<1>3. CASE Spawn(i, "run", 0, CacheKey(i), asked) /\ confirm' = None
  <2>1. CacheKey(i) \in Key \cup {None} /\ (CacheKey(i) # None => CacheKey(i)[2] = Blocks[i].text)
    BY CacheKeyType DEF SlotInv
  <2>2. /\ OwnKeys'
        /\ tasks = {} => slot' # None /\ \E t \in tasks' : /\ tasks' = {t} /\ t.id = slot'.id
                                                         /\ t.key = slot'.key
    BY <1>3, <2>1, SpawnSlot DEF SlotInv
  <2>. QED  BY <1>3, <2>2 DEF SlotInv, ModalAlone, SlotIsTask
<1>. QED  BY <1>1, <1>2, <1>3 DEF Execute, Preflight

LEMMA InitSlotInv == Init => SlotInv
BY InitTypeOK DEF Init, SlotInv, ModalAlone, OwnKeys, SlotIsTask

LEMMA NextSlotInv == SlotInv /\ [Next]_vars => SlotInv'
<1>. SUFFICES ASSUME SlotInv, [Next]_vars PROVE ModalAlone' /\ OwnKeys' /\ SlotIsTask'
  BY NextTypeOK DEF SlotInv
<1>1. CASE Run
  <2>1. PICK i \in DOMAIN Blocks : Execute(i, None)
    BY <1>1 DEF Run
  <2>. QED  BY <1>1, <2>1, ExecuteSlot DEF Run
<1>2. CASE ConfirmRun
  <2>1. slot = None
    BY <1>2 DEF ConfirmRun, SlotInv, ModalAlone
  <2>2. confirm.text \in Texts
    BY <1>2 DEF ConfirmRun, SlotInv, TypeOK
  <2>3. CASE confirm.seg \in DOMAIN Blocks /\ Execute(confirm.seg, confirm.text)
    BY <1>2, <2>1, <2>2, <2>3, ExecuteSlot DEF ConfirmRun
  <2>4. CASE confirm' = None /\ UNCHANGED <<docs, taskVars>>
    BY <1>2, <2>4 DEF ConfirmRun, SlotInv, ModalAlone, OwnKeys, SlotIsTask, taskVars
  <2>. QED  BY <1>2, <2>3, <2>4 DEF ConfirmRun
<1>3. CASE Explain
  <2>1. PICK i \in DOMAIN Blocks :
          \/ Preflight(i) /\ UNCHANGED upset
          \/ /\ Spawn(i, "explain", 0, None, None)
             /\ upset' = IF tasks = {} THEN upset ELSE upset \cup {"explain"}
    BY <1>3 DEF Explain
  <2>2. confirm = None /\ confirm' = None
    BY <1>3 DEF Explain
  <2>3. CASE Preflight(i) /\ UNCHANGED upset
    BY <2>2, <2>3 DEF Preflight, SlotInv, ModalAlone, OwnKeys, SlotIsTask, taskVars
  <2>4. CASE /\ Spawn(i, "explain", 0, None, None)
             /\ upset' = IF tasks = {} THEN upset ELSE upset \cup {"explain"}
    <3>1. /\ OwnKeys'
          /\ tasks = {} => slot' # None /\ \E t \in tasks' : /\ tasks' = {t} /\ t.id = slot'.id
                                                           /\ t.key = slot'.key
      BY <2>4, SpawnSlot DEF SlotInv
    <3>. QED  BY <2>2, <2>4, <3>1 DEF SlotInv, ModalAlone, SlotIsTask
  <2>. QED  BY <2>1, <2>3, <2>4
<1>4. CASE LoadMore
  <2>1. PICK i \in DOMAIN Blocks : Spawn(i, "more", Len(Blocks[i].rows), None, None)
    BY <1>4 DEF LoadMore
  <2>2. Len(Blocks[i].rows) \in Nat
    BY BlocksType DEF Block, SlotInv
  <2>3. /\ OwnKeys'
        /\ tasks = {} => slot' # None /\ \E t \in tasks' : /\ tasks' = {t} /\ t.id = slot'.id
                                                         /\ t.key = slot'.key
    BY <2>1, <2>2, SpawnSlot DEF SlotInv
  <2>. QED  BY <1>4, <2>3 DEF LoadMore, SlotInv, ModalAlone, SlotIsTask
<1>5. CASE Cancel
  <2>1. PICK t \in tasks : tasks' = (tasks \ {t}) \cup {[t EXCEPT !.cancelled = TRUE]}
    BY <1>5 DEF Cancel
  <2> DEFINE new == [t EXCEPT !.cancelled = TRUE]
  <2>2. /\ new.id = t.id /\ new.key = t.key /\ new.kind = t.kind /\ new.text = t.text
        /\ new.offset = t.offset
    BY DEF SlotInv, TypeOK, Task
  <2>3. OwnKeys'
    <3>1. \A u \in tasks' : u \in tasks \/ u = new
      BY <2>1
    <3>2. \A u \in tasks : u.kind = "run" => u.offset = 0 /\ (u.key # None => u.key[2] = u.text)
      BY DEF SlotInv, OwnKeys
    <3>. HIDE DEF new
    <3>. QED  BY <2>2, <3>1, <3>2 DEF OwnKeys
  <2>4. SlotIsTask'
    <3>1. tasks = {t} => tasks' = {new}
      BY <2>1
    <3>. QED  BY <1>5, <2>1, <2>2, <3>1 DEF Cancel, SlotInv, SlotIsTask
  <2>. QED  BY <1>5, <2>3, <2>4 DEF Cancel, SlotInv, ModalAlone
<1>6. ASSUME NEW id \in 1..MaxTasks, Finish(id) PROVE ModalAlone' /\ OwnKeys' /\ SlotIsTask'
  <2>1. PICK t \in tasks, out \in {None, "more", "last", "err"} :
          tasks' = (tasks \ {t}) \cup {[t EXCEPT !.out = out]}
    BY <1>6 DEF Finish, Outcomes
  <2> DEFINE new == [t EXCEPT !.out = out]
  <2>2. /\ new.id = t.id /\ new.key = t.key /\ new.kind = t.kind /\ new.text = t.text
        /\ new.offset = t.offset
    BY DEF SlotInv, TypeOK, Task
  <2>3. OwnKeys'
    <3>1. \A u \in tasks' : u \in tasks \/ u = new
      BY <2>1
    <3>2. \A u \in tasks : u.kind = "run" => u.offset = 0 /\ (u.key # None => u.key[2] = u.text)
      BY DEF SlotInv, OwnKeys
    <3>. HIDE DEF new
    <3>. QED  BY <2>2, <3>1, <3>2 DEF OwnKeys
  <2>4. SlotIsTask'
    <3>1. tasks = {t} => tasks' = {new}
      BY <2>1
    <3>. QED  BY <1>6, <2>1, <2>2, <3>1 DEF Finish, SlotInv, SlotIsTask
  <2>. QED  BY <1>6, <2>3, <2>4 DEF Finish, SlotInv, ModalAlone
<1>7. ASSUME NEW id \in 1..MaxTasks, Handle(id) PROVE ModalAlone' /\ OwnKeys' /\ SlotIsTask'
  <2>1. PICK t \in tasks : tasks' = tasks \ {t} /\ slot' = None
    BY <1>7 DEF Handle
  <2>. QED  BY <1>7, <2>1 DEF Handle, SlotInv, ModalAlone, OwnKeys, SlotIsTask
<1>8. CASE CancelRun \/ SaveCache \/ UNCHANGED vars
  BY <1>8 DEF CancelRun, SaveCache, vars, docVars, taskVars, SlotInv, ModalAlone, OwnKeys, SlotIsTask
<1>9. CASE EditText \/ RemoveBlock \/ Reload \/ SwitchTab
  <2>1. UNCHANGED taskVars /\ UNCHANGED confirm /\ upset \subseteq upset'
    BY <1>9 DEF EditText, RemoveBlock, Reload, SwitchTab, Change
  <2>. QED  BY <2>1 DEF taskVars, SlotInv, ModalAlone, OwnKeys, SlotIsTask
<1>. QED  BY <1>1, <1>2, <1>3, <1>4, <1>5, <1>6, <1>7, <1>8, <1>9 DEF Next

(* The slot speaks for what is under way, until an EXPLAIN overlaps.       *)
THEOREM SlotIsTaskHolds == Spec => []SlotIsTask
<1>1. SlotInv => SlotIsTask
  BY DEF SlotInv
<1>. QED  BY InitSlotInv, NextSlotInv, <1>1, PTL DEF Spec
-----------------------------------------------------------------------------
(* The cache.                                                              *)

CacheInv == SlotInv /\ CacheHonest

(* What is saved belongs under its key while nothing has overlapped.       *)
LEMMA SavedHonest ==
  ASSUME SlotInv, "explain" \notin upset, NEW t \in tasks, NEW s \in Saved(t)
  PROVE  s.value.rows = <<[text |-> s.key[2], page |-> 1]>>
<1>1. /\ t.kind = "run" /\ slot # None /\ slot.key # None
      /\ s = [key |-> slot.key, value |-> [rows |-> <<Page(t)>>, more |-> (t.out = "more")]]
  BY DEF Saved
<1>2. slot.key = t.key
  BY <1>1 DEF SlotInv, SlotIsTask
<1>3. t.key[2] = t.text /\ t.offset = 0
  BY <1>1, <1>2 DEF SlotInv, OwnKeys
<1>4. Page(t) = [text |-> t.text, page |-> 1]
  BY <1>3 DEF Page
<1>5. s.value.rows = <<Page(t)>> /\ s.key = slot.key
  BY <1>1
<1>. QED  BY <1>2, <1>3, <1>4, <1>5

LEMMA InitCacheInv == Init => CacheInv
BY InitSlotInv DEF Init, CacheInv, CacheHonest

LEMMA NextCacheInv == CacheInv /\ [Next]_vars => CacheInv'
<1>. SUFFICES ASSUME CacheInv, [Next]_vars, "explain" \notin upset'
              PROVE  /\ \A k \in Key : cache'[k] # None => cache'[k].rows = <<[text |-> k[2], page |-> 1]>>
                     /\ \A s \in saves' : s.value.rows = <<[text |-> s.key[2], page |-> 1]>>
  BY NextSlotInv DEF CacheInv, CacheHonest
<1>1. upset \subseteq upset'
  BY DEF Next, Run, ConfirmRun, CancelRun, Explain, LoadMore, Cancel, Finish, Handle, SaveCache,
         EditText, RemoveBlock, Reload, SwitchTab, Change, vars
<1>2. /\ \A k \in Key : cache[k] # None => cache[k].rows = <<[text |-> k[2], page |-> 1]>>
      /\ \A s \in saves : s.value.rows = <<[text |-> s.key[2], page |-> 1]>>
  BY <1>1 DEF CacheInv, CacheHonest
<1>3. CASE SaveCache
  <2>1. PICK s \in saves : /\ saves' = saves \ {s}
                           /\ cache' \in {cache, [cache EXCEPT ![s.key] = s.value]}
    BY <1>3 DEF SaveCache
  <2>2. s.key \in Key /\ cache \in [Key -> Value \cup {None}]
    BY DEF CacheInv, SlotInv, TypeOK
  <2>. QED  BY <1>2, <2>1, <2>2
<1>4. ASSUME NEW id \in 1..MaxTasks, Handle(id)
      PROVE  /\ \A k \in Key : cache'[k] # None => cache'[k].rows = <<[text |-> k[2], page |-> 1]>>
             /\ \A s \in saves' : s.value.rows = <<[text |-> s.key[2], page |-> 1]>>
  <2>1. PICK t \in tasks : saves' = saves \cup Saved(t)
    BY <1>4 DEF Handle
  <2>2. \A s \in Saved(t) : s.value.rows = <<[text |-> s.key[2], page |-> 1]>>
    BY <1>1, SavedHonest DEF CacheInv
  <2>. QED  BY <1>2, <1>4, <2>1, <2>2 DEF Handle
<1>5. CASE UNCHANGED cacheVars
  BY <1>2, <1>5 DEF cacheVars
<1>. QED  BY <1>3, <1>4, <1>5
          DEF Next, Run, ConfirmRun, CancelRun, Explain, LoadMore, Cancel, Finish,
              EditText, RemoveBlock, Reload, SwitchTab, Change, vars

(* The cache holds under each key the rows of its own query, until an      *)
(* EXPLAIN overlaps.                                                       *)
THEOREM CacheHonestHolds == Spec => []CacheHonest
<1>1. CacheInv => CacheHonest
  BY DEF CacheInv
<1>. QED  BY InitCacheInv, NextCacheInv, <1>1, PTL DEF Spec
-----------------------------------------------------------------------------
(* The pages of a result.  While nothing has upset the notes, the rows of  *)
(* a block are pages of its own text, and a task is for the text that its  *)
(* block still has; a further page is the one after those that are there,  *)
(* or finds none.                                                          *)

Paged(b) == \A n \in DOMAIN b.rows : b.rows[n] = [text |-> b.text, page |-> n]

Fits(t, blocks) ==
  /\ t.seg \in DOMAIN blocks
  /\ blocks[t.seg].text = t.text
  /\ t.kind = "more" => blocks[t.seg].rows = <<>> \/ Len(blocks[t.seg].rows) = t.offset

OrderParts ==
  /\ \A f \in Files : \A i \in DOMAIN docs[f] : Paged(docs[f][i])
  /\ \A t \in tasks : Fits(t, Blocks)

OrderInv == CacheInv /\ (upset = {} => OrderParts)

(* A block is replaced by one of the same text with no rows, or rows of    *)
(* which the tasks that remain know.                                       *)
LEMMA PutPaged ==
  ASSUME TypeOK, OrderParts, NEW i \in DOMAIN Blocks, NEW b \in Block,
         Paged(b), b.text = Blocks[i].text, UNCHANGED active,
         docs' = [docs EXCEPT ![active][i] = b],
         NEW S \in SUBSET tasks, S # {} => b.rows \in {<<>>, Blocks[i].rows}
  PROVE  /\ \A f \in Files : \A j \in DOMAIN docs'[f] : Paged(docs'[f][j])
         /\ \A t \in S : Fits(t, Blocks')
         /\ Blocks' = [Blocks EXCEPT ![i] = b]
<1>1. active \in Files /\ docs \in [Files -> Seq(Block)] /\ Blocks \in Seq(Block)
  BY BlocksType DEF TypeOK
<1>2. Blocks' = [Blocks EXCEPT ![i] = b]
  BY <1>1 DEF Blocks
<1>3. \A f \in Files : \A j \in DOMAIN docs'[f] : Paged(docs'[f][j])
  <2>. SUFFICES ASSUME NEW f \in Files, NEW j \in DOMAIN docs'[f] PROVE Paged(docs'[f][j])
    OBVIOUS
  <2>1. CASE f = active /\ j = i
    <3>1. docs'[f][j] = b
      BY <1>1, <2>1 DEF Blocks
    <3>. QED  BY <3>1
  <2>2. CASE ~(f = active /\ j = i)
    <3>1. j \in DOMAIN docs[f] /\ docs'[f][j] = docs[f][j]
      BY <1>1, <2>2 DEF Blocks
    <3>. QED  BY <3>1 DEF OrderParts
  <2>. QED  BY <2>1, <2>2
<1>4. \A t \in S : Fits(t, Blocks')
  <2>. SUFFICES ASSUME NEW t \in S PROVE Fits(t, Blocks')
    OBVIOUS
  <2>1. Fits(t, Blocks)
    BY DEF OrderParts
  <2>2. CASE t.seg = i
    <3>1. Blocks'[t.seg] = b /\ t.seg \in DOMAIN Blocks'
      BY <1>1, <1>2, <2>1, <2>2 DEF Fits
    <3>2. b.rows \in {<<>>, Blocks[i].rows}
      OBVIOUS
    <3>. QED  BY <2>1, <2>2, <3>1, <3>2 DEF Fits
  <2>3. CASE t.seg # i
    <3>1. Blocks'[t.seg] = Blocks[t.seg] /\ t.seg \in DOMAIN Blocks'
      BY <1>1, <1>2, <2>1, <2>3 DEF Fits
    <3>. QED  BY <2>1, <3>1 DEF Fits
  <2>. QED  BY <2>2, <2>3
<1>. QED  BY <1>2, <1>3, <1>4

(* A block that fails has no rows.                                         *)
LEMMA FailedPaged == ASSUME NEW b \in Block PROVE Paged(Failed(b)) /\ Failed(b).text = b.text
                                                 /\ Failed(b).rows = <<>>
BY DEF Failed, BlockNode, Paged

(* Running a block while nothing is under way.                             *)
LEMMA ExecutePaged ==
  ASSUME CacheInv, OrderParts, upset = {}, slot = None, UNCHANGED active,
         NEW i \in DOMAIN Blocks, NEW asked \in Texts \cup {None}, Execute(i, asked)
  PROVE  OrderParts'
<1>1. TypeOK /\ tasks = {}
  BY DEF CacheInv, SlotInv, SlotIsTask
<1>2. /\ Blocks[i] \in Block /\ Blocks \in Seq(Block) /\ active \in Files
      /\ docs \in [Files -> Seq(Block)] /\ docs[active][i] = Blocks[i]
  BY <1>1, BlocksType DEF TypeOK, Blocks
<1>3. CASE Preflight(i)
  <2>1. docs' = [docs EXCEPT ![active][i] = Failed(Blocks[i])]
    BY <1>2, <1>3 DEF Preflight, Blocks
  <2>2. \A f \in Files : \A j \in DOMAIN docs'[f] : Paged(docs'[f][j])
    BY <1>1, <1>2, <2>1, FailedType, FailedPaged, PutPaged
  <2>. QED  BY <1>1, <1>3, <2>2 DEF OrderParts, Preflight, taskVars
<1>4. CASE UNCHANGED <<docs, taskVars>>
  BY <1>4 DEF OrderParts, taskVars, Blocks
<1> DEFINE found == BlockNode(Blocks[i].text, "cached", cache[CacheKey(i)].rows,
                              cache[CacheKey(i)].more)
<1>5. CASE Hit(i) /\ docs' = [docs EXCEPT ![active][i] = found] /\ UNCHANGED taskVars
  <2>1. /\ CacheKey(i) \in Key /\ CacheKey(i)[2] = Blocks[i].text /\ cache[CacheKey(i)] # None
        /\ cache[CacheKey(i)] \in Value
    BY <1>1, <1>5, CacheKeyType DEF Hit, TypeOK
  <2>2. cache[CacheKey(i)].rows = <<[text |-> Blocks[i].text, page |-> 1]>>
    BY <2>1 DEF CacheInv, CacheHonest
  <2>3. found \in Block
    BY <2>1, <1>2 DEF BlockNode, Block, Value
  <2>4. found.text = Blocks[i].text /\ found.rows = <<[text |-> Blocks[i].text, page |-> 1]>>
    BY <2>2 DEF BlockNode
  <2>5. Paged(found)
    BY <2>4 DEF Paged
  <2>6. \A f \in Files : \A j \in DOMAIN docs'[f] : Paged(docs'[f][j])
    <3>. HIDE DEF found
    <3>. QED  BY <1>1, <1>5, <2>3, <2>4, <2>5, PutPaged
  <2>. QED  BY <1>1, <1>5, <2>6 DEF OrderParts, taskVars
<1>6. CASE /\ Spawn(i, "run", 0, CacheKey(i), asked)
           /\ docs' = [docs EXCEPT ![active][i].state = "running"]
  <2> DEFINE b == [Blocks[i] EXCEPT !.state = "running"]
  <2>1. b \in Block /\ b.text = Blocks[i].text /\ b.rows = Blocks[i].rows
    BY <1>2 DEF Block
  <2>2. docs' = [docs EXCEPT ![active][i] = b]
    BY <1>2, <1>6 DEF Blocks
  <2>3. Paged(b)
    <3>1. Paged(Blocks[i])
      BY <1>2 DEF OrderParts, Blocks
    <3>. QED  BY <2>1, <3>1 DEF Paged
  <2>4. /\ \A f \in Files : \A j \in DOMAIN docs'[f] : Paged(docs'[f][j])
        /\ Blocks' = [Blocks EXCEPT ![i] = b]
    <3>. HIDE DEF b
    <3>. QED  BY <1>1, <2>1, <2>2, <2>3, PutPaged
  <2>5. \A t \in tasks' : t.kind = "run" /\ t.seg = i /\ t.text = Blocks[i].text
    BY <1>1, <1>6 DEF Spawn
  <2>6. i \in DOMAIN Blocks' /\ Blocks'[i].text = Blocks[i].text
    <3>. HIDE DEF b
    <3>. QED  BY <1>2, <2>1, <2>4
  <2>7. \A t \in tasks' : Fits(t, Blocks')
    BY <2>5, <2>6 DEF Fits
  <2>. QED  BY <2>4, <2>7 DEF OrderParts
<1>. QED  BY <1>3, <1>4, <1>5, <1>6 DEF Execute

(* Folding the outcome of the only task into its block.                    *)
LEMMA LandedPaged ==
  ASSUME NEW b \in Block, NEW t \in Task, Paged(b), b.text = t.text,
         t.kind = "run" => t.offset = 0,
         t.kind = "more" => b.rows = <<>> \/ Len(b.rows) = t.offset
  PROVE  Paged(Landed(b, t)) /\ Landed(b, t).text = b.text
<1>1. CASE t.kind = "explain"
  BY <1>1 DEF Landed
<1>2. CASE t.kind = "run"
  <2>1. Landed(b, t) = Ran(b, t)
    BY <1>2 DEF Landed
  <2>2. Page(t) = [text |-> b.text, page |-> 1]
    BY <1>2 DEF Page
  <2>3. CASE Ok(t)
    <3>1. Ran(b, t).text = b.text /\ Ran(b, t).rows \in {<<>>, <<Page(t)>>}
      BY <2>3 DEF Ran, BlockNode
    <3>. QED  BY <2>1, <2>2, <3>1 DEF Paged
  <2>4. CASE ~Ok(t)
    BY <2>1, <2>4, FailedPaged DEF Ran
  <2>. QED  BY <2>3, <2>4
<1>3. CASE t.kind = "more"
  <2>1. Landed(b, t) = LoadedMore(b, t)
    BY <1>3 DEF Landed
  <2>2. CASE Ok(t) /\ t.text \in Reads /\ b.rows # <<>>
    <3>1. LoadedMore(b, t).text = b.text /\ LoadedMore(b, t).rows = Append(b.rows, Page(t))
      BY <2>2 DEF LoadedMore, BlockNode
    <3>2. b.rows \in Seq(Row) /\ Page(t) = [text |-> b.text, page |-> Len(b.rows) + 1]
      BY <1>3, <2>2 DEF Page, Block
    <3>3. \A n \in DOMAIN Append(b.rows, Page(t)) :
            Append(b.rows, Page(t))[n] = [text |-> b.text, page |-> n]
      BY <3>2 DEF Paged
    <3>. QED  BY <2>1, <3>1, <3>3 DEF Paged
  <2>3. CASE ~(Ok(t) /\ t.text \in Reads /\ b.rows # <<>>)
    BY <2>1, <2>3 DEF LoadedMore
  <2>. QED  BY <2>2, <2>3
<1>. QED  BY <1>1, <1>2, <1>3 DEF Task
(* A change while nothing is under way.                                    *)
LEMMA ChangePaged ==
  ASSUME TypeOK, OrderParts, upset' = {}, NEW blocks \in Seq(Block), NEW why, Change(blocks, why),
         \A j \in DOMAIN blocks : Paged(blocks[j])
  PROVE  OrderParts'
<1>1. tasks = {} /\ tasks' = {}
  BY DEF Change, Moved, taskVars
<1>2. active \in Files /\ docs \in [Files -> Seq(Block)] /\ docs' = [docs EXCEPT ![active] = blocks]
  BY DEF TypeOK, Change
<1>3. \A f \in Files : \A j \in DOMAIN docs'[f] : Paged(docs'[f][j])
  <2>. SUFFICES ASSUME NEW f \in Files, NEW j \in DOMAIN docs'[f] PROVE Paged(docs'[f][j])
    OBVIOUS
  <2>1. CASE f = active
    BY <1>2, <2>1
  <2>2. CASE f # active
    BY <1>2, <2>2 DEF OrderParts
  <2>. QED  BY <2>1, <2>2
<1>. QED  BY <1>1, <1>3 DEF OrderParts

LEMMA InitOrderInv == Init => OrderInv
<1>. SUFFICES ASSUME Init PROVE OrderParts
  BY InitCacheInv DEF OrderInv
<1>1. \A f \in Files : \A i \in DOMAIN docs[f] : docs[f][i].rows = <<>>
  BY QueryAssumption DEF Init, Fresh, BlockNode
<1>. QED  BY <1>1 DEF Init, OrderParts, Paged

LEMMA NextOrderInv == OrderInv /\ [Next]_vars => OrderInv'
<1>. SUFFICES ASSUME OrderInv, [Next]_vars, upset' = {} PROVE OrderParts'
  BY NextCacheInv DEF OrderInv
<1>1. upset = {}
  BY DEF Next, Run, ConfirmRun, CancelRun, Explain, LoadMore, Cancel, Finish, Handle, SaveCache,
         EditText, RemoveBlock, Reload, SwitchTab, Change, vars
<1>2. TypeOK /\ SlotIsTask /\ OwnKeys /\ ModalAlone /\ CacheInv /\ OrderParts
  BY <1>1 DEF OrderInv, CacheInv, SlotInv
<1>3. /\ active \in Files /\ docs \in [Files -> Seq(Block)]
      /\ Blocks \in Seq(Block) /\ \A i \in DOMAIN Blocks : Blocks[i] \in Block /\ Paged(Blocks[i])
  BY <1>2, BlocksType DEF TypeOK, OrderParts, Blocks
<1>4. CASE Run
  <2>1. PICK i \in DOMAIN Blocks : Execute(i, None)
    BY <1>4 DEF Run
  <2>. QED  BY <1>1, <1>2, <1>4, <2>1, ExecutePaged DEF Run
<1>5. CASE ConfirmRun
  <2>1. slot = None
    BY <1>2, <1>5 DEF ConfirmRun, ModalAlone
  <2>2. confirm.text \in Texts
    BY <1>2, <1>5 DEF ConfirmRun, TypeOK
  <2>3. CASE confirm.seg \in DOMAIN Blocks /\ Execute(confirm.seg, confirm.text)
    BY <1>1, <1>2, <1>5, <2>1, <2>2, <2>3, ExecutePaged DEF ConfirmRun
  <2>4. CASE confirm' = None /\ UNCHANGED <<docs, taskVars>>
    BY <1>2, <1>5, <2>4 DEF ConfirmRun, OrderParts, Blocks, taskVars
  <2>. QED  BY <1>5, <2>3, <2>4 DEF ConfirmRun
<1>6. CASE Explain
  <2>1. PICK i \in DOMAIN Blocks :
          \/ Preflight(i) /\ UNCHANGED upset
          \/ /\ Spawn(i, "explain", 0, None, None)
             /\ upset' = IF tasks = {} THEN upset ELSE upset \cup {"explain"}
             /\ UNCHANGED docs
    BY <1>6 DEF Explain
  <2>2. UNCHANGED active
    BY <1>6 DEF Explain
  <2>3. CASE Preflight(i)
    <3>1. docs' = [docs EXCEPT ![active][i] = Failed(Blocks[i])]
      BY <1>3, <2>3 DEF Preflight, Blocks
    <3>2. /\ \A f \in Files : \A j \in DOMAIN docs'[f] : Paged(docs'[f][j])
          /\ \A t \in tasks : Fits(t, Blocks')
      BY <1>2, <1>3, <2>2, <3>1, FailedType, FailedPaged, PutPaged
    <3>. QED  BY <2>3, <3>2 DEF OrderParts, Preflight, taskVars
  <2>4. CASE /\ Spawn(i, "explain", 0, None, None)
             /\ upset' = IF tasks = {} THEN upset ELSE upset \cup {"explain"}
             /\ UNCHANGED docs
    <3>1. tasks = {}
      BY <2>4
    <3>2. \A t \in tasks' : t.kind = "explain" /\ t.seg = i /\ t.text = Blocks[i].text
      BY <2>4, <3>1 DEF Spawn
    <3>3. \A t \in tasks' : Fits(t, Blocks)
      BY <3>2 DEF Fits
    <3>. QED  BY <1>2, <2>2, <2>4, <3>3 DEF OrderParts, Blocks
  <2>. QED  BY <2>1, <2>3, <2>4
<1>7. CASE LoadMore
  <2>1. PICK i \in DOMAIN Blocks : Spawn(i, "more", Len(Blocks[i].rows), None, None)
    BY <1>7 DEF LoadMore
  <2>2. tasks = {} /\ UNCHANGED docVars
    BY <1>1, <1>2, <1>7 DEF LoadMore, SlotIsTask
  <2>3. \A t \in tasks' : t.seg = i /\ t.text = Blocks[i].text /\ t.offset = Len(Blocks[i].rows)
    BY <2>1, <2>2 DEF Spawn
  <2>4. \A t \in tasks' : Fits(t, Blocks)
    BY <2>3 DEF Fits
  <2>. QED  BY <1>2, <2>2, <2>4 DEF OrderParts, Blocks, docVars
<1>8. CASE Cancel
  <2>1. PICK t \in tasks : tasks' = (tasks \ {t}) \cup {[t EXCEPT !.cancelled = TRUE]}
    BY <1>8 DEF Cancel
  <2> DEFINE new == [t EXCEPT !.cancelled = TRUE]
  <2>2. new.seg = t.seg /\ new.kind = t.kind /\ new.text = t.text /\ new.offset = t.offset
    BY <1>2 DEF TypeOK, Task
  <2>3. Fits(new, Blocks)
    <3>. HIDE DEF new
    <3>. QED  BY <1>2, <2>2 DEF OrderParts, Fits
  <2>4. \A u \in tasks' : Fits(u, Blocks)
    BY <1>2, <2>1, <2>3 DEF OrderParts
  <2>. QED  BY <1>2, <1>8, <2>4 DEF Cancel, OrderParts, Blocks, docVars
<1>9. ASSUME NEW id \in 1..MaxTasks, Finish(id) PROVE OrderParts'
  <2>1. PICK t \in tasks, out \in {None, "more", "last", "err"} :
          tasks' = (tasks \ {t}) \cup {[t EXCEPT !.out = out]}
    BY <1>9 DEF Finish, Outcomes
  <2> DEFINE new == [t EXCEPT !.out = out]
  <2>2. new.seg = t.seg /\ new.kind = t.kind /\ new.text = t.text /\ new.offset = t.offset
    BY <1>2 DEF TypeOK, Task
  <2>3. Fits(new, Blocks)
    <3>. HIDE DEF new
    <3>. QED  BY <1>2, <2>2 DEF OrderParts, Fits
  <2>4. \A u \in tasks' : Fits(u, Blocks)
    BY <1>2, <2>1, <2>3 DEF OrderParts
  <2>. QED  BY <1>2, <1>9, <2>4 DEF Finish, OrderParts, Blocks, docVars
<1>10. ASSUME NEW id \in 1..MaxTasks, Handle(id) PROVE OrderParts'
  <2>1. PICK t \in tasks :
          /\ tasks' = tasks \ {t}
          /\ docs' = IF t.seg \in DOMAIN Blocks
                       THEN [docs EXCEPT ![active][t.seg] = Landed(@, t)] ELSE docs
    BY <1>10 DEF Handle
  <2>2. t \in Task /\ tasks' = {} /\ UNCHANGED active
    BY <1>1, <1>2, <1>10, <2>1 DEF Handle, SlotIsTask, TypeOK
  <2>3. Fits(t, Blocks)
    BY <1>2 DEF OrderParts
  <2> DEFINE b == Landed(Blocks[t.seg], t)
  <2>4. t.seg \in DOMAIN Blocks /\ docs' = [docs EXCEPT ![active][t.seg] = b]
    BY <1>3, <2>1, <2>3 DEF Fits, Blocks
  <2>5. t.kind = "run" => t.offset = 0
    BY <1>2 DEF OwnKeys
  <2>6. b \in Block /\ Paged(b) /\ b.text = Blocks[t.seg].text
    BY <1>3, <2>2, <2>3, <2>4, <2>5, LandedType, LandedPaged DEF Fits
  <2>7. \A f \in Files : \A j \in DOMAIN docs'[f] : Paged(docs'[f][j])
    <3>. HIDE DEF b
    <3>1. {} \in SUBSET tasks
      OBVIOUS
    <3>. QED  BY <1>2, <2>2, <2>4, <2>6, <3>1, PutPaged
  <2>. QED  BY <2>2, <2>7 DEF OrderParts
<1>11. CASE CancelRun \/ SaveCache \/ UNCHANGED vars
  BY <1>2, <1>11 DEF CancelRun, SaveCache, vars, docVars, taskVars, OrderParts, Blocks
<1>12. CASE EditText
  <2>1. PICK i \in DOMAIN Blocks : \E text \in Texts \ {Blocks[i].text} :
          Change([Blocks EXCEPT ![i].text = text],
                 IF Blocks[i].rows = <<>> THEN {} ELSE {"edited"})
    BY <1>12 DEF EditText
  <2>2. PICK text \in Texts : Change([Blocks EXCEPT ![i].text = text],
                                     IF Blocks[i].rows = <<>> THEN {} ELSE {"edited"})
    BY <2>1
  <2> DEFINE b == [Blocks[i] EXCEPT !.text = text]
             blocks == [Blocks EXCEPT ![i].text = text]
             why == IF Blocks[i].rows = <<>> THEN {} ELSE {"edited"}
  <2>3. Blocks[i].rows = <<>>
    BY <2>2 DEF Change
  <2>4. b \in Block /\ b.rows = <<>>
    BY <1>3, <2>3 DEF Block
  <2>5. Paged(b)
    <3>. HIDE DEF b
    <3>. QED  BY <2>4 DEF Paged
  <2>6. blocks = [Blocks EXCEPT ![i] = b]
    OBVIOUS
  <2>7. blocks \in Seq(Block) /\ \A j \in DOMAIN blocks : Paged(blocks[j])
    <3>. HIDE DEF b, blocks
    <3>. QED  BY <1>3, <2>4, <2>5, <2>6
  <2>8. Change(blocks, why)
    BY <2>2
  <2>. QED
    <3>. HIDE DEF blocks, why
    <3>. QED  BY <1>2, <2>7, <2>8, ChangePaged
<1>13. CASE RemoveBlock
  <2>1. PICK i \in DOMAIN Blocks : Change(RemoveAt(Blocks, i), {})
    BY <1>13 DEF RemoveBlock
  <2>2. RemoveAt(Blocks, i) \in Seq(Block)
    BY <1>3, RemoveAtType
  <2>3. \A j \in DOMAIN RemoveAt(Blocks, i) : \E k \in DOMAIN Blocks : RemoveAt(Blocks, i)[j] = Blocks[k]
    BY <1>3, RemoveAtElements
  <2>. QED  BY <1>2, <1>3, <2>1, <2>2, <2>3, ChangePaged
<1>14. CASE Reload
  <2>1. PICK note \in Notes : Change(Fresh(note), {})
    BY <1>14 DEF Reload
  <2>2. Fresh(note) \in Seq(Block)
    BY QueryAssumption, FreshType
  <2>3. \A j \in DOMAIN Fresh(note) : Paged(Fresh(note)[j])
    BY DEF Fresh, BlockNode, Paged
  <2>. QED  BY <1>2, <2>1, <2>2, <2>3, ChangePaged
<1>15. CASE SwitchTab
  <2>1. tasks = {} /\ tasks' = {} /\ docs' = docs
    BY <1>15 DEF SwitchTab, Moved, taskVars
  <2>. QED  BY <1>2, <2>1 DEF OrderParts
<1>. QED  BY <1>4, <1>5, <1>6, <1>7, <1>8, <1>9, <1>10, <1>11, <1>12, <1>13, <1>14, <1>15 DEF Next

(* The rows of a block are the pages of one query, in order, while nothing *)
(* has upset the notes.                                                    *)
THEOREM PagesInOrderHolds == Spec => []PagesInOrder
<1>1. OrderInv => PagesInOrder
  <2>. SUFFICES ASSUME OrderInv, upset = {}, NEW f \in Files, NEW i \in DOMAIN docs[f],
                       NEW n \in DOMAIN docs[f][i].rows
                PROVE  docs[f][i].rows[n] = [text |-> docs[f][i].rows[1].text, page |-> n]
    BY DEF PagesInOrder
  <2>1. Paged(docs[f][i])
    BY DEF OrderInv, OrderParts
  <2>2. docs[f] \in Seq(Block)
    BY DEF OrderInv, CacheInv, SlotInv, TypeOK
  <2>3. docs[f][i] \in Block
    BY <2>2
  <2>4. docs[f][i].rows \in Seq(Row)
    BY <2>3 DEF Block
  <2>5. 1 \in DOMAIN docs[f][i].rows
    BY <2>4
  <2>6. docs[f][i].rows[1] = [text |-> docs[f][i].text, page |-> 1]
    BY <2>1, <2>5 DEF Paged
  <2>7. docs[f][i].rows[n] = [text |-> docs[f][i].text, page |-> n]
    BY <2>1 DEF Paged
  <2>. QED  BY <2>6, <2>7
<1>. QED  BY InitOrderInv, NextOrderInv, <1>1, PTL DEF Spec
=============================================================================
