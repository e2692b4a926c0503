-------------------------- MODULE ConnectionsStore --------------------------
(***************************************************************************)
(* ConnectionsStore: the file-backed store of connections.toml and its     *)
(* override connections.local.toml, with the parse it caches under the     *)
(* modification times of both files.  Tasks load and mutate concurrently,  *)
(* and users, editors and git change the files behind their back.          *)
(*                                                                         *)
(* A version stands for the content of a file and, as every write gives    *)
(* the file a new time, for its modification time too; version 0 is the    *)
(* absent file, whose content is empty and whose time is None.             *)
(***************************************************************************)
EXTENDS Naturals

CONSTANTS Tasks,       \* concurrent calls of the store
          NoCache,     \* the cache is None
          MaxVersion   \* bound: writes to either file in a behaviour

Version == 0..MaxVersion
Pair    == [base : Version, local : Version]
Cached  == [mtime : Pair, file : Pair]

ASSUME StoreAssumption == MaxVersion \in Nat /\ NoCache \notin Cached

VARIABLES
  base,     \* version of connections.toml on disk
  local,    \* version of connections.local.toml on disk
  clock,    \* number of versions written so far
  cache,    \* the Cached entry, or NoCache
  pc,       \* pc[t]: the step the call of task t takes next
  creates,  \* creates[t]: the call is a create(), which loads and then mutates
  mtime,    \* mtime[t]: the modification times load() captured
  parsed,   \* parsed[t]: the contents load() read
  seen      \* history: the versions on disk since the call of t began

diskVars == <<base, local, clock>>
callVars == <<pc, creates, mtime, parsed, seen>>
vars == <<diskVars, cache, callVars>>

Step == {"idle", "statBase", "statLocal", "check", "readBase", "readLocal", "store",
         "return", "loadBaseOnly", "persist", "dropCache"}

TypeOK ==
  /\ base \in Version
  /\ local \in Version
  /\ clock \in Version
  /\ cache \in Cached \cup {NoCache}
  /\ pc \in [Tasks -> Step]
  /\ creates \in [Tasks -> BOOLEAN]
  /\ mtime \in [Tasks -> Pair]
  /\ parsed \in [Tasks -> Pair]
  /\ seen \in [Tasks -> [base : SUBSET Version, local : SUBSET Version]]

Nothing == [base |-> 0, local |-> 0]
Unseen  == [base |-> {}, local |-> {}]

Init ==
  /\ base \in {0, 1} \cap Version
  /\ local = 0
  /\ clock = base
  /\ cache = NoCache
  /\ pc = [t \in Tasks |-> "idle"]
  /\ creates = [t \in Tasks |-> FALSE]
  /\ mtime = [t \in Tasks |-> Nothing]
  /\ parsed = [t \in Tasks |-> Nothing]
  /\ seen = [t \in Tasks |-> Unseen]

Goto(t, step) == pc' = [pc EXCEPT ![t] = step]

(* The locals of load() go out of scope, the call of t goes on or returns. *)
Leave(t, step) ==
  /\ Goto(t, step)
  /\ creates' = [creates EXCEPT ![t] = FALSE]
  /\ mtime' = [mtime EXCEPT ![t] = Nothing]
  /\ parsed' = [parsed EXCEPT ![t] = Nothing]
  /\ seen' = [seen EXCEPT ![t] = Unseen]

Finish(t) == Leave(t, "idle")

(* The files become versions b and l; the running calls see it.            *)
DiskBecomes(b, l) ==
  /\ base' = b
  /\ local' = l
  /\ seen' = [t \in Tasks |->
                IF seen[t] = Unseen THEN Unseen
                ELSE [base |-> seen[t].base \cup {b}, local |-> seen[t].local \cup {l}]]

-----------------------------------------------------------------------------
(* load(): list, get and lookup return what it yields, create() goes on.   *)

BeginLoad(t) ==
  /\ pc[t] = "idle"
  /\ Goto(t, "statBase")
  /\ creates' \in {[creates EXCEPT ![t] = c] : c \in BOOLEAN}
  /\ seen' = [seen EXCEPT ![t] = [base |-> {base}, local |-> {local}]]
  /\ UNCHANGED <<diskVars, cache, mtime, parsed>>

StatBase(t) ==
  /\ pc[t] = "statBase"
  /\ mtime' = [mtime EXCEPT ![t].base = base]
  /\ Goto(t, "statLocal")
  /\ UNCHANGED <<diskVars, cache, creates, parsed, seen>>

StatLocal(t) ==
  /\ pc[t] = "statLocal"
  /\ mtime' = [mtime EXCEPT ![t].local = local]
  /\ Goto(t, "check")
  /\ UNCHANGED <<diskVars, cache, creates, parsed, seen>>

(* load() yields file: create() only looks whether the name is taken.      *)
Yield(t, file) ==
  IF creates[t]
    THEN Leave(t, "loadBaseOnly")
    ELSE /\ Goto(t, "return")
         /\ parsed' = [parsed EXCEPT ![t] = file]
         /\ UNCHANGED <<creates, mtime, seen>>

(* Mutant: only the time of the base file is compared.                     *)
CheckBaseOnly(t) ==
  /\ pc[t] = "check"
  /\ IF cache # NoCache /\ cache.mtime.base = mtime[t].base
       THEN Yield(t, cache.file)
       ELSE Goto(t, "readBase") /\ UNCHANGED <<creates, mtime, parsed, seen>>
  /\ UNCHANGED <<diskVars, cache>>

(* A hit needs both times unchanged.                                       *)
CheckCache(t) ==
  /\ pc[t] = "check"
  /\ IF cache # NoCache /\ cache.mtime = mtime[t]
       THEN Yield(t, cache.file)
       ELSE Goto(t, "readBase") /\ UNCHANGED <<creates, mtime, parsed, seen>>
  /\ UNCHANGED <<diskVars, cache>>

(* merge::load_with_local reads the base, then the override.               *)
ReadBase(t) ==
  /\ pc[t] = "readBase"
  /\ parsed' = [parsed EXCEPT ![t].base = base]
  /\ Goto(t, "readLocal")
  /\ UNCHANGED <<diskVars, cache, creates, mtime, seen>>

ReadLocal(t) ==
  /\ pc[t] = "readLocal"
  /\ parsed' = [parsed EXCEPT ![t].local = local]
  /\ Goto(t, "store")
  /\ UNCHANGED <<diskVars, cache, creates, mtime, seen>>

(* Mutant: the entry is stored under the times of now.                     *)
StoreUnderNewTimes(t) ==
  /\ pc[t] = "store"
  /\ cache' = [mtime |-> [base |-> base, local |-> local], file |-> parsed[t]]
  /\ Yield(t, parsed[t])
  /\ UNCHANGED diskVars

(* The entry is stored under the times captured before the files were read. *)
StoreCache(t) ==
  /\ pc[t] = "store"
  /\ cache' = [mtime |-> mtime[t], file |-> parsed[t]]
  /\ Yield(t, parsed[t])
  /\ UNCHANGED diskVars

Return(t) ==
  /\ pc[t] = "return"
  /\ Finish(t)
  /\ UNCHANGED <<diskVars, cache>>

-----------------------------------------------------------------------------
(* update(), delete() and the second half of create().                     *)

BeginMutation(t) ==
  /\ pc[t] = "idle"
  /\ Goto(t, "loadBaseOnly")
  /\ UNCHANGED <<diskVars, cache, creates, mtime, parsed, seen>>

(* load_base_only() reads a content that persist() does not look at again. *)
LoadBaseOnly(t) ==
  /\ pc[t] = "loadBaseOnly"
  /\ Goto(t, "persist")
  /\ UNCHANGED <<diskVars, cache, creates, mtime, parsed, seen>>

(* persist(): an atomic write of the base file, then the cache is dropped. *)
Persist(t) ==
  /\ pc[t] = "persist"
  /\ clock < MaxVersion
  /\ clock' = clock + 1
  /\ DiskBecomes(clock + 1, local)
  /\ Goto(t, "dropCache")
  /\ UNCHANGED <<cache, creates, mtime, parsed>>

DropCache(t) ==
  /\ pc[t] = "dropCache"
  /\ cache' = NoCache
  /\ Finish(t)
  /\ UNCHANGED diskVars

(* A file that cannot be read or parsed, a connection that exists or does  *)
(* not, a failed validation or write: the call ends with an error.         *)
Fail(t) ==
  /\ pc[t] \in {"readBase", "readLocal", "loadBaseOnly", "persist"}
  /\ Finish(t)
  /\ UNCHANGED <<diskVars, cache>>

-----------------------------------------------------------------------------
(* Editors and git: a file is written, or removed.                         *)

ExternalWrite ==
  /\ clock < MaxVersion
  /\ clock' = clock + 1
  /\ DiskBecomes(clock + 1, local) \/ DiskBecomes(base, clock + 1)
  /\ UNCHANGED <<cache, pc, creates, mtime, parsed>>

ExternalRemove ==
  /\ \/ base # 0 /\ DiskBecomes(0, local)
     \/ local # 0 /\ DiskBecomes(base, 0)
  /\ UNCHANGED <<clock, cache, pc, creates, mtime, parsed>>

-----------------------------------------------------------------------------
Load(t) == BeginLoad(t) \/ StatBase(t) \/ StatLocal(t) \/ CheckCache(t)
             \/ ReadBase(t) \/ ReadLocal(t) \/ StoreCache(t) \/ Return(t)
Mutate(t) == BeginMutation(t) \/ LoadBaseOnly(t) \/ Persist(t) \/ DropCache(t)

Next == \/ \E t \in Tasks : Load(t) \/ Mutate(t) \/ Fail(t)
        \/ ExternalWrite \/ ExternalRemove

Spec == Init /\ [][Next]_vars

-----------------------------------------------------------------------------
(* What a caller of the store relies on.                                   *)

(* A cached parse that still carries the times of the files on disk is the *)
(* parse of these files: load() may trust it.  Times are captured before   *)
(* the files are read, so a change in between leaves times that match      *)
(* nothing any more.  (Files that exist; see CacheFollowsDisk.)            *)
CacheSound ==
  cache # NoCache =>
    /\ base # 0 /\ cache.mtime.base = base => cache.file.base = base
    /\ local # 0 /\ cache.mtime.local = local => cache.file.local = local

(* A load returns, for each of the two files, a content it had at some     *)
(* time during the call, whatever other tasks and other programs do        *)
(* meanwhile (a file that was absent during the call excepted).            *)
LoadIsCurrent ==
  \A t \in Tasks :
    pc[t] = "return" =>
      /\ parsed[t].base \in seen[t].base \/ 0 \in seen[t].base
      /\ parsed[t].local \in seen[t].local \/ 0 \in seen[t].local

-----------------------------------------------------------------------------
(* What a comment promises and the code does not keep.                     *)

(* Keyed by the times of both files, the cache follows every external edit, *)
(* the removal of a file included.                                         *)
CacheFollowsDisk ==
  cache # NoCache /\ cache.mtime = [base |-> base, local |-> local]
    => cache.file = [base |-> base, local |-> local]
=============================================================================
