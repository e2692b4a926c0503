---------------------------- MODULE PoolManager ----------------------------
(***************************************************************************)
(* PoolManager: the cache of database pools, keyed by connection name, the *)
(* commands that change a connection record, the switch of the vault, and  *)
(* the task that evicts idle pools.                                        *)
(*                                                                         *)
(* The store of the records is the one of ConnectionsStore, taken here as  *)
(* a file for each vault, with the version of the record of each           *)
(* connection: a look-up returns a version that was stored at some time    *)
(* during the look-up (ConnectionsStore, LoadIsCurrent).  The commands     *)
(* take no lock: each reads the whole file and writes the whole file, and  *)
(* others, or an editor, may write it in between.  What both modules have  *)
(* is called after the pool here, so that one module can extend the two.   *)
(***************************************************************************)
EXTENDS Naturals

CONSTANTS Vaults,
          Conns,       \* connection names
          Calls,       \* concurrent calls of get_pool
          Commands,    \* concurrent update, delete and create commands
          None,        \* nothing cached, nothing running
          MaxRecord    \* bound: record writes in a behaviour

RecordVersion == 1..MaxRecord                      \* 0: there is no such record

(* connections.toml of a vault.                                            *)
File == [Conns -> 0..MaxRecord]

NoFile == [c \in Conns |-> 0]

(* A pool is known by the record it was built from.  `blame` is history.   *)
(* raced: between look-up and insertion the record was written, or a       *)
(* delete had invalidated the cache and not yet removed the record.        *)
(* overwritten: one that invalidates nothing has changed the record since, *)
(* which is a create, a command on another connection that had read the    *)
(* file earlier, or an editor.                                             *)
Entry == [vault : Vaults, version : RecordVersion, expired : BOOLEAN,
          blame : {"none", "raced", "overwritten"}]

(* A get_pool call that missed the cache, before and after its look-up.    *)
Call == [pc : {"missed"}, conn : Conns]
        \cup [pc : {"found"}, conn : Conns, vault : Vaults, version : RecordVersion,
              raced : BOOLEAN]

(* create_connection checks the name, reads the file and saves it;         *)
(* update_connection reads, saves and invalidates; delete_connection       *)
(* invalidates, reads and saves.  file: what it has read.                  *)
Command == [kind : {"create", "update", "delete"},
            next : {"check", "read", "save", "invalidate"},
            vault : Vaults, conn : Conns, file : File]

ASSUME PoolAssumption == MaxRecord \in Nat /\ None \notin Entry \cup Call \cup Command

VARIABLES
  vault,     \* the active vault
  stored,    \* stored[v]: the file of vault v
  written,   \* number of versions written so far
  pools,     \* pools[c]: the PoolEntry
  call,      \* call[t]: the get_pool call of t
  command,   \* command[k]: the command of k
  toRemove   \* ids the clean-up task is about to remove

recordVars == <<vault, stored, written>>
poolVars == <<recordVars, pools, call, command, toRemove>>

PoolTypeOK ==
  /\ vault \in Vaults
  /\ stored \in [Vaults -> File]
  /\ written \in 0..MaxRecord
  /\ pools \in [Conns -> Entry \cup {None}]
  /\ call \in [Calls -> Call \cup {None}]
  /\ command \in [Commands -> Command \cup {None}]
  /\ toRemove \subseteq Conns

PoolInit ==
  /\ vault \in Vaults
  /\ stored = [v \in Vaults |-> NoFile]
  /\ written = 0
  /\ pools = [c \in Conns |-> None]
  /\ call = [t \in Calls |-> None]
  /\ command = [k \in Commands |-> None]
  /\ toRemove = {}

EndCommand(k) == command' = [command EXCEPT ![k] = None]
GoOn(k, next) == command' = [command EXCEPT ![k].next = next]

-----------------------------------------------------------------------------
(* get_pool.                                                               *)

(* The cache is checked under the write lock; a hit renews last_used.      *)
GetPool(t, c) ==
  /\ call[t] = None
  /\ \/ /\ pools[c] # None
        /\ pools' = [pools EXCEPT ![c].expired = FALSE]
        /\ UNCHANGED call
     \/ /\ pools[c] = None
        /\ call' = [call EXCEPT ![t] = [pc |-> "missed", conn |-> c]]
        /\ UNCHANGED pools
  /\ UNCHANGED <<recordVars, command, toRemove>>

Missed(t) == call[t] # None /\ call[t].pc = "missed"
Found(t)  == call[t] # None /\ call[t].pc = "found"

(* The look-up resolves the active vault, then the record.                 *)
Lookup(t) ==
  /\ Missed(t)
  /\ LET c == call[t].conn
     IN IF stored[vault][c] = 0
          THEN call' = [call EXCEPT ![t] = None]
          ELSE call' = [call EXCEPT ![t] = [pc |-> "found", conn |-> c, vault |-> vault,
                                            version |-> stored[vault][c], raced |-> FALSE]]
  /\ UNCHANGED <<recordVars, pools, command, toRemove>>

AboutToRemove(v, c) ==
  \E k \in Commands : /\ command[k] # None
                      /\ command[k].kind = "delete" /\ command[k].next \in {"read", "save"}
                      /\ command[k].vault = v /\ command[k].conn = c

(* create_pool succeeded: the entry is inserted over whatever is there.    *)
InsertPool(t) ==
  /\ Found(t)
  /\ pools' = [pools EXCEPT ![call[t].conn] =
                 [vault |-> call[t].vault, version |-> call[t].version, expired |-> FALSE,
                  blame |-> IF call[t].raced \/ AboutToRemove(call[t].vault, call[t].conn)
                              THEN "raced" ELSE "none"]]
  /\ call' = [call EXCEPT ![t] = None]
  /\ UNCHANGED <<recordVars, command, toRemove>>

CreatePoolFails(t) ==
  /\ Found(t)
  /\ call' = [call EXCEPT ![t] = None]
  /\ UNCHANGED <<recordVars, pools, command, toRemove>>

-----------------------------------------------------------------------------
(* The commands.                                                           *)

Begin(k, kind, c) ==
  /\ command[k] = None
  /\ command' = [command EXCEPT ![k] =
       [kind |-> kind, vault |-> vault, conn |-> c, file |-> NoFile,
        next |-> CASE kind = "create" -> "check" [] kind = "update" -> "read"
                   [] kind = "delete" -> "invalidate"]]
  /\ UNCHANGED <<recordVars, pools, call, toRemove>>

At(k, next) == command[k] # None /\ command[k].next = next

(* The record of the command in the file as it is now.                     *)
Record(k) == stored[command[k].vault][command[k].conn]

(* create refuses a name that is there by now.                             *)
Check(k) ==
  /\ At(k, "check")
  /\ IF Record(k) = 0 THEN GoOn(k, "read") ELSE EndCommand(k)
  /\ UNCHANGED <<recordVars, pools, call, toRemove>>

(* load_base_only; update and delete refuse a name that is not there.      *)
Read(k) ==
  /\ At(k, "read")
  /\ IF command[k].kind = "create" \/ Record(k) # 0
       THEN command' = [command EXCEPT ![k].next = "save",
                                       ![k].file = stored[command[k].vault]]
       ELSE EndCommand(k)
  /\ UNCHANGED <<recordVars, pools, call, toRemove>>

(* The file of vault v is written.  Calls that looked up a record that     *)
(* changes are overtaken; pools of such records are not invalidated,       *)
(* except by the command on a connection of `own`.                         *)
Rewrite(v, file, own) ==
  LET changed == {c \in Conns : file[c] # stored[v][c]}
  IN /\ stored' = [stored EXCEPT ![v] = file]
     /\ call' = [t \in Calls |->
                   IF Found(t) /\ call[t].vault = v /\ call[t].conn \in changed
                     THEN [call[t] EXCEPT !.raced = TRUE] ELSE call[t]]
     /\ pools' = [c \in Conns |->
                   IF /\ c \in changed \ own
                      /\ pools[c] # None /\ pools[c].vault = v /\ pools[c].blame = "none"
                     THEN [pools[c] EXCEPT !.blame = "overwritten"] ELSE pools[c]]

(* persist: the file that was read, with another record of the connection, *)
(* or without it.                                                          *)
PersistRecord(k, version) ==
  LET c == command[k].conn
  IN Rewrite(command[k].vault, [command[k].file EXCEPT ![c] = version],
             IF command[k].kind = "create" THEN {} ELSE {c})

NewVersion == written < MaxRecord /\ written' = written + 1

(* Mutant: update_connection does not invalidate.                  *)
SaveOnly(k) ==
  /\ At(k, "save") /\ command[k].kind # "delete"
  /\ NewVersion /\ PersistRecord(k, written + 1)
  /\ EndCommand(k)
  /\ UNCHANGED <<vault, toRemove>>

Save(k) ==
  /\ At(k, "save") /\ command[k].kind # "delete"
  /\ NewVersion /\ PersistRecord(k, written + 1)
  /\ IF command[k].kind = "update"
       THEN command' = [command EXCEPT ![k].next = "invalidate", ![k].file = NoFile]
       ELSE EndCommand(k)
  /\ UNCHANGED <<vault, toRemove>>

Remove(k) ==
  /\ At(k, "save") /\ command[k].kind = "delete"
  /\ PersistRecord(k, 0)
  /\ EndCommand(k)
  /\ UNCHANGED <<vault, written, toRemove>>

Invalidate(k) ==
  /\ At(k, "invalidate")
  /\ pools' = [pools EXCEPT ![command[k].conn] = None]
  /\ IF command[k].kind = "delete" THEN GoOn(k, "read") ELSE EndCommand(k)
  /\ UNCHANGED <<recordVars, call, toRemove>>

(* The store refuses: a file that cannot be read, the validator, or the    *)
(* write itself.                                                           *)
Refuse(k) ==
  /\ At(k, "check") \/ At(k, "read") \/ At(k, "save")
  /\ EndCommand(k)
  /\ UNCHANGED <<recordVars, pools, call, toRemove>>

(* An editor or a pull changes, adds or removes a record.                  *)
ExternalEdit(v, c) ==
  /\ \/ NewVersion /\ Rewrite(v, [stored[v] EXCEPT ![c] = written + 1], {})
     \/ stored[v][c] # 0 /\ Rewrite(v, [stored[v] EXCEPT ![c] = 0], {}) /\ UNCHANGED written
  /\ UNCHANGED <<vault, command, toRemove>>

(* switchVault: the pools stay.                                            *)
SwitchVault(v) ==
  /\ v # vault
  /\ vault' = v
  /\ UNCHANGED <<stored, written, pools, call, command, toRemove>>

-----------------------------------------------------------------------------
(* The clean-up task, every sixty seconds.                                 *)

TtlPasses(c) ==
  /\ pools[c] # None
  /\ ~ pools[c].expired
  /\ pools' = [pools EXCEPT ![c].expired = TRUE]
  /\ UNCHANGED <<recordVars, call, command, toRemove>>

(* Mutant: the comparison with the time to live is turned round.           *)
SnapshotFresh ==
  /\ toRemove = {}
  /\ toRemove' = {c \in Conns : pools[c] # None /\ ~ pools[c].expired}
  /\ toRemove' # {}
  /\ UNCHANGED <<recordVars, pools, call, command>>

(* cleanup_expired first notes the expired ids under the read lock ...     *)
Snapshot ==
  /\ toRemove = {}
  /\ toRemove' = {c \in Conns : pools[c] # None /\ pools[c].expired}
  /\ toRemove' # {}
  /\ UNCHANGED <<recordVars, pools, call, command>>

(* ... and then removes whatever these ids hold by now.                    *)
RemoveExpired ==
  /\ toRemove # {}
  /\ pools' = [c \in Conns |-> IF c \in toRemove THEN None ELSE pools[c]]
  /\ toRemove' = {}
  /\ UNCHANGED <<recordVars, call, command>>

-----------------------------------------------------------------------------
PoolNext ==
  \/ \E t \in Calls : \/ \E c \in Conns : GetPool(t, c)
                      \/ Lookup(t) \/ InsertPool(t) \/ CreatePoolFails(t)
  \/ \E k \in Commands : \/ \E kind \in {"create", "update", "delete"}, c \in Conns :
                              Begin(k, kind, c)
                         \/ Check(k) \/ Read(k) \/ Save(k) \/ Remove(k) \/ Invalidate(k)
                         \/ Refuse(k)
  \/ \E v \in Vaults : SwitchVault(v) \/ \E c \in Conns : ExternalEdit(v, c)
  \/ \E c \in Conns : TtlPasses(c)
  \/ Snapshot \/ RemoveExpired

PoolSpec == PoolInit /\ [][PoolNext]_poolVars

(* The clean-up loop never ends.                                           *)
PoolFairSpec == PoolSpec /\ WF_poolVars(Snapshot) /\ WF_poolVars(RemoveExpired)

-----------------------------------------------------------------------------
(* What the executors and the commands rely on.                            *)

Pending(v, c) ==
  \E k \in Commands : /\ command[k] # None
                      /\ command[k].vault = v
                      /\ command[k].conn = c
                      /\ command[k].kind = "update" /\ command[k].next = "invalidate"

(* A cached pool was built from the record as it is now, unless an update  *)
(* has yet to invalidate it, its get_pool call was overtaken by a write    *)
(* between look-up and insertion or slipped into a delete, or one that     *)
(* invalidates nothing has changed the record since: a create, the rewrite *)
(* of the file for another connection, or an editor.  So the order in      *)
(* update_connection (save, then invalidate) is right for every call that  *)
(* does not straddle the save, and the connection of an update or a delete *)
(* is never left with a pool of the old record in another way.             *)
OnlyRacesLeaveStale ==
  \A c \in Conns :
    pools[c] # None =>
      \/ pools[c].blame # "none"
      \/ pools[c].version = stored[pools[c].vault][c]
      \/ Pending(pools[c].vault, c)

(* A pool that nobody uses for its time to live is evicted, however often  *)
(* pools are rebuilt and invalidated.                                      *)
IdlePoolEvicted ==
  \A c \in Conns :
    (pools[c] # None /\ pools[c].expired) ~> (pools[c] = None \/ ~ pools[c].expired)

-----------------------------------------------------------------------------
(* What a test promises of the commands and the code does not keep.        *)

(* When no command is running and the pool of no record was overwritten by *)
(* one that invalidates nothing, the next get_pool call returns a pool     *)
(* built from the updated record, not a stale cached one.                  *)
NextPoolIsFresh ==
  \A c \in Conns :
    pools[c] # None /\ pools[c].blame # "overwritten" /\ (\A k \in Commands : command[k] = None)
      => \/ stored[pools[c].vault][c] = 0
         \/ pools[c].version = stored[pools[c].vault][c]
=============================================================================
