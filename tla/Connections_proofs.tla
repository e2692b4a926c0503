------------------------- MODULE Connections_proofs -------------------------
(***************************************************************************)
(* The store of connections and the pools that are built from its records. *)
(*                                                                         *)
(* For any number of tasks and of writes, the cache of ConnectionsStore is *)
(* sound and a load returns what the files held during the call.           *)
(*                                                                         *)
(* The argument: a write makes a version that nobody has seen, so a time   *)
(* captured by load() and still equal to the file's was the file's all     *)
(* along, in particular when load() read the content.  The invariant       *)
(* follows that from the capture of the times to the cached entry.         *)
(*                                                                         *)
(* For any vaults, connections, concurrent calls and commands, a pool in   *)
(* the cache of PoolManager is stale only for the reasons                  *)
(* OnlyRacesLeaveStale names.  The invariant adds what holds before a pool *)
(* gets into the cache and before a record is removed: a call holds the    *)
(* record as it is or has been overtaken by a write of the file, and a     *)
(* pool found in the cache while a delete of its record is between its     *)
(* steps has slipped in after the first.                                   *)
(***************************************************************************)
EXTENDS ConnectionsStore, PoolManager, TLAPS

(* Everything that carries a version carries one already written.          *)
Bounded ==
  /\ base <= clock /\ local <= clock
  /\ cache # NoCache => cache.mtime.base <= clock /\ cache.mtime.local <= clock
  /\ \A t \in Tasks : mtime[t].base <= clock /\ mtime[t].local <= clock

(* What a task has read so far goes with the times it captured.            *)
ReadSound ==
  \A t \in Tasks :
    /\ pc[t] \in {"readLocal", "store"} /\ base # 0 /\ mtime[t].base = base
         => parsed[t].base = base
    /\ pc[t] = "store" /\ local # 0 /\ mtime[t].local = local => parsed[t].local = local

IInv == Bounded /\ ReadSound /\ CacheSound

-----------------------------------------------------------------------------
(* Type correctness.                                                       *)

(* A record of two versions is a pair, and has no other fields.            *)
LEMMA PairType ==
  ASSUME NEW b \in Version, NEW l \in Version
  PROVE  /\ [base |-> b, local |-> l] \in Pair
         /\ [base |-> {b}, local |-> {l}] \in [base : SUBSET Version, local : SUBSET Version]
BY DEF Pair

(* Leaving load() puts its locals back to nothing, which is well typed.    *)
LEMMA LeaveType ==
  ASSUME TypeOK, NEW t \in Tasks, NEW step \in Step, Leave(t, step)
  PROVE  /\ pc' \in [Tasks -> Step]
         /\ creates' \in [Tasks -> BOOLEAN]
         /\ mtime' \in [Tasks -> Pair]
         /\ parsed' \in [Tasks -> Pair]
         /\ seen' \in [Tasks -> [base : SUBSET Version, local : SUBSET Version]]
<1>1. 0 \in Version
  BY StoreAssumption DEF Version
<1>2. Nothing \in Pair
  BY <1>1 DEF Nothing, Pair
<1>3. Unseen \in [base : SUBSET Version, local : SUBSET Version]
  BY DEF Unseen
<1>. QED  BY <1>2, <1>3 DEF TypeOK, Leave, Goto

(* So does what load() yields.                                             *)
LEMMA YieldType ==
  ASSUME TypeOK, NEW t \in Tasks, NEW file \in Pair, Yield(t, file)
  PROVE  /\ pc' \in [Tasks -> Step]
         /\ creates' \in [Tasks -> BOOLEAN]
         /\ mtime' \in [Tasks -> Pair]
         /\ parsed' \in [Tasks -> Pair]
         /\ seen' \in [Tasks -> [base : SUBSET Version, local : SUBSET Version]]
<1>1. CASE creates[t]
  BY <1>1, LeaveType DEF Yield, Step
<1>2. CASE ~ creates[t]
  BY <1>2 DEF Yield, Goto, TypeOK, Step
<1>. QED  BY <1>1, <1>2

(* A change on disk is remembered by the running calls.                    *)
LEMMA DiskType ==
  ASSUME TypeOK, NEW b \in Version, NEW l \in Version, DiskBecomes(b, l)
  PROVE  /\ base' \in Version /\ local' \in Version
         /\ seen' \in [Tasks -> [base : SUBSET Version, local : SUBSET Version]]
<1>1. Unseen \in [base : SUBSET Version, local : SUBSET Version]
  BY DEF Unseen
<1>. QED  BY <1>1 DEF TypeOK, DiskBecomes

(* The initial states are well typed.                                      *)
LEMMA InitType == Init => TypeOK
<1>1. 0 \in Version /\ (1 \in Version => 1 \in Version)
  BY StoreAssumption DEF Version
<1>2. Nothing \in Pair /\ Unseen \in [base : SUBSET Version, local : SUBSET Version]
  BY <1>1 DEF Nothing, Unseen, Pair
<1>. QED  BY <1>1, <1>2 DEF Init, TypeOK, Step

(* Every step keeps the types.                                             *)
LEMMA NextType == TypeOK /\ [Next]_vars => TypeOK'
<1> SUFFICES ASSUME TypeOK, [Next]_vars
             PROVE  TypeOK'
  OBVIOUS
<1>a. 0 \in Version
  BY StoreAssumption DEF Version
<1>1. ASSUME NEW t \in Tasks, BeginLoad(t)
      PROVE  TypeOK'
  <2>1. creates' \in [Tasks -> BOOLEAN]
    BY <1>1 DEF BeginLoad, TypeOK
  <2>2. seen' \in [Tasks -> [base : SUBSET Version, local : SUBSET Version]]
    BY <1>1, PairType DEF BeginLoad, TypeOK
  <2>. QED  BY <1>1, <2>1, <2>2 DEF BeginLoad, TypeOK, Goto, Step, diskVars
<1>2. ASSUME NEW t \in Tasks, StatBase(t)
      PROVE  TypeOK'
  BY <1>2 DEF StatBase, TypeOK, Goto, Step, diskVars, Pair
<1>3. ASSUME NEW t \in Tasks, StatLocal(t)
      PROVE  TypeOK'
  BY <1>3 DEF StatLocal, TypeOK, Goto, Step, diskVars, Pair
<1>4. ASSUME NEW t \in Tasks, CheckCache(t)
      PROVE  TypeOK'
  <2>1. CASE cache # NoCache /\ Yield(t, cache.file)
    <3>1. cache.file \in Pair
      BY <2>1 DEF TypeOK, Cached
    <3>. QED  BY <1>4, <2>1, <3>1, YieldType DEF CheckCache, TypeOK, diskVars
  <2>2. CASE Goto(t, "readBase") /\ UNCHANGED <<creates, mtime, parsed, seen>>
    BY <1>4, <2>2 DEF CheckCache, TypeOK, Goto, Step, diskVars
  <2>. QED  BY <1>4, <2>1, <2>2 DEF CheckCache
<1>5. ASSUME NEW t \in Tasks, ReadBase(t)
      PROVE  TypeOK'
  BY <1>5 DEF ReadBase, TypeOK, Goto, Step, diskVars, Pair
<1>6. ASSUME NEW t \in Tasks, ReadLocal(t)
      PROVE  TypeOK'
  BY <1>6 DEF ReadLocal, TypeOK, Goto, Step, diskVars, Pair
<1>7. ASSUME NEW t \in Tasks, StoreCache(t)
      PROVE  TypeOK'
  <2>1. cache' \in Cached
    BY <1>7 DEF StoreCache, TypeOK, Cached
  <2>2. parsed[t] \in Pair
    BY DEF TypeOK
  <2>. QED  BY <1>7, <2>1, <2>2, YieldType DEF StoreCache, TypeOK, diskVars
<1>8. ASSUME NEW t \in Tasks, Return(t) \/ DropCache(t) \/ Fail(t)
      PROVE  TypeOK'
  <2>1. Leave(t, "idle") /\ UNCHANGED diskVars /\ cache' \in {cache, NoCache}
    BY <1>8 DEF Return, DropCache, Fail, Finish
  <2>. QED  BY <2>1, LeaveType DEF TypeOK, Step, diskVars
<1>9. ASSUME NEW t \in Tasks, BeginMutation(t) \/ LoadBaseOnly(t)
      PROVE  TypeOK'
  BY <1>9 DEF BeginMutation, LoadBaseOnly, TypeOK, Goto, Step, diskVars
<1>10. ASSUME NEW t \in Tasks, Persist(t)
       PROVE  TypeOK'
  <2>1. clock + 1 \in Version /\ local \in Version
    BY <1>10, StoreAssumption DEF Persist, TypeOK, Version
  <2>. QED  BY <1>10, <2>1, DiskType DEF Persist, TypeOK, Goto, Step
<1>11. CASE ExternalWrite
  <2>1. clock + 1 \in Version /\ local \in Version /\ base \in Version
    BY <1>11, StoreAssumption DEF ExternalWrite, TypeOK, Version
  <2>. QED  BY <1>11, <2>1, DiskType DEF ExternalWrite, TypeOK
<1>12. CASE ExternalRemove
  <2>1. local \in Version /\ base \in Version
    BY DEF TypeOK
  <2>. QED  BY <1>12, <1>a, <2>1, DiskType DEF ExternalRemove, TypeOK
<1>13. CASE UNCHANGED vars
  BY <1>13 DEF TypeOK, vars, diskVars, callVars
<1>. QED  BY <1>1, <1>2, <1>3, <1>4, <1>5, <1>6, <1>7, <1>8, <1>9, <1>10, <1>11, <1>12, <1>13
          DEF Next, Load, Mutate

(* Whatever the number of tasks and of writes, every variable keeps its    *)
(* type.                                                                   *)
THEOREM TypeCorrect == Spec => []TypeOK
BY InitType, NextType, PTL DEF Spec

-----------------------------------------------------------------------------
(* Soundness of the cache.                                                 *)

(* Soundness survives a change on disk: a file that changes becomes absent *)
(* or gets a version that is in no captured time.                          *)
LEMMA DiskInv ==
  ASSUME TypeOK, IInv, clock' \in Nat, clock' >= clock, UNCHANGED <<cache, mtime, parsed>>,
         base' \in {base, 0} \/ (base' = clock' /\ clock' = clock + 1),
         local' \in {local, 0} \/ (local' = clock' /\ clock' = clock + 1),
         \A t \in Tasks : pc'[t] \in {"readLocal", "store"} => pc'[t] = pc[t]
  PROVE  IInv'
<1>. USE StoreAssumption DEF Version
<1>1. Bounded'
  BY DEF TypeOK, IInv, Bounded, Cached, Pair
<1>2. \A v \in Version : v <= clock /\ base' # 0 /\ v = base' => base' = base
  BY DEF TypeOK
<1>3. \A v \in Version : v <= clock /\ local' # 0 /\ v = local' => local' = local
  BY DEF TypeOK
<1>4. ReadSound'
  <2> SUFFICES ASSUME NEW t \in Tasks
               PROVE  /\ pc'[t] \in {"readLocal", "store"} /\ base' # 0 /\ mtime[t].base = base'
                           => parsed[t].base = base'
                      /\ pc'[t] = "store" /\ local' # 0 /\ mtime[t].local = local'
                           => parsed[t].local = local'
    BY DEF ReadSound
  <2>1. mtime[t].base \in Version /\ mtime[t].local \in Version
    BY DEF TypeOK, Pair
  <2>. QED  BY <1>2, <1>3, <2>1 DEF IInv, Bounded, ReadSound
<1>5. CacheSound'
  <2> SUFFICES ASSUME cache # NoCache
               PROVE  /\ base' # 0 /\ cache.mtime.base = base' => cache.file.base = base'
                      /\ local' # 0 /\ cache.mtime.local = local' => cache.file.local = local'
    BY DEF CacheSound
  <2>1. cache.mtime.base \in Version /\ cache.mtime.local \in Version
    BY DEF TypeOK, Cached, Pair
  <2>. QED  BY <1>2, <1>3, <2>1 DEF IInv, Bounded, CacheSound
<1>. QED  BY <1>1, <1>4, <1>5 DEF IInv

(* A call that leaves load(), or goes on without its contents, keeps the   *)
(* invariant if the cache keeps its own part.                              *)
LEMMA LeaveInv ==
  ASSUME TypeOK, IInv, NEW t \in Tasks, NEW step \in Step \ {"readLocal", "store"},
         Leave(t, step), UNCHANGED diskVars, cache' \in {cache, NoCache}
  PROVE  IInv'
BY StoreAssumption DEF TypeOK, IInv, Bounded, ReadSound, CacheSound, Leave, Goto, Nothing,
   diskVars, Version

(* The same for what load() yields.                                        *)
LEMMA YieldInv ==
  ASSUME TypeOK, IInv, NEW t \in Tasks, NEW file \in Pair, Yield(t, file),
         UNCHANGED diskVars, UNCHANGED cache
  PROVE  IInv'
<1>1. CASE creates[t]
  BY <1>1, LeaveInv DEF Yield, Step
<1>2. CASE ~ creates[t]
  BY <1>2 DEF Yield, Goto, TypeOK, IInv, Bounded, ReadSound, CacheSound, diskVars
<1>. QED  BY <1>1, <1>2

(* The initial states satisfy the invariant.                               *)
LEMMA InitInv == Init => IInv
BY StoreAssumption DEF Init, IInv, Bounded, ReadSound, CacheSound, Nothing, Version

(* Every step preserves the invariant.                                     *)
LEMMA NextInv == TypeOK /\ IInv /\ [Next]_vars => IInv'
<1> SUFFICES ASSUME TypeOK, IInv, [Next]_vars
             PROVE  IInv'
  OBVIOUS
<1>1. ASSUME NEW t \in Tasks, BeginLoad(t)
      PROVE  IInv'
  BY <1>1 DEF BeginLoad, TypeOK, IInv, Bounded, ReadSound, CacheSound, Goto, diskVars
<1>2. ASSUME NEW t \in Tasks, StatBase(t)
      PROVE  IInv'
  BY <1>2 DEF StatBase, TypeOK, IInv, Bounded, ReadSound, CacheSound, Goto, diskVars, Pair
<1>3. ASSUME NEW t \in Tasks, StatLocal(t)
      PROVE  IInv'
  BY <1>3 DEF StatLocal, TypeOK, IInv, Bounded, ReadSound, CacheSound, Goto, diskVars, Pair
<1>4. ASSUME NEW t \in Tasks, CheckCache(t)
      PROVE  IInv'
  <2>1. CASE cache # NoCache /\ Yield(t, cache.file)
    <3>1. cache.file \in Pair
      BY <2>1 DEF TypeOK, Cached
    <3>. QED  BY <1>4, <2>1, <3>1, YieldInv DEF CheckCache
  <2>2. CASE Goto(t, "readBase") /\ UNCHANGED <<creates, mtime, parsed, seen>>
    BY <1>4, <2>2 DEF CheckCache, TypeOK, IInv, Bounded, ReadSound, CacheSound, Goto, diskVars
  <2>. QED  BY <1>4, <2>1, <2>2 DEF CheckCache
<1>5. ASSUME NEW t \in Tasks, ReadBase(t)
      PROVE  IInv'
  BY <1>5 DEF ReadBase, TypeOK, IInv, Bounded, ReadSound, CacheSound, Goto, diskVars, Pair
<1>6. ASSUME NEW t \in Tasks, ReadLocal(t)
      PROVE  IInv'
  BY <1>6 DEF ReadLocal, TypeOK, IInv, Bounded, ReadSound, CacheSound, Goto, diskVars, Pair
<1>7. ASSUME NEW t \in Tasks, StoreCache(t)
      PROVE  IInv'
  <2>1. cache' # NoCache /\ cache'.mtime = mtime[t] /\ cache'.file = parsed[t]
    BY <1>7, StoreAssumption DEF StoreCache, TypeOK, Cached
  <2>2. UNCHANGED <<base, local, clock>> /\ pc[t] = "store" /\ Yield(t, parsed[t])
    BY <1>7 DEF StoreCache, diskVars
  <2>3. CacheSound'
    BY <2>1, <2>2 DEF CacheSound, IInv, ReadSound
  <2>4. CASE creates[t]
    <3>1. Leave(t, "loadBaseOnly")
      BY <2>2, <2>4 DEF Yield
    <3>2. Bounded' /\ ReadSound'
      BY <2>1, <2>2, <3>1, StoreAssumption DEF Leave, Goto, Nothing, TypeOK, IInv, Bounded,
         ReadSound, Version
    <3>. QED  BY <2>3, <3>2 DEF IInv
  <2>5. CASE ~ creates[t]
    <3>1. pc' = [pc EXCEPT ![t] = "return"] /\ parsed' = [parsed EXCEPT ![t] = parsed[t]]
          /\ UNCHANGED mtime
      BY <2>2, <2>5 DEF Yield, Goto
    <3>2. Bounded' /\ ReadSound'
      BY <2>1, <2>2, <3>1 DEF TypeOK, IInv, Bounded, ReadSound
    <3>. QED  BY <2>3, <3>2 DEF IInv
  <2>. QED  BY <2>4, <2>5
<1>8. ASSUME NEW t \in Tasks, Return(t) \/ DropCache(t) \/ Fail(t)
      PROVE  IInv'
  <2>1. Leave(t, "idle") /\ UNCHANGED diskVars /\ cache' \in {cache, NoCache}
    BY <1>8 DEF Return, DropCache, Fail, Finish
  <2>. QED  BY <2>1, LeaveInv DEF Step
<1>9. ASSUME NEW t \in Tasks, BeginMutation(t) \/ LoadBaseOnly(t)
      PROVE  IInv'
  BY <1>9 DEF BeginMutation, LoadBaseOnly, TypeOK, IInv, Bounded, ReadSound, CacheSound, Goto,
     diskVars
<1>10. ASSUME NEW t \in Tasks, Persist(t)
       PROVE  IInv'
  <2>1. clock' \in Nat /\ clock' >= clock
    BY <1>10 DEF Persist, TypeOK, Version
  <2>. QED  BY <1>10, <2>1, DiskInv DEF Persist, DiskBecomes, Goto, TypeOK
<1>11. CASE ExternalWrite
  <2>1. clock' \in Nat /\ clock' >= clock
    BY <1>11 DEF ExternalWrite, TypeOK, Version
  <2>. QED  BY <1>11, <2>1, DiskInv DEF ExternalWrite, DiskBecomes
<1>12. CASE ExternalRemove
  <2>1. clock' \in Nat /\ clock' >= clock
    BY <1>12 DEF ExternalRemove, TypeOK, Version
  <2>2. base' \in {base, 0} /\ local' \in {local, 0} /\ UNCHANGED <<clock, cache, pc, mtime, parsed>>
    BY <1>12 DEF ExternalRemove, DiskBecomes
  <2>3. \A t \in Tasks : pc'[t] \in {"readLocal", "store"} => pc'[t] = pc[t]
    BY <2>2
  <2>4. UNCHANGED <<cache, mtime, parsed>>
    BY <2>2
  <2>. QED  BY <2>1, <2>2, <2>3, <2>4, DiskInv
<1>13. CASE UNCHANGED vars
  BY <1>13 DEF vars, diskVars, callVars, TypeOK, IInv, Bounded, ReadSound, CacheSound
<1>. QED  BY <1>1, <1>2, <1>3, <1>4, <1>5, <1>6, <1>7, <1>8, <1>9, <1>10, <1>11, <1>12, <1>13
          DEF Next, Load, Mutate

(* A cached parse whose times are those of the files is the parse of these *)
(* files, whatever loads, writes and external edits interleave.            *)
THEOREM CacheSoundHolds == Spec => []CacheSound
<1>1. TypeOK /\ IInv => CacheSound
  BY DEF IInv
<1>. QED  BY <1>1, InitInv, NextInv, TypeCorrect, PTL DEF Spec

-----------------------------------------------------------------------------
(* Loads return what the files held during the call.                       *)

Loading == {"statBase", "statLocal", "check", "readBase", "readLocal", "store", "return"}
TimedBase  == {"statLocal", "check", "readBase", "readLocal", "store"}
TimedLocal == {"check", "readBase", "readLocal", "store"}

(* A call that loads has seen the files as they are.                       *)
SeenNow ==
  \A t \in Tasks : pc[t] \in Loading => base \in seen[t].base /\ local \in seen[t].local

(* The call of t captured a time of the base file during the call, and a   *)
(* content that somebody stores or will store under this time was on disk  *)
(* at this time or later, hence during the call of t.                      *)
BaseKnown ==
  \A t \in Tasks :
    pc[t] \in TimedBase =>
      /\ mtime[t].base \in seen[t].base
      /\ mtime[t].base # 0 =>
           /\ cache # NoCache /\ cache.mtime.base = mtime[t].base
                => cache.file.base \in seen[t].base
           /\ \A x \in Tasks :
                pc[x] \in {"readLocal", "store"} /\ mtime[x].base = mtime[t].base
                  => parsed[x].base \in seen[t].base

(* The same for the override file.                                         *)
LocalKnown ==
  \A t \in Tasks :
    pc[t] \in TimedLocal =>
      /\ mtime[t].local \in seen[t].local
      /\ mtime[t].local # 0 =>
           /\ cache # NoCache /\ cache.mtime.local = mtime[t].local
                => cache.file.local \in seen[t].local
           /\ \A x \in Tasks :
                pc[x] = "store" /\ mtime[x].local = mtime[t].local
                  => parsed[x].local \in seen[t].local

LInv == SeenNow /\ BaseKnown /\ LocalKnown /\ LoadIsCurrent

(* A change on disk only adds to what the calls have seen.                 *)
LEMMA DiskSeen ==
  ASSUME TypeOK, LInv, NEW b \in Version, NEW l \in Version, DiskBecomes(b, l),
         UNCHANGED <<cache, mtime, parsed>>,
         \A t \in Tasks : pc'[t] = pc[t] \/ pc'[t] \notin Loading
  PROVE  LInv'
<1>1. base' = b /\ local' = l
  BY DEF DiskBecomes
<1>2. ASSUME NEW t \in Tasks, pc'[t] \in Loading
      PROVE  /\ pc'[t] = pc[t]
             /\ seen'[t].base = seen[t].base \cup {b} /\ seen'[t].local = seen[t].local \cup {l}
  <2>1. base \in seen[t].base
    BY <1>2 DEF LInv, SeenNow
  <2>2. seen[t] # Unseen
    BY <2>1 DEF Unseen
  <2>. QED  BY <1>2, <2>2 DEF DiskBecomes
<1>3. SeenNow'
  BY <1>1, <1>2 DEF SeenNow
<1>4. BaseKnown'
  BY <1>2 DEF LInv, BaseKnown, TimedBase, Loading
<1>5. LocalKnown'
  BY <1>2 DEF LInv, LocalKnown, TimedLocal, Loading
<1>6. LoadIsCurrent'
  BY <1>2 DEF LInv, LoadIsCurrent, Loading
<1>. QED  BY <1>3, <1>4, <1>5, <1>6 DEF LInv

(* A call that leaves load() has nothing to show any more.                 *)
LEMMA LeaveSeen ==
  ASSUME TypeOK, LInv, NEW t \in Tasks, NEW step \in Step \ Loading,
         Leave(t, step), UNCHANGED diskVars,
         cache' = NoCache \/ UNCHANGED cache
           \/ (pc[t] = "store" /\ cache'.mtime = mtime[t] /\ cache'.file = parsed[t])
  PROVE  LInv'
<1>1. pc'[t] \notin Loading
  BY DEF Leave, Goto, TypeOK
<1>2. \A x \in Tasks \ {t} : /\ pc'[x] = pc[x] /\ mtime'[x] = mtime[x]
                            /\ parsed'[x] = parsed[x] /\ seen'[x] = seen[x]
  BY DEF Leave, Goto, TypeOK
<1>3. SeenNow'
  BY <1>1, <1>2 DEF LInv, SeenNow, diskVars
<1>4. BaseKnown'
  BY <1>1, <1>2 DEF LInv, BaseKnown, TimedBase, Loading
<1>5. LocalKnown'
  BY <1>1, <1>2 DEF LInv, LocalKnown, TimedLocal, Loading
<1>6. LoadIsCurrent'
  BY <1>1, <1>2 DEF LInv, LoadIsCurrent, Loading
<1>. QED  BY <1>3, <1>4, <1>5, <1>6 DEF LInv

(* A call to which load() yields a content it may return.                  *)
LEMMA YieldSeen ==
  ASSUME TypeOK, LInv, NEW t \in Tasks, NEW file \in Pair, Yield(t, file),
         UNCHANGED diskVars,
         pc[t] \in {"check", "store"},
         file.base \in seen[t].base \/ 0 \in seen[t].base,
         file.local \in seen[t].local \/ 0 \in seen[t].local,
         UNCHANGED cache
           \/ (pc[t] = "store" /\ cache'.mtime = mtime[t] /\ cache'.file = parsed[t])
  PROVE  LInv'
<1>1. CASE creates[t]
  BY <1>1, LeaveSeen DEF Yield, Step, Loading
<1>2. CASE ~ creates[t]
  <2>1. /\ pc' = [pc EXCEPT ![t] = "return"] /\ parsed' = [parsed EXCEPT ![t] = file]
        /\ UNCHANGED <<mtime, seen, base, local>>
    BY <1>2 DEF Yield, Goto, diskVars
  <2>2. SeenNow'
    BY <2>1 DEF TypeOK, LInv, SeenNow, Loading
  <2>3. BaseKnown'
    BY <2>1 DEF TypeOK, LInv, BaseKnown, TimedBase
  <2>4. LocalKnown'
    BY <2>1 DEF TypeOK, LInv, LocalKnown, TimedLocal
  <2>5. LoadIsCurrent'
    BY <2>1 DEF TypeOK, LInv, LoadIsCurrent
  <2>. QED  BY <2>2, <2>3, <2>4, <2>5 DEF LInv
<1>. QED  BY <1>1, <1>2

(* The initial states satisfy the invariant.                               *)
LEMMA InitSeen == Init => LInv
BY DEF Init, LInv, SeenNow, BaseKnown, LocalKnown, LoadIsCurrent, Loading, TimedBase, TimedLocal

(* Capturing a time: what is stored, or will be, under the file's time is  *)
(* the file's content (IInv), which the call has seen.                     *)
LEMMA StatSeen ==
  ASSUME TypeOK, IInv, LInv, NEW t \in Tasks, StatBase(t) \/ StatLocal(t)
  PROVE  LInv'
<1>1. UNCHANGED <<base, local, cache, parsed, seen>>
  BY DEF StatBase, StatLocal, diskVars
<1>2. CASE StatBase(t)
  <2>1. /\ pc' = [pc EXCEPT ![t] = "statLocal"] /\ mtime' = [mtime EXCEPT ![t].base = base]
        /\ pc[t] = "statBase"
    BY <1>2 DEF StatBase, Goto
  <2>2. SeenNow' /\ LoadIsCurrent'
    BY <1>1, <2>1 DEF TypeOK, LInv, SeenNow, LoadIsCurrent, Loading
  <2>3. \A x \in Tasks : mtime'[x].local = mtime[x].local
    BY <2>1 DEF TypeOK, Pair
  <2>4. LocalKnown'
    BY <1>1, <2>1, <2>3 DEF TypeOK, LInv, LocalKnown, TimedLocal
  <2>5. mtime'[t].base = base /\ \A x \in Tasks \ {t} : mtime'[x] = mtime[x] /\ pc'[x] = pc[x]
    BY <2>1 DEF TypeOK, Pair
  <2>6. base \in seen[t].base
    BY <2>1 DEF LInv, SeenNow, Loading
  <2>7. pc'[t] = "statLocal"
    BY <2>1 DEF TypeOK
  <2>8. BaseKnown'
    <3>1. base # 0 => /\ cache # NoCache /\ cache.mtime.base = base
                            => cache.file.base \in seen[t].base
                      /\ \A x \in Tasks \ {t} :
                           pc[x] \in {"readLocal", "store"} /\ mtime[x].base = base
                             => parsed[x].base \in seen[t].base
      BY <2>6 DEF IInv, CacheSound, ReadSound
    <3>. QED  BY <1>1, <2>5, <2>6, <2>7, <3>1 DEF LInv, BaseKnown, TimedBase
  <2>. QED  BY <2>2, <2>4, <2>8 DEF LInv
<1>3. CASE StatLocal(t)
  <2>1. /\ pc' = [pc EXCEPT ![t] = "check"] /\ mtime' = [mtime EXCEPT ![t].local = local]
        /\ pc[t] = "statLocal"
    BY <1>3 DEF StatLocal, Goto
  <2>2. SeenNow' /\ LoadIsCurrent'
    BY <1>1, <2>1 DEF TypeOK, LInv, SeenNow, LoadIsCurrent, Loading
  <2>3. \A x \in Tasks : mtime'[x].base = mtime[x].base
    BY <2>1 DEF TypeOK, Pair
  <2>4. BaseKnown'
    BY <1>1, <2>1, <2>3 DEF TypeOK, LInv, BaseKnown, TimedBase
  <2>5. mtime'[t].local = local /\ \A x \in Tasks \ {t} : mtime'[x] = mtime[x] /\ pc'[x] = pc[x]
    BY <2>1 DEF TypeOK, Pair
  <2>6. local \in seen[t].local
    BY <2>1 DEF LInv, SeenNow, Loading
  <2>7. pc'[t] = "check"
    BY <2>1 DEF TypeOK
  <2>8. LocalKnown'
    <3>1. local # 0 => /\ cache # NoCache /\ cache.mtime.local = local
                             => cache.file.local \in seen[t].local
                       /\ \A x \in Tasks \ {t} :
                            pc[x] = "store" /\ mtime[x].local = local
                              => parsed[x].local \in seen[t].local
      BY <2>6 DEF IInv, CacheSound, ReadSound
    <3>. QED  BY <1>1, <2>5, <2>6, <2>7, <3>1 DEF LInv, LocalKnown, TimedLocal
  <2>. QED  BY <2>2, <2>4, <2>8 DEF LInv
<1>. QED  BY <1>2, <1>3

(* Reading: every running call has seen the files as they are.             *)
LEMMA ReadSeen ==
  ASSUME TypeOK, LInv, NEW t \in Tasks, ReadBase(t) \/ ReadLocal(t)
  PROVE  LInv'
<1>1. UNCHANGED <<base, local, cache, mtime, seen>>
  BY DEF ReadBase, ReadLocal, diskVars
<1>2. CASE ReadBase(t)
  <2>1. /\ pc' = [pc EXCEPT ![t] = "readLocal"] /\ parsed' = [parsed EXCEPT ![t].base = base]
        /\ pc[t] = "readBase"
    BY <1>2 DEF ReadBase, Goto
  <2>2. SeenNow' /\ LoadIsCurrent'
    BY <1>1, <2>1 DEF TypeOK, LInv, SeenNow, LoadIsCurrent, Loading
  <2>3. parsed'[t].base = base /\ \A x \in Tasks \ {t} : parsed'[x] = parsed[x] /\ pc'[x] = pc[x]
    BY <2>1 DEF TypeOK, Pair
  <2>4. pc'[t] = "readLocal"
    BY <2>1 DEF TypeOK
  <2>5. BaseKnown'
    BY <1>1, <2>1, <2>3, <2>4 DEF LInv, SeenNow, BaseKnown, TimedBase, Loading
  <2>6. LocalKnown'
    BY <1>1, <2>1, <2>3, <2>4 DEF LInv, LocalKnown, TimedLocal
  <2>. QED  BY <2>2, <2>5, <2>6 DEF LInv
<1>3. CASE ReadLocal(t)
  <2>1. /\ pc' = [pc EXCEPT ![t] = "store"] /\ parsed' = [parsed EXCEPT ![t].local = local]
        /\ pc[t] = "readLocal"
    BY <1>3 DEF ReadLocal, Goto
  <2>2. SeenNow' /\ LoadIsCurrent'
    BY <1>1, <2>1 DEF TypeOK, LInv, SeenNow, LoadIsCurrent, Loading
  <2>3. /\ parsed'[t].local = local /\ parsed'[t].base = parsed[t].base
        /\ \A x \in Tasks \ {t} : parsed'[x] = parsed[x] /\ pc'[x] = pc[x]
    BY <2>1 DEF TypeOK, Pair
  <2>4. pc'[t] = "store"
    BY <2>1 DEF TypeOK
  <2>5. BaseKnown'
    BY <1>1, <2>1, <2>3, <2>4 DEF LInv, BaseKnown, TimedBase
  <2>6. LocalKnown'
    BY <1>1, <2>1, <2>3, <2>4 DEF LInv, SeenNow, LocalKnown, TimedLocal, Loading
  <2>. QED  BY <2>2, <2>5, <2>6 DEF LInv
<1>. QED  BY <1>2, <1>3

(* Every step preserves the invariant.                                     *)
LEMMA NextSeen == TypeOK /\ IInv /\ LInv /\ [Next]_vars => LInv'
<1> SUFFICES ASSUME TypeOK, IInv, LInv, [Next]_vars
             PROVE  LInv'
  OBVIOUS
<1>1. ASSUME NEW t \in Tasks, BeginLoad(t)
      PROVE  LInv'
  <2>1. /\ pc' = [pc EXCEPT ![t] = "statBase"] /\ UNCHANGED <<base, local, cache, mtime, parsed>>
        /\ seen' = [seen EXCEPT ![t] = [base |-> {base}, local |-> {local}]]
    BY <1>1 DEF BeginLoad, Goto, diskVars
  <2>2. SeenNow' /\ LoadIsCurrent'
    BY <2>1 DEF TypeOK, LInv, SeenNow, LoadIsCurrent, Loading
  <2>3. BaseKnown' /\ LocalKnown'
    BY <2>1 DEF TypeOK, LInv, BaseKnown, LocalKnown, TimedBase, TimedLocal
  <2>. QED  BY <2>2, <2>3 DEF LInv
<1>2. ASSUME NEW t \in Tasks, StatBase(t) \/ StatLocal(t)
      PROVE  LInv'
  BY <1>2, StatSeen
<1>3. ASSUME NEW t \in Tasks, CheckCache(t)
      PROVE  LInv'
  <2>1. CASE cache # NoCache /\ cache.mtime = mtime[t]
    <3>1. Yield(t, cache.file) /\ UNCHANGED diskVars /\ UNCHANGED cache /\ pc[t] = "check"
      BY <1>3, <2>1 DEF CheckCache, diskVars
    <3>2. /\ cache.file.base \in seen[t].base \/ 0 \in seen[t].base
          /\ cache.file.local \in seen[t].local \/ 0 \in seen[t].local
      BY <2>1, <3>1 DEF LInv, BaseKnown, LocalKnown, TimedBase, TimedLocal
    <3>3. cache.file \in Pair
      BY <2>1 DEF TypeOK, Cached
    <3>. QED  BY <3>1, <3>2, <3>3, YieldSeen
  <2>2. CASE ~ (cache # NoCache /\ cache.mtime = mtime[t])
    <3>1. /\ pc' = [pc EXCEPT ![t] = "readBase"] /\ pc[t] = "check"
          /\ UNCHANGED <<base, local, cache, mtime, parsed, seen>>
      BY <1>3, <2>2 DEF CheckCache, Goto, diskVars
    <3>2. SeenNow' /\ LoadIsCurrent'
      BY <3>1 DEF TypeOK, LInv, SeenNow, LoadIsCurrent, Loading
    <3>3. BaseKnown' /\ LocalKnown'
      BY <3>1 DEF TypeOK, LInv, BaseKnown, LocalKnown, TimedBase, TimedLocal
    <3>. QED  BY <3>2, <3>3 DEF LInv
  <2>. QED  BY <2>1, <2>2
<1>4. ASSUME NEW t \in Tasks, ReadBase(t) \/ ReadLocal(t)
      PROVE  LInv'
  BY <1>4, ReadSeen
<1>5. ASSUME NEW t \in Tasks, StoreCache(t)
      PROVE  LInv'
  <2>1. /\ pc[t] = "store" /\ Yield(t, parsed[t]) /\ UNCHANGED diskVars
        /\ cache'.mtime = mtime[t] /\ cache'.file = parsed[t]
    BY <1>5 DEF StoreCache
  <2>2. /\ parsed[t].base \in seen[t].base \/ 0 \in seen[t].base
        /\ parsed[t].local \in seen[t].local \/ 0 \in seen[t].local
    BY <2>1 DEF LInv, BaseKnown, LocalKnown, TimedBase, TimedLocal
  <2>3. parsed[t] \in Pair
    BY DEF TypeOK
  <2>. QED  BY <2>1, <2>2, <2>3, YieldSeen
<1>6. ASSUME NEW t \in Tasks, Return(t) \/ DropCache(t) \/ Fail(t)
      PROVE  LInv'
  <2>1. Leave(t, "idle") /\ UNCHANGED diskVars /\ (cache' = NoCache \/ UNCHANGED cache)
    BY <1>6 DEF Return, DropCache, Fail, Finish, diskVars
  <2>2. "idle" \in Step \ Loading
    BY DEF Step, Loading
  <2>. QED  BY <2>1, <2>2, LeaveSeen
<1>7. ASSUME NEW t \in Tasks, BeginMutation(t) \/ LoadBaseOnly(t)
      PROVE  LInv'
  <2>1. /\ pc'[t] \notin Loading /\ \A x \in Tasks \ {t} : pc'[x] = pc[x]
        /\ UNCHANGED <<base, local, cache, mtime, parsed, seen>>
    BY <1>7 DEF BeginMutation, LoadBaseOnly, Goto, TypeOK, Loading, diskVars
  <2>2. SeenNow' /\ LoadIsCurrent'
    BY <2>1 DEF LInv, SeenNow, LoadIsCurrent, Loading
  <2>3. BaseKnown' /\ LocalKnown'
    BY <2>1 DEF LInv, BaseKnown, LocalKnown, TimedBase, TimedLocal, Loading
  <2>. QED  BY <2>2, <2>3 DEF LInv
<1>8. ASSUME NEW t \in Tasks, Persist(t)
      PROVE  LInv'
  <2>1. clock + 1 \in Version /\ local \in Version
    BY <1>8, StoreAssumption DEF Persist, TypeOK, Version
  <2>2. \A x \in Tasks : pc'[x] = pc[x] \/ pc'[x] \notin Loading
    BY <1>8 DEF Persist, Goto, TypeOK, Loading
  <2>. QED  BY <1>8, <2>1, <2>2, DiskSeen DEF Persist
<1>9. CASE ExternalWrite
  <2>1. clock + 1 \in Version /\ local \in Version /\ base \in Version
    BY <1>9, StoreAssumption DEF ExternalWrite, TypeOK, Version
  <2>. QED  BY <1>9, <2>1, DiskSeen DEF ExternalWrite
<1>10. CASE ExternalRemove
  <2>1. 0 \in Version /\ local \in Version /\ base \in Version
    BY StoreAssumption DEF TypeOK, Version
  <2>. QED  BY <1>10, <2>1, DiskSeen DEF ExternalRemove
<1>11. CASE UNCHANGED vars
  BY <1>11 DEF vars, diskVars, callVars, LInv, SeenNow, BaseKnown, LocalKnown, LoadIsCurrent
<1>. QED  BY <1>1, <1>2, <1>3, <1>4, <1>5, <1>6, <1>7, <1>8, <1>9, <1>10, <1>11
          DEF Next, Load, Mutate

(* A load, from the cache or from the files, returns contents the files    *)
(* had during the call.                                                    *)
THEOREM LoadIsCurrentHolds == Spec => []LoadIsCurrent
<1>1. LInv => LoadIsCurrent
  BY DEF LInv
<1>. QED  BY <1>1, InitInv, NextInv, InitSeen, NextSeen, TypeCorrect, PTL DEF Spec
-----------------------------------------------------------------------------
(* The pools.                                                              *)

CallFresh ==
  \A t \in Calls :
    Found(t) => call[t].raced \/ call[t].version = stored[call[t].vault][call[t].conn]

SlippedIn ==
  \A c \in Conns :
    pools[c] # None /\ AboutToRemove(pools[c].vault, c) => pools[c].blame = "raced"

OnlyCreatesCheck ==
  \A k \in Commands :
    command[k] # None /\ command[k].next = "check" => command[k].kind = "create"

PoolInv == CallFresh /\ SlippedIn /\ OnlyRacesLeaveStale

-----------------------------------------------------------------------------
(* Type correctness.                                                       *)

(* A command that runs has the fields of a command.                        *)
LEMMA CommandFields ==
  ASSUME PoolTypeOK, NEW k \in Commands, command[k] # None
  PROVE  /\ command[k] \in Command
         /\ command[k].vault \in Vaults
         /\ command[k].conn \in Conns
         /\ command[k].kind \in {"create", "update", "delete"}
         /\ command[k].file \in File
BY DEF PoolTypeOK, Command

(* A command that goes on is another one, of the same kind, vault and      *)
(* connection.                                                             *)
LEMMA GoOnFields ==
  ASSUME PoolTypeOK, NEW k \in Commands, command[k] # None,
         NEW n \in {"check", "read", "save", "invalidate"}, NEW f \in File,
         command' = [command EXCEPT ![k].next = n, ![k].file = f]
  PROVE  /\ command' \in [Commands -> Command \cup {None}]
         /\ command'[k] # None
         /\ command'[k].next = n
         /\ command'[k].kind = command[k].kind
         /\ command'[k].vault = command[k].vault
         /\ command'[k].conn = command[k].conn
         /\ \A j \in Commands \ {k} : command'[j] = command[j]
<1> DEFINE m == [[command[k] EXCEPT !.next = n] EXCEPT !.file = f]
<1>1. m \in Command
  BY CommandFields DEF Command
<1>2. /\ m.next = n /\ m.kind = command[k].kind
      /\ m.vault = command[k].vault /\ m.conn = command[k].conn
  BY CommandFields DEF Command
<1>3. command' = [command EXCEPT ![k] = m]
  BY DEF PoolTypeOK
<1> HIDE DEF m
<1>4. command'[k] = m /\ \A j \in Commands \ {k} : command'[j] = command[j]
  BY <1>3 DEF PoolTypeOK
<1>5. command' \in [Commands -> Command \cup {None}]
  BY <1>1, <1>3 DEF PoolTypeOK
<1>. QED  BY <1>1, <1>2, <1>4, <1>5, PoolAssumption

(* The same of a command that keeps what it has read.                      *)
LEMMA GoOnStep ==
  ASSUME PoolTypeOK, NEW k \in Commands, command[k] # None,
         NEW n \in {"check", "read", "save", "invalidate"}, GoOn(k, n)
  PROVE  /\ command' \in [Commands -> Command \cup {None}]
         /\ command'[k] # None
         /\ command'[k].next = n
         /\ command'[k].kind = command[k].kind
         /\ command'[k].vault = command[k].vault
         /\ command'[k].conn = command[k].conn
         /\ \A j \in Commands \ {k} : command'[j] = command[j]
<1> DEFINE m == [command[k] EXCEPT !.next = n]
<1>1. m \in Command
  BY CommandFields DEF Command
<1>2. /\ m.next = n /\ m.kind = command[k].kind
      /\ m.vault = command[k].vault /\ m.conn = command[k].conn
  BY CommandFields DEF Command
<1>3. command' = [command EXCEPT ![k] = m]
  BY DEF GoOn
<1> HIDE DEF m
<1>4. command'[k] = m /\ \A j \in Commands \ {k} : command'[j] = command[j]
  BY <1>3 DEF PoolTypeOK
<1>5. command' \in [Commands -> Command \cup {None}]
  BY <1>1, <1>3 DEF PoolTypeOK
<1>. QED  BY <1>1, <1>2, <1>4, <1>5, PoolAssumption

(* A command that ends leaves the others alone.                            *)
LEMMA EndFields ==
  ASSUME PoolTypeOK, NEW k \in Commands, EndCommand(k)
  PROVE  /\ command' \in [Commands -> Command \cup {None}]
         /\ command'[k] = None
         /\ \A j \in Commands \ {k} : command'[j] = command[j]
BY DEF PoolTypeOK, EndCommand

(* A call that has its record has the fields of such a call.               *)
LEMMA CallFields ==
  ASSUME PoolTypeOK, NEW t \in Calls, Found(t)
  PROVE  /\ call[t] \in [pc : {"found"}, conn : Conns, vault : Vaults, version : RecordVersion,
                         raced : BOOLEAN]
         /\ call[t].conn \in Conns /\ call[t].vault \in Vaults /\ call[t].version \in RecordVersion
         /\ call[t].raced \in BOOLEAN
<1>1. call[t] \in Call
  BY DEF PoolTypeOK, Found
<1>2. call[t].pc = "found"
  BY DEF Found
<1>3. call[t] \notin [pc : {"missed"}, conn : Conns]
  BY <1>2
<1>4. call[t] \in [pc : {"found"}, conn : Conns, vault : Vaults, version : RecordVersion,
                   raced : BOOLEAN]
  BY <1>1, <1>3 DEF Call
<1>. QED  BY <1>4

(* What writing the file of a vault does to a pool: nothing, or the blame  *)
(* for a change that invalidates nothing.                                  *)
LEMMA RewritePools ==
  ASSUME PoolTypeOK, NEW v \in Vaults, NEW file \in File, NEW own, Rewrite(v, file, own),
         NEW c \in Conns
  PROVE  \/ /\ pools'[c] = pools[c]
            /\ \/ pools[c] = None \/ pools[c].vault # v \/ pools[c].blame # "none"
               \/ c \in own \/ file[c] = stored[v][c]
         \/ /\ pools[c] # None /\ pools[c].blame = "none"
            /\ pools'[c] = [pools[c] EXCEPT !.blame = "overwritten"]
            /\ pools'[c] \in Entry /\ pools'[c].blame = "overwritten"
            /\ pools'[c].vault = pools[c].vault
<1>1. CASE /\ file[c] # stored[v][c] /\ c \notin own
           /\ pools[c] # None /\ pools[c].vault = v /\ pools[c].blame = "none"
  <2>1. pools'[c] = [pools[c] EXCEPT !.blame = "overwritten"]
    BY <1>1 DEF Rewrite
  <2>2. pools[c] \in Entry
    BY <1>1 DEF PoolTypeOK
  <2>. QED  BY <1>1, <2>1, <2>2 DEF Entry
<1>2. CASE ~ (/\ file[c] # stored[v][c] /\ c \notin own
              /\ pools[c] # None /\ pools[c].vault = v /\ pools[c].blame = "none")
  <2>1. pools'[c] = pools[c]
    BY <1>2 DEF Rewrite
  <2>. QED  BY <1>2, <2>1
<1>. QED  BY <1>1, <1>2

(* Writing a file keeps the types.                                         *)
LEMMA RewriteType ==
  ASSUME PoolTypeOK, NEW v \in Vaults, NEW file \in File, NEW own, Rewrite(v, file, own)
  PROVE  /\ stored' \in [Vaults -> File]
         /\ call' \in [Calls -> Call \cup {None}]
         /\ pools' \in [Conns -> Entry \cup {None}]
<1>1. stored' \in [Vaults -> File]
  BY DEF PoolTypeOK, Rewrite
<1>2. ASSUME NEW t \in Calls, Found(t)
      PROVE  [call[t] EXCEPT !.raced = TRUE] \in Call
  <2>1. [call[t] EXCEPT !.raced = TRUE]
          \in [pc : {"found"}, conn : Conns, vault : Vaults, version : RecordVersion,
               raced : BOOLEAN]
    BY <1>2, CallFields
  <2>. QED  BY <2>1 DEF Call
<1>3. call' \in [Calls -> Call \cup {None}]
  BY <1>2 DEF PoolTypeOK, Rewrite
<1>4. \A c \in Conns : pools'[c] \in Entry \cup {None}
  BY RewritePools DEF PoolTypeOK
<1>5. pools' = [c \in Conns |-> pools'[c]]
  BY DEF Rewrite
<1>6. pools' \in [Conns -> Entry \cup {None}]
  BY <1>4, <1>5
<1>. QED  BY <1>1, <1>3, <1>6

(* What a command writes is a file.                                        *)
LEMMA RecordFile ==
  ASSUME PoolTypeOK, NEW k \in Commands, command[k] # None, NEW n \in 0..MaxRecord
  PROVE  [command[k].file EXCEPT ![command[k].conn] = n] \in File
BY CommandFields DEF File

(* The initial states are well typed.                                      *)
LEMMA InitPoolType == PoolInit => PoolTypeOK
<1>1. 0 \in 0..MaxRecord
  BY PoolAssumption
<1>2. NoFile \in File
  BY <1>1 DEF NoFile, File
<1>. QED  BY <1>1, <1>2 DEF PoolInit, PoolTypeOK

(* Every step keeps the types.                                             *)
LEMMA NextPoolType == PoolTypeOK /\ [PoolNext]_poolVars => PoolTypeOK'
<1> SUFFICES ASSUME PoolTypeOK, [PoolNext]_poolVars
             PROVE  PoolTypeOK'
  OBVIOUS
<1>0. NoFile \in File
  BY PoolAssumption DEF NoFile, File
<1>1. ASSUME NEW t \in Calls, NEW c \in Conns, GetPool(t, c)
      PROVE  PoolTypeOK'
  <2>1. CASE pools[c] # None /\ pools' = [pools EXCEPT ![c].expired = FALSE] /\ UNCHANGED call
    <3>1. [pools[c] EXCEPT !.expired = FALSE] \in Entry
      BY <2>1 DEF PoolTypeOK, Entry
    <3>. QED  BY <1>1, <2>1, <3>1 DEF GetPool, PoolTypeOK, recordVars
  <2>2. CASE call' = [call EXCEPT ![t] = [pc |-> "missed", conn |-> c]] /\ UNCHANGED pools
    <3>1. [pc |-> "missed", conn |-> c] \in Call
      BY DEF Call
    <3>. QED  BY <1>1, <2>2, <3>1 DEF GetPool, PoolTypeOK, recordVars
  <2>. QED  BY <1>1, <2>1, <2>2 DEF GetPool
<1>2. ASSUME NEW t \in Calls, Lookup(t)
      PROVE  PoolTypeOK'
  <2> DEFINE c == call[t].conn
             f == [pc |-> "found", conn |-> c, vault |-> vault,
                   version |-> stored[vault][c], raced |-> FALSE]
  <2>1. c \in Conns
    BY <1>2 DEF Lookup, Missed, PoolTypeOK, Call
  <2>2. CASE stored[vault][c] = 0
    BY <1>2, <2>2 DEF Lookup, PoolTypeOK, recordVars
  <2>3. CASE stored[vault][c] # 0
    <3>1. stored[vault][c] \in RecordVersion
      BY <2>1, <2>3, PoolAssumption DEF PoolTypeOK, RecordVersion, File
    <3>2. f \in Call
      BY <2>1, <3>1 DEF PoolTypeOK, Call
    <3>3. call' = [call EXCEPT ![t] = f]
      BY <1>2, <2>3 DEF Lookup
    <3> HIDE DEF f
    <3>. QED  BY <1>2, <3>2, <3>3 DEF Lookup, PoolTypeOK, recordVars
  <2>. QED  BY <2>2, <2>3
<1>3. ASSUME NEW t \in Calls, InsertPool(t)
      PROVE  PoolTypeOK'
  <2> DEFINE b == IF call[t].raced \/ AboutToRemove(call[t].vault, call[t].conn)
                    THEN "raced" ELSE "none"
             e == [vault |-> call[t].vault, version |-> call[t].version, expired |-> FALSE,
                   blame |-> b]
  <2>1. Found(t)
    BY <1>3 DEF InsertPool
  <2>2. b \in {"none", "raced", "overwritten"}
    OBVIOUS
  <2> HIDE DEF b
  <2>3. e \in Entry
    BY <2>1, <2>2, CallFields DEF Entry
  <2>4. pools' = [pools EXCEPT ![call[t].conn] = e]
    BY <1>3 DEF InsertPool, b
  <2> HIDE DEF e
  <2>. QED  BY <1>3, <2>1, <2>3, <2>4, CallFields DEF InsertPool, PoolTypeOK, recordVars
<1>4. ASSUME NEW t \in Calls, CreatePoolFails(t)
      PROVE  PoolTypeOK'
  BY <1>4 DEF CreatePoolFails, PoolTypeOK, recordVars
<1>5. ASSUME NEW k \in Commands, NEW kind \in {"create", "update", "delete"}, NEW c \in Conns,
             Begin(k, kind, c)
      PROVE  PoolTypeOK'
  <2> DEFINE n == CASE kind = "create" -> "check" [] kind = "update" -> "read"
                    [] kind = "delete" -> "invalidate"
             m == [kind |-> kind, vault |-> vault, conn |-> c, file |-> NoFile, next |-> n]
  <2>1. n \in {"check", "read", "save", "invalidate"}
    OBVIOUS
  <2> HIDE DEF n
  <2>2. m \in Command
    BY <1>0, <2>1 DEF PoolTypeOK, Command
  <2>3. command' = [command EXCEPT ![k] = m]
    BY <1>5 DEF Begin, n
  <2> HIDE DEF m
  <2>. QED  BY <1>5, <2>2, <2>3 DEF Begin, PoolTypeOK, recordVars
<1>6. ASSUME NEW k \in Commands, Check(k)
      PROVE  PoolTypeOK'
  <2>1. command[k] # None
    BY <1>6 DEF Check, At
  <2>2. command' \in [Commands -> Command \cup {None}]
    BY <1>6, <2>1, CommandFields, GoOnStep, EndFields DEF Check
  <2>. QED  BY <1>6, <2>2 DEF Check, PoolTypeOK, recordVars
<1>7. ASSUME NEW k \in Commands, Read(k)
      PROVE  PoolTypeOK'
  <2>1. command[k] # None /\ stored[command[k].vault] \in File
    BY <1>7, CommandFields DEF Read, At, PoolTypeOK
  <2>2. command' \in [Commands -> Command \cup {None}]
    BY <1>7, <2>1, GoOnFields, EndFields DEF Read
  <2>. QED  BY <1>7, <2>2 DEF Read, PoolTypeOK, recordVars
<1>8. ASSUME NEW k \in Commands, Save(k)
      PROVE  PoolTypeOK'
  <2>1. command[k] # None /\ written + 1 \in 0..MaxRecord /\ written' = written + 1
    BY <1>8, PoolAssumption DEF Save, At, PoolTypeOK, NewVersion
  <2>2. command' \in [Commands -> Command \cup {None}]
    BY <1>0, <1>8, <2>1, GoOnFields, EndFields DEF Save
  <2>3. /\ stored' \in [Vaults -> File] /\ call' \in [Calls -> Call \cup {None}]
        /\ pools' \in [Conns -> Entry \cup {None}]
    BY <1>8, <2>1, CommandFields, RecordFile, RewriteType DEF Save, PersistRecord
  <2>. QED  BY <1>8, <2>1, <2>2, <2>3 DEF Save, PoolTypeOK
<1>9. ASSUME NEW k \in Commands, Remove(k)
      PROVE  PoolTypeOK'
  <2>1. command[k] # None /\ 0 \in 0..MaxRecord
    BY <1>9, PoolAssumption DEF Remove, At
  <2>2. /\ stored' \in [Vaults -> File] /\ call' \in [Calls -> Call \cup {None}]
        /\ pools' \in [Conns -> Entry \cup {None}]
    BY <1>9, <2>1, CommandFields, RecordFile, RewriteType DEF Remove, PersistRecord
  <2>. QED  BY <1>9, <2>2, EndFields DEF Remove, PoolTypeOK
<1>10. ASSUME NEW k \in Commands, Invalidate(k)
       PROVE  PoolTypeOK'
  <2>1. command[k] # None
    BY <1>10 DEF Invalidate, At
  <2>2. command' \in [Commands -> Command \cup {None}]
    BY <1>10, <2>1, CommandFields, GoOnStep, EndFields DEF Invalidate
  <2>. QED  BY <1>10, <2>1, <2>2, CommandFields DEF Invalidate, PoolTypeOK, recordVars
<1>11. ASSUME NEW k \in Commands, Refuse(k)
       PROVE  PoolTypeOK'
  BY <1>11, EndFields DEF Refuse, PoolTypeOK, recordVars
<1>12. ASSUME NEW v \in Vaults, NEW c \in Conns, ExternalEdit(v, c)
       PROVE  PoolTypeOK'
  <2>1. CASE NewVersion /\ Rewrite(v, [stored[v] EXCEPT ![c] = written + 1], {})
    <3>1. written + 1 \in 0..MaxRecord /\ written' = written + 1
      BY <2>1, PoolAssumption DEF PoolTypeOK, NewVersion
    <3>2. [stored[v] EXCEPT ![c] = written + 1] \in File
      BY <3>1 DEF PoolTypeOK, File
    <3>. QED  BY <1>12, <2>1, <3>1, <3>2, RewriteType DEF ExternalEdit, PoolTypeOK
  <2>2. CASE Rewrite(v, [stored[v] EXCEPT ![c] = 0], {}) /\ UNCHANGED written
    <3>1. [stored[v] EXCEPT ![c] = 0] \in File
      BY PoolAssumption DEF PoolTypeOK, File
    <3>. QED  BY <1>12, <2>2, <3>1, RewriteType DEF ExternalEdit, PoolTypeOK
  <2>. QED  BY <1>12, <2>1, <2>2 DEF ExternalEdit
<1>13. ASSUME NEW v \in Vaults, SwitchVault(v)
       PROVE  PoolTypeOK'
  BY <1>13 DEF SwitchVault, PoolTypeOK
<1>14. ASSUME NEW c \in Conns, TtlPasses(c)
       PROVE  PoolTypeOK'
  <2>1. [pools[c] EXCEPT !.expired = TRUE] \in Entry
    BY <1>14 DEF TtlPasses, PoolTypeOK, Entry
  <2>. QED  BY <1>14, <2>1 DEF TtlPasses, PoolTypeOK, recordVars
<1>15. CASE Snapshot
  BY <1>15 DEF Snapshot, PoolTypeOK, recordVars
<1>16. CASE RemoveExpired
  BY <1>16 DEF RemoveExpired, PoolTypeOK, recordVars
<1>17. CASE UNCHANGED poolVars
  BY <1>17 DEF poolVars, recordVars, PoolTypeOK
<1>. QED  BY <1>1, <1>2, <1>3, <1>4, <1>5, <1>6, <1>7, <1>8, <1>9, <1>10, <1>11, <1>12, <1>13,
             <1>14, <1>15, <1>16, <1>17 DEF PoolNext

(* Whatever the numbers of vaults, connections, calls and commands, every  *)
(* variable keeps its type.                                                *)
THEOREM PoolTypeCorrect == PoolSpec => []PoolTypeOK
BY InitPoolType, NextPoolType, PTL DEF PoolSpec

-----------------------------------------------------------------------------
(* Freshness.                                                              *)

(* Steps that only take pools away, renew or age them.                     *)
LEMMA PoolsInv ==
  ASSUME PoolTypeOK, PoolInv, UNCHANGED <<stored, call, command>>,
         \A c \in Conns : pools'[c] # None =>
           pools[c] # None /\ pools'[c].vault = pools[c].vault
           /\ pools'[c].version = pools[c].version /\ pools'[c].blame = pools[c].blame
  PROVE  PoolInv'
<1>1. CallFresh'
  BY DEF PoolInv, CallFresh, Found
<1>2. SlippedIn'
  BY DEF PoolInv, SlippedIn, AboutToRemove
<1>3. OnlyRacesLeaveStale'
  BY DEF PoolInv, OnlyRacesLeaveStale, Pending
<1>. QED  BY <1>1, <1>2, <1>3 DEF PoolInv

(* Steps of a call that hold no record afterwards, or the one stored now.  *)
LEMMA CallsInv ==
  ASSUME PoolTypeOK, PoolInv, UNCHANGED <<stored, pools, command>>,
         \A t \in Calls : \/ call'[t] = call[t]
                          \/ ~ Found(t)'
                          \/ call'[t].version = stored[call'[t].vault][call'[t].conn]
  PROVE  PoolInv'
<1>1. CallFresh'
  BY DEF PoolInv, CallFresh, Found
<1>2. SlippedIn' /\ OnlyRacesLeaveStale'
  BY DEF PoolInv, SlippedIn, AboutToRemove, OnlyRacesLeaveStale, Pending
<1>. QED  BY <1>1, <1>2 DEF PoolInv

(* Steps of a command before it writes or invalidates: it is no further in *)
(* a delete than it was, and was not about to invalidate after an update.  *)
LEMMA CommandsInv ==
  ASSUME PoolTypeOK, PoolInv, UNCHANGED <<stored, pools, call>>, NEW k \in Commands,
         \A j \in Commands \ {k} : command'[j] = command[j],
         ~ (command[k] # None /\ command[k].kind = "update" /\ command[k].next = "invalidate"),
         \/ command'[k] = None
         \/ command'[k].kind # "delete"
         \/ command'[k].next \notin {"read", "save"}
         \/ /\ command[k] # None /\ command[k].kind = "delete"
            /\ command[k].next \in {"read", "save"}
            /\ command'[k].vault = command[k].vault /\ command'[k].conn = command[k].conn
  PROVE  PoolInv'
<1>1. \A v, d : AboutToRemove(v, d)' => AboutToRemove(v, d)
  BY DEF AboutToRemove
<1>2. \A v, d : Pending(v, d) => Pending(v, d)'
  BY DEF Pending
<1>3. CallFresh'
  BY DEF PoolInv, CallFresh, Found
<1>4. SlippedIn'
  BY <1>1 DEF PoolInv, SlippedIn
<1>5. OnlyRacesLeaveStale'
  BY <1>2 DEF PoolInv, OnlyRacesLeaveStale
<1>. QED  BY <1>3, <1>4, <1>5 DEF PoolInv

(* The initial states satisfy the invariant.                               *)
LEMMA InitPoolInv == PoolInit => PoolInv
BY DEF PoolInit, PoolInv, CallFresh, SlippedIn, OnlyRacesLeaveStale, Found

(* After a write of a file every call that holds a record of it that has   *)
(* changed is overtaken.                                                   *)
LEMMA RewriteCalls ==
  ASSUME PoolTypeOK, CallFresh, NEW v \in Vaults, NEW file \in File, NEW own,
         Rewrite(v, file, own)
  PROVE  CallFresh'
<1>1. /\ stored'[v] = file
      /\ \A w \in Vaults \ {v} : stored'[w] = stored[w]
  BY DEF PoolTypeOK, Rewrite
<1> SUFFICES ASSUME NEW t \in Calls, Found(t)'
             PROVE  call'[t].raced \/ call'[t].version = stored'[call'[t].vault][call'[t].conn]
  BY DEF CallFresh
<1>2. CASE /\ Found(t) /\ call[t].vault = v
           /\ call[t].conn \in {c \in Conns : file[c] # stored[v][c]}
  <2>1. call'[t] = [call[t] EXCEPT !.raced = TRUE]
    BY <1>2 DEF Rewrite
  <2>. QED  BY <1>2, <2>1, CallFields
<1>3. CASE ~ (/\ Found(t) /\ call[t].vault = v
              /\ call[t].conn \in {c \in Conns : file[c] # stored[v][c]})
  <2>1. call'[t] = call[t]
    BY <1>3 DEF Rewrite
  <2>2. Found(t)
    BY <2>1 DEF Found
  <2>3. call[t].raced \/ call[t].version = stored[call[t].vault][call[t].conn]
    BY <2>2 DEF CallFresh
  <2>4. stored'[call[t].vault][call[t].conn] = stored[call[t].vault][call[t].conn]
    BY <1>1, <1>3, <2>2, CallFields
  <2>. QED  BY <2>1, <2>3, <2>4
<1>. QED  BY <1>2, <1>3

(* After a write of a file the pools of the records that have changed have *)
(* the blame, those of the writer's own connections aside, which it        *)
(* invalidates or which have slipped in.  Nobody is less pending, nor      *)
(* further in a delete, than before.                                       *)
LEMMA RewriteInv ==
  ASSUME PoolTypeOK, PoolInv, NEW v \in Vaults, NEW file \in File, NEW own,
         Rewrite(v, file, own),
         \A w, d : AboutToRemove(w, d)' => AboutToRemove(w, d),
         \A w, d : Pending(w, d) => Pending(w, d)',
         \A c \in own : \/ Pending(v, c)'
                        \/ pools[c] # None /\ pools[c].vault = v => pools[c].blame = "raced"
  PROVE  PoolInv'
<1>1. /\ stored'[v] = file
      /\ \A w \in Vaults \ {v} : stored'[w] = stored[w]
  BY DEF PoolTypeOK, Rewrite
<1>2. CallFresh'
  BY RewriteCalls DEF PoolInv
<1>3. SlippedIn'
  <2> SUFFICES ASSUME NEW c \in Conns,
                      (pools[c] # None /\ AboutToRemove(pools[c].vault, c))'
               PROVE  pools'[c].blame = "raced"
    BY DEF SlippedIn
  <2>1. pools[c] # None /\ pools'[c].vault = pools[c].vault
    BY RewritePools
  <2>2. pools[c].blame = "raced"
    BY <2>1 DEF PoolInv, SlippedIn
  <2>. QED  BY <2>2, RewritePools
<1>4. OnlyRacesLeaveStale'
  <2> SUFFICES ASSUME NEW c \in Conns,
                      (/\ pools[c] # None /\ pools[c].blame = "none"
                       /\ ~ Pending(pools[c].vault, c))'
               PROVE  (pools[c].version = stored[pools[c].vault][c])'
    BY DEF OnlyRacesLeaveStale
  <2>0. pools'[c].blame # "overwritten" /\ pools'[c] # None
    OBVIOUS
  <2>1. /\ pools'[c] = pools[c]
        /\ \/ pools[c] = None \/ pools[c].vault # v \/ pools[c].blame # "none"
           \/ c \in own \/ file[c] = stored[v][c]
    BY <2>0, RewritePools
  <2>2. pools[c].version = stored[pools[c].vault][c] /\ pools[c].vault \in Vaults
    BY <2>1 DEF PoolInv, OnlyRacesLeaveStale, PoolTypeOK, Entry
  <2>3. ~ (c \in own /\ pools[c].vault = v)
    BY <2>1
  <2>. QED  BY <1>1, <2>1, <2>2, <2>3
<1>. QED  BY <1>2, <1>3, <1>4 DEF PoolInv

(* A call inserts its pool: it holds the record as it is, or is raced.     *)
LEMMA InsertInv ==
  ASSUME PoolTypeOK, PoolInv, NEW t \in Calls, InsertPool(t)
  PROVE  PoolInv'
<1> DEFINE c == call[t].conn
           r == call[t].raced \/ AboutToRemove(call[t].vault, c)
<1>1. Found(t) /\ c \in Conns
  BY CallFields DEF InsertPool
<1>2. UNCHANGED <<stored, command>> /\ call' = [call EXCEPT ![t] = None]
  BY DEF InsertPool, recordVars
<1>3. /\ pools'[c].vault = call[t].vault
      /\ pools'[c].version = call[t].version
      /\ pools'[c].blame = IF r THEN "raced" ELSE "none"
  BY <1>1 DEF InsertPool, PoolTypeOK
<1>4. \A d \in Conns \ {c} : pools'[d] = pools[d]
  BY DEF InsertPool, PoolTypeOK
<1>5. CallFresh'
  BY <1>2 DEF PoolInv, CallFresh, Found, PoolTypeOK
<1>6. \A v, d : AboutToRemove(v, d)' = AboutToRemove(v, d)
  BY <1>2 DEF AboutToRemove
<1>7. \A v, d : Pending(v, d)' = Pending(v, d)
  BY <1>2 DEF Pending
<1>8. SlippedIn'
  BY <1>3, <1>4, <1>6 DEF PoolInv, SlippedIn
<1>9. OnlyRacesLeaveStale'
  BY <1>1, <1>2, <1>3, <1>4, <1>7 DEF PoolInv, CallFresh, OnlyRacesLeaveStale
<1>. QED  BY <1>5, <1>8, <1>9 DEF PoolInv

(* A new command is not between the steps of a delete.                     *)
LEMMA BeginInv ==
  ASSUME PoolTypeOK, PoolInv, NEW k \in Commands, NEW kind \in {"create", "update", "delete"},
         NEW c \in Conns, Begin(k, kind, c)
  PROVE  PoolInv'
<1>1. UNCHANGED <<stored, pools, call>> /\ command[k] = None
  BY DEF Begin, recordVars
<1>2. /\ command'[k].kind = "delete" => command'[k].next = "invalidate"
      /\ \A j \in Commands \ {k} : command'[j] = command[j]
  BY DEF Begin, PoolTypeOK
<1>. QED  BY <1>1, <1>2, CommandsInv

(* A create that checks its name goes on to read or ends.                  *)
LEMMA CheckInv ==
  ASSUME PoolTypeOK, PoolInv, NEW k \in Commands, command[k].kind = "create", Check(k)
  PROVE  PoolInv'
<1>1. UNCHANGED <<stored, pools, call>> /\ command[k] # None
  BY DEF Check, At, recordVars
<1>2. /\ command'[k] = None \/ command'[k].kind = "create"
      /\ \A j \in Commands \ {k} : command'[j] = command[j]
  BY <1>1, CommandFields, GoOnStep, EndFields DEF Check
<1>. QED  BY <1>1, <1>2, CommandsInv

(* A command reads the file; a delete that reads has invalidated already.  *)
LEMMA ReadInv ==
  ASSUME PoolTypeOK, PoolInv, NEW k \in Commands, Read(k)
  PROVE  PoolInv'
<1>1. UNCHANGED <<stored, pools, call>> /\ command[k] # None /\ command[k].next = "read"
      /\ stored[command[k].vault] \in File
  BY CommandFields DEF Read, At, recordVars, PoolTypeOK
<1>2. /\ \/ command'[k] = None
         \/ /\ command'[k].kind = command[k].kind
            /\ command'[k].vault = command[k].vault /\ command'[k].conn = command[k].conn
      /\ \A j \in Commands \ {k} : command'[j] = command[j]
  <2>1. CASE EndCommand(k)
    BY <2>1, EndFields
  <2>2. CASE command' = [command EXCEPT ![k].next = "save",
                                        ![k].file = stored[command[k].vault]]
    BY <1>1, <2>2, GoOnFields
  <2>. QED  BY <2>1, <2>2 DEF Read
<1>. QED  BY <1>1, <1>2, CommandsInv

(* Refusing ends a command that has nothing to invalidate.                 *)
LEMMA RefuseInv ==
  ASSUME PoolTypeOK, PoolInv, NEW k \in Commands, Refuse(k)
  PROVE  PoolInv'
<1>1. UNCHANGED <<stored, pools, call>> /\ command[k].next # "invalidate"
  BY DEF Refuse, recordVars, At
<1>2. command'[k] = None /\ \A j \in Commands \ {k} : command'[j] = command[j]
  BY EndFields DEF Refuse
<1>. QED  BY <1>1, <1>2, CommandsInv

(* An update that has saved is about to invalidate; a create has the       *)
(* blame.                                                                  *)
LEMMA SaveInv ==
  ASSUME PoolTypeOK, PoolInv, NEW k \in Commands, Save(k)
  PROVE  PoolInv'
<1> DEFINE c == command[k].conn
           file == [command[k].file EXCEPT ![c] = written + 1]
           own == IF command[k].kind = "create" THEN {} ELSE {c}
<1>0. NoFile \in File
  BY PoolAssumption DEF NoFile, File
<1>1. command[k] # None /\ command[k].next = "save" /\ command[k].kind # "delete"
      /\ written + 1 \in 0..MaxRecord
  BY PoolAssumption DEF Save, At, PoolTypeOK, NewVersion
<1>v. PICK v \in Vaults : v = command[k].vault
  BY <1>1, CommandFields
<1>2. file \in File /\ Rewrite(v, file, own)
  BY <1>1, <1>v, CommandFields, RecordFile DEF Save, PersistRecord
<1>3. /\ \A j \in Commands \ {k} : command'[j] = command[j]
      /\ \/ command'[k] = None /\ command[k].kind = "create"
         \/ /\ command'[k] # None /\ command'[k].next = "invalidate"
            /\ command'[k].kind = "update" /\ command[k].kind = "update"
            /\ command'[k].vault = v /\ command'[k].conn = c
  <2>1. CASE command[k].kind = "update"
    <3>1. command' = [command EXCEPT ![k].next = "invalidate", ![k].file = NoFile]
      BY <2>1 DEF Save
    <3>. QED  BY <1>0, <1>1, <1>v, <2>1, <3>1, GoOnFields
  <2>2. CASE command[k].kind = "create"
    BY <2>2, EndFields DEF Save
  <2>. QED  BY <1>1, <2>1, <2>2, CommandFields
<1> HIDE DEF file
<1>4. \A w, d : AboutToRemove(w, d)' => AboutToRemove(w, d)
  BY <1>3 DEF AboutToRemove
<1>5. \A w, d : Pending(w, d) => Pending(w, d)'
  BY <1>1, <1>3 DEF Pending
<1>6. \A d \in own : Pending(v, d)'
  BY <1>3 DEF Pending
<1> HIDE DEF own
<1>. QED  BY <1>2, <1>4, <1>5, <1>6, RewriteInv

(* A pool of the record that a delete removes has slipped in.              *)
LEMMA RemoveInv ==
  ASSUME PoolTypeOK, PoolInv, NEW k \in Commands, Remove(k)
  PROVE  PoolInv'
<1> DEFINE v == command[k].vault
           c == command[k].conn
           file == [command[k].file EXCEPT ![c] = 0]
           own == IF command[k].kind = "create" THEN {} ELSE {c}
<1>1. command[k] # None /\ command[k].next = "save" /\ command[k].kind = "delete"
      /\ 0 \in 0..MaxRecord
  BY PoolAssumption DEF Remove, At
<1>2. v \in Vaults /\ c \in Conns /\ file \in File /\ Rewrite(v, file, own)
  BY <1>1, CommandFields, RecordFile DEF Remove, PersistRecord
<1>3. command'[k] = None /\ \A j \in Commands \ {k} : command'[j] = command[j]
  BY EndFields DEF Remove
<1>4. \A w, d : AboutToRemove(w, d)' => AboutToRemove(w, d)
  BY <1>3 DEF AboutToRemove
<1>5. \A w, d : Pending(w, d) => Pending(w, d)'
  BY <1>1, <1>3 DEF Pending
<1>6. \A d \in own : pools[d] # None /\ pools[d].vault = v => pools[d].blame = "raced"
  BY <1>1, <1>2 DEF PoolInv, SlippedIn, AboutToRemove
<1> HIDE DEF own, file
<1>. QED  BY <1>2, <1>4, <1>5, <1>6, RewriteInv

(* An invalidated connection has no pool, so it is neither stale nor       *)
(* slipped into the delete that goes on.                                   *)
LEMMA InvalidateInv ==
  ASSUME PoolTypeOK, PoolInv, NEW k \in Commands, Invalidate(k)
  PROVE  PoolInv'
<1> DEFINE c == command[k].conn
<1>1. command[k] # None /\ UNCHANGED <<stored, call>>
  BY DEF Invalidate, At, recordVars
<1>2. c \in Conns
  BY <1>1, CommandFields
<1>3. pools'[c] = None /\ \A d \in Conns \ {c} : pools'[d] = pools[d]
  BY <1>2 DEF Invalidate, PoolTypeOK
<1>4. /\ command'[k] = None \/ command'[k].conn = c
      /\ \A j \in Commands \ {k} : command'[j] = command[j]
  BY <1>1, CommandFields, GoOnStep, EndFields DEF Invalidate
<1>5. \A w, d : d # c /\ AboutToRemove(w, d)' => AboutToRemove(w, d)
  BY <1>4 DEF AboutToRemove
<1>6. \A w, d : d # c /\ Pending(w, d) => Pending(w, d)'
  BY <1>1, <1>4 DEF Pending
<1>7. CallFresh'
  BY <1>1 DEF PoolInv, CallFresh, Found
<1>8. SlippedIn'
  BY <1>3, <1>5 DEF PoolInv, SlippedIn
<1>9. OnlyRacesLeaveStale'
  BY <1>1, <1>3, <1>6 DEF PoolInv, OnlyRacesLeaveStale
<1>. QED  BY <1>7, <1>8, <1>9 DEF PoolInv

(* An editor invalidates nothing.                                          *)
LEMMA EditInv ==
  ASSUME PoolTypeOK, PoolInv, NEW v \in Vaults, NEW c \in Conns, ExternalEdit(v, c)
  PROVE  PoolInv'
<1>1. PICK n \in 0..MaxRecord : Rewrite(v, [stored[v] EXCEPT ![c] = n], {})
  <2>1. written + 1 \in 0..MaxRecord \/ written >= MaxRecord
    BY PoolAssumption DEF PoolTypeOK
  <2>2. 0 \in 0..MaxRecord
    BY PoolAssumption
  <2>3. NewVersion => written + 1 \in 0..MaxRecord
    BY PoolAssumption DEF PoolTypeOK, NewVersion
  <2>. QED  BY <2>2, <2>3 DEF ExternalEdit
<1>2. [stored[v] EXCEPT ![c] = n] \in File
  BY DEF PoolTypeOK, File
<1>3. \A w, d : AboutToRemove(w, d)' = AboutToRemove(w, d)
  BY DEF ExternalEdit, AboutToRemove
<1>4. \A w, d : Pending(w, d)' = Pending(w, d)
  BY DEF ExternalEdit, Pending
<1>. QED  BY <1>1, <1>2, <1>3, <1>4, RewriteInv

(* Only creates begin with the check.                                      *)
LEMMA InitChecks == PoolInit => OnlyCreatesCheck
BY DEF PoolInit, OnlyCreatesCheck

LEMMA NextChecks == PoolTypeOK /\ OnlyCreatesCheck /\ [PoolNext]_poolVars => OnlyCreatesCheck'
<1> SUFFICES ASSUME PoolTypeOK, OnlyCreatesCheck, [PoolNext]_poolVars
             PROVE  OnlyCreatesCheck'
  OBVIOUS
<1>1. ASSUME NEW k \in Commands, NEW kind \in {"create", "update", "delete"}, NEW c \in Conns,
             Begin(k, kind, c)
      PROVE  OnlyCreatesCheck'
  BY <1>1 DEF Begin, OnlyCreatesCheck, PoolTypeOK
<1>2. ASSUME NEW k \in Commands,
             Check(k) \/ Read(k) \/ Save(k) \/ Remove(k) \/ Invalidate(k) \/ Refuse(k)
      PROVE  OnlyCreatesCheck'
  <2>1. NoFile \in File /\ \A v \in Vaults : stored[v] \in File
    BY PoolAssumption DEF NoFile, File, PoolTypeOK
  <2>2. command[k] # None /\ command[k].vault \in Vaults /\ command[k].file \in File
    BY <1>2, CommandFields DEF Check, Read, Save, Remove, Invalidate, Refuse, At
  <2>3. /\ command'[k] = None \/ command'[k].next # "check"
        /\ \A j \in Commands \ {k} : command'[j] = command[j]
    <3>1. CASE EndCommand(k)
      BY <3>1, EndFields
    <3>2. CASE GoOn(k, "read")
      BY <2>2, <3>2, GoOnStep
    <3>3. CASE command' = [command EXCEPT ![k].next = "save",
                                          ![k].file = stored[command[k].vault]]
      BY <2>1, <2>2, <3>3, GoOnFields
    <3>4. CASE command' = [command EXCEPT ![k].next = "invalidate", ![k].file = NoFile]
      BY <2>1, <2>2, <3>4, GoOnFields
    <3>. QED  BY <1>2, <3>1, <3>2, <3>3, <3>4
              DEF Check, Read, Save, Remove, Invalidate, Refuse
  <2>. QED  BY <2>3 DEF OnlyCreatesCheck
<1>3. CASE UNCHANGED command
  BY <1>3 DEF OnlyCreatesCheck
<1>. QED  BY <1>1, <1>2, <1>3 DEF PoolNext, poolVars, GetPool, Lookup, InsertPool,
             CreatePoolFails, SwitchVault, ExternalEdit, TtlPasses, Snapshot, RemoveExpired

(* Every step preserves the invariant.                                     *)
LEMMA NextPoolInv ==
  PoolTypeOK /\ OnlyCreatesCheck /\ PoolInv /\ [PoolNext]_poolVars => PoolInv'
<1> SUFFICES ASSUME PoolTypeOK, OnlyCreatesCheck, PoolInv, [PoolNext]_poolVars
             PROVE  PoolInv'
  OBVIOUS
<1>1. ASSUME NEW t \in Calls, NEW c \in Conns, GetPool(t, c)
      PROVE  PoolInv'
  <2>1. CASE pools[c] # None /\ pools' = [pools EXCEPT ![c].expired = FALSE] /\ UNCHANGED call
    <3>1. [pools[c] EXCEPT !.expired = FALSE] \in Entry
      BY <2>1 DEF PoolTypeOK, Entry
    <3>2. /\ pools'[c] = [pools[c] EXCEPT !.expired = FALSE]
          /\ \A d \in Conns \ {c} : pools'[d] = pools[d]
      BY <2>1 DEF PoolTypeOK
    <3>3. /\ pools'[c].vault = pools[c].vault /\ pools'[c].version = pools[c].version
          /\ pools'[c].blame = pools[c].blame
      BY <2>1, <3>2 DEF PoolTypeOK, Entry
    <3>. QED  BY <1>1, <2>1, <3>2, <3>3, PoolsInv DEF GetPool, recordVars
  <2>2. CASE call' = [call EXCEPT ![t] = [pc |-> "missed", conn |-> c]] /\ UNCHANGED pools
    <3>1. ~ Found(t)' /\ \A x \in Calls \ {t} : call'[x] = call[x]
      BY <2>2 DEF PoolTypeOK, Found
    <3>. QED  BY <1>1, <2>2, <3>1, CallsInv DEF GetPool, recordVars
  <2>. QED  BY <1>1, <2>1, <2>2 DEF GetPool
<1>2. ASSUME NEW t \in Calls, Lookup(t)
      PROVE  PoolInv'
  <2> DEFINE c == call[t].conn
  <2>1. UNCHANGED <<stored, pools, command>> /\ \A x \in Calls \ {t} : call'[x] = call[x]
    BY <1>2 DEF Lookup, recordVars, PoolTypeOK
  <2>2. CASE stored[vault][c] = 0
    <3>1. ~ Found(t)'
      BY <1>2, <2>2 DEF Lookup, Found, PoolTypeOK
    <3>. QED  BY <2>1, <3>1, CallsInv
  <2>3. CASE stored[vault][c] # 0
    <3>1. call'[t] = [pc |-> "found", conn |-> c, vault |-> vault,
                      version |-> stored[vault][c], raced |-> FALSE]
      BY <1>2, <2>3 DEF Lookup, PoolTypeOK
    <3>2. call'[t].version = stored[call'[t].vault][call'[t].conn]
      BY <3>1
    <3>. QED  BY <2>1, <3>2, CallsInv
  <2>. QED  BY <2>2, <2>3
<1>3. ASSUME NEW t \in Calls, InsertPool(t)
      PROVE  PoolInv'
  BY <1>3, InsertInv
<1>4. ASSUME NEW t \in Calls, CreatePoolFails(t)
      PROVE  PoolInv'
  <2>1. ~ Found(t)' /\ \A x \in Calls \ {t} : call'[x] = call[x]
    BY <1>4 DEF CreatePoolFails, Found, PoolTypeOK
  <2>. QED  BY <1>4, <2>1, CallsInv DEF CreatePoolFails, recordVars
<1>5. ASSUME NEW k \in Commands, NEW kind \in {"create", "update", "delete"}, NEW c \in Conns,
             Begin(k, kind, c)
      PROVE  PoolInv'
  BY <1>5, BeginInv
<1>6. ASSUME NEW k \in Commands,
             Check(k) \/ Read(k) \/ Save(k) \/ Remove(k) \/ Invalidate(k) \/ Refuse(k)
      PROVE  PoolInv'
  <2>1. Check(k) => command[k].kind = "create"
    BY DEF Check, At, OnlyCreatesCheck
  <2>. QED  BY <1>6, <2>1, CheckInv, ReadInv, SaveInv, RemoveInv, InvalidateInv, RefuseInv
<1>7. ASSUME NEW v \in Vaults, SwitchVault(v)
      PROVE  PoolInv'
  BY <1>7, PoolsInv DEF SwitchVault
<1>8. ASSUME NEW c \in Conns, TtlPasses(c)
      PROVE  PoolInv'
  <2>1. /\ pools'[c] = [pools[c] EXCEPT !.expired = TRUE]
        /\ \A d \in Conns \ {c} : pools'[d] = pools[d]
    BY <1>8 DEF TtlPasses, PoolTypeOK
  <2>2. /\ pools'[c].vault = pools[c].vault /\ pools'[c].version = pools[c].version
        /\ pools'[c].blame = pools[c].blame
    BY <1>8, <2>1 DEF TtlPasses, PoolTypeOK, Entry
  <2>. QED  BY <1>8, <2>1, <2>2, PoolsInv DEF TtlPasses, recordVars
<1>9. CASE Snapshot
  BY <1>9, PoolsInv DEF Snapshot, recordVars
<1>10. CASE RemoveExpired
  BY <1>10, PoolsInv DEF RemoveExpired, recordVars
<1>11. ASSUME NEW v \in Vaults, NEW c \in Conns, ExternalEdit(v, c)
       PROVE  PoolInv'
  BY <1>11, EditInv
<1>12. CASE UNCHANGED poolVars
  BY <1>12, PoolsInv DEF poolVars, recordVars
<1>. QED  BY <1>1, <1>2, <1>3, <1>4, <1>5, <1>6, <1>7, <1>8, <1>9, <1>10, <1>11, <1>12
          DEF PoolNext

(* A cached pool is built from the record as it is now, except for the     *)
(* causes OnlyRacesLeaveStale names: save, then invalidate, is the right   *)
(* order for the record of the update itself, whatever other calls,        *)
(* commands and editors do to the file at the same time.                   *)
THEOREM OnlyRacesLeaveStaleHolds == PoolSpec => []OnlyRacesLeaveStale
<1>1. PoolInv => OnlyRacesLeaveStale
  BY DEF PoolInv
<1>. QED  BY <1>1, InitPoolInv, NextPoolInv, InitChecks, NextChecks,
             PoolTypeCorrect, PTL DEF PoolSpec
=============================================================================
