------------------------- MODULE VaultConfig_proofs -------------------------
(***************************************************************************)
(* Proofs about VaultConfig: its type invariant, that no secret is written *)
(* to a file, and that an acknowledged update is kept, for any             *)
(* environments, variables, values, commands and requests.                 *)
(***************************************************************************)
EXTENDS VaultConfig, TLAPS

-----------------------------------------------------------------------------
(* Calls and the tasks that make them.                                     *)

(* A call has the arguments of its function.                               *)
LEMMA CallTypes ==
  ASSUME NEW c \in Call
  PROVE  /\ c.fn \in {"set_var", "delete_var", "create_env", "delete_env", "patch"}
         /\ c.fn # "patch" => c.env \in Envs
         /\ c.fn \in {"set_var", "delete_var"} => c.key \in Keys
         /\ c.fn = "set_var" => c.val \in Values
         /\ c.fn = "patch" =>
              \/ c.section = "active" /\ c.val \in Envs \cup {None}
              \/ c.section \in {"ui", "workspace"} /\ c.val \in Prefs
BY DEF Call

(* What is there without the files has the type of what is in them.        *)
LEMMA DefaultTypes == NoVars \in EnvFile /\ Defaults \in Doc
BY ConfigAssumption DEF NoVars, EnvFile, Defaults, Doc, Sections

(* A task that has nothing to do is a task.                                *)
LEMMA IdleType ==
  ASSUME NEW b \in BOOLEAN
  PROVE  /\ Idle(b) \in Task
         /\ Idle(b).pc = "read" /\ Idle(b).call = None /\ Idle(b).snap = NoVars
         /\ Idle(b).migrated = b
BY DefaultTypes DEF Idle, Task

(* After a call, a task has the type it had, has kept what it read or has  *)
(* nothing, and has not begun the next one.                                *)
LEMMA AfterCallType ==
  ASSUME TypeOK, NEW t \in Tasks, NEW out, NEW self \in AfterCall(t, out)
  PROVE  /\ self \in Task /\ self.pc = "read"
         /\ self.snap \in {task[t].snap, NoVars}
<1>1. task[t] \in Task
  BY DEF TypeOK
<1>2. CASE out = "ok" /\ task[t].todo # {}
  <2>1. PICK c \in Ready(task[t].todo) :
          self = [task[t] EXCEPT !.call = c, !.todo = @ \ {c}, !.pc = "read", !.stale = FALSE]
    BY <1>2 DEF AfterCall
  <2>2. c \in task[t].todo
    BY <2>1 DEF Ready
  <2>3. c \in Call /\ task[t].todo \ {c} \in SUBSET Call
    BY <1>1, <2>2 DEF Task
  <2>. QED  BY <1>1, <2>1, <2>3 DEF Task
<1>3. CASE ~(out = "ok" /\ task[t].todo # {})
  BY <1>3, IdleType DEF AfterCall
<1>. QED  BY <1>2, <1>3

(* A call that returns leaves the tasks well typed.                        *)
LEMMA ReturnsType ==
  ASSUME TypeOK, NEW t \in Tasks, NEW out, Returns(t, out)
  PROVE  task' \in [Tasks -> Task]
<1>1. PICK self \in AfterCall(t, out) : task' = [task EXCEPT ![t] = self]
  BY DEF Returns
<1>. QED  BY <1>1, AfterCallType DEF TypeOK

(* What the steps of other tasks leave of a task.                          *)
Kept(old, new) ==
  /\ new.call = old.call /\ new.pc = old.pc /\ new.snap = old.snap /\ new.seen = old.seen
  /\ old.stale => new.stale

Same(t, u) == Busy(u) /\ task[u].pc # "read" /\ SameFile(Arg(t), Arg(u))

(* So does what tells the others that their reads are stale.               *)
LEMMA OvertakenType ==
  ASSUME TypeOK, NEW t \in Tasks, NEW self \in Task
  PROVE  /\ Overtaken(t, self) \in [Tasks -> Task]
         /\ Overtaken(t, self)[t] = self
         /\ \A u \in Tasks \ {t} :
              /\ Kept(task[u], Overtaken(t, self)[u])
              /\ Same(t, u) => Overtaken(t, self)[u].stale
<1>1. task \in [Tasks -> Task] /\ \A u \in Tasks : task[u].stale \in BOOLEAN
  BY DEF TypeOK, Task
<1>2. ASSUME NEW u \in Tasks, u # t
      PROVE  /\ Overtaken(t, self)[u] \in Task
             /\ Kept(task[u], Overtaken(t, self)[u])
             /\ Same(t, u) => Overtaken(t, self)[u].stale
  <2> DEFINE b == task[u].stale \/ (Busy(u) /\ task[u].pc # "read" /\ SameFile(Arg(t), Arg(u)))
  <2>1. Overtaken(t, self)[u] = [task[u] EXCEPT !.stale = b]
    BY <1>2 DEF Overtaken
  <2>2. b \in BOOLEAN
    BY <1>1 DEF Busy, SameFile
  <2>3. (task[u].stale => b) /\ (Same(t, u) => b)
    BY DEF Same
  <2>. HIDE DEF b
  <2>4. [task[u] EXCEPT !.stale = b] \in Task
    BY <1>1, <2>2 DEF Task
  <2>5. Kept(task[u], [task[u] EXCEPT !.stale = b]) /\ [task[u] EXCEPT !.stale = b].stale = b
    BY <1>1, <2>2, <2>3 DEF Task, Kept
  <2>. QED  BY <2>1, <2>3, <2>4, <2>5
<1>3. Overtaken(t, self)[t] = self
  BY DEF Overtaken
<1>4. \A u \in Tasks : Overtaken(t, self)[u] \in Task
  BY <1>2, <1>3
<1>5. Overtaken(t, self) \in [Tasks -> Task]
  <2>1. Overtaken(t, self) = [u \in Tasks |-> Overtaken(t, self)[u]]
    BY DEF Overtaken
  <2>. QED  BY <1>4, <2>1
<1>. QED  BY <1>2, <1>3, <1>5

(* The arguments of the call that a task makes.                            *)
LEMMA ArgTypes ==
  ASSUME TypeOK, NEW t \in Tasks, Busy(t)
  PROVE  /\ Arg(t) \in Call
         /\ Arg(t).fn \in {"set_var", "delete_var", "create_env", "delete_env", "patch"}
         /\ Arg(t).fn # "patch" => Arg(t).env \in Envs
         /\ Arg(t).fn \in {"set_var", "delete_var"} => Arg(t).key \in Keys
         /\ Arg(t).fn = "set_var" => Arg(t).val \in Values
         /\ Arg(t).fn = "patch" =>
              \/ Arg(t).section = "active" /\ Arg(t).val \in Envs \cup {None}
              \/ Arg(t).section \in {"ui", "workspace"} /\ Arg(t).val \in Prefs
<1>1. Arg(t) \in Call
  BY DEF TypeOK, Task, Busy, Arg
<1>. QED  BY <1>1, CallTypes

-----------------------------------------------------------------------------
(* Types.                                                                  *)

LEMMA TypeInit == Init => TypeOK
<1> SUFFICES ASSUME Init PROVE TypeOK
  OBVIOUS
<1>1. file \in [Envs -> EnvFile \cup {None}]
  BY DefaultTypes DEF Init
<1>2. task \in [Tasks -> Task]
  BY IdleType DEF Init
<1>3. doc \in Doc /\ ackedDoc \in [Sections -> Prefs \cup Envs \cup {Default, None, Unknown}]
  BY DefaultTypes DEF Init, Doc
<1>4. requests \in 0..MaxRequests
  BY ConfigAssumption DEF Init
<1>5. /\ keychain \in [Variables -> Secrets \cup {None}]
      /\ acked \in [Variables -> Values \cup {Unset, Unknown}]
  BY DEF Init
<1>6. legacy \in [Envs -> [Keys -> Plain \cup Secret \cup {Unset}] \cup {None}]
  BY DEF Init
<1>. QED  BY <1>1, <1>2, <1>3, <1>4, <1>5, <1>6 DEF TypeOK

(* A call begins with a task that was idle.                                *)
LEMMA BeginType ==
  ASSUME TypeOK, NEW t \in Tasks, NEW what \in {"command", "migration"}, NEW c \in Call,
         NEW todo \in SUBSET Call, NEW unread \in SUBSET Variables,
         Begin(t, what, c, todo, unread)
  PROVE  TypeOK'
<1>1. task \in [Tasks -> Task]
  BY DEF TypeOK
<1>2. ASSUME NEW u \in Tasks, u # t
      PROVE  task'[u] \in Task
  <2>1. task'[u] = [task[u] EXCEPT !.alone = ~Busy(u)]
    BY <1>2 DEF Begin
  <2>2. ~Busy(u) = TRUE \/ ~Busy(u) = FALSE
    OBVIOUS
  <2>. QED  BY <1>1, <2>1, <2>2 DEF Task
<1>3. task'[t] \in Task
  <2>1. /\ task'[t] = [Idle(FALSE) EXCEPT !.what = what, !.call = c, !.todo = todo,
                                          !.unread = unread, !.alone = \A v \in Tasks : ~Busy(v)]
        /\ (\A v \in Tasks : ~Busy(v)) \in BOOLEAN
    BY DEF Begin
  <2>. QED  BY <2>1, IdleType DEF Task
<1>4. task' \in [Tasks -> Task]
  <2>1. task' = [u \in Tasks |-> task'[u]]
    BY DEF Begin
  <2>. QED  BY <1>2, <1>3, <2>1
<1>5. requests' \in 0..MaxRequests
  <2>1. requests < MaxRequests /\ requests' = requests + 1
    BY DEF Begin
  <2>2. requests \in 0..MaxRequests /\ MaxRequests \in Nat
    BY ConfigAssumption DEF TypeOK
  <2>. QED  BY <2>1, <2>2
<1>. QED  BY <1>4, <1>5 DEF Begin, TypeOK

(* What a migration reads of the tables is a value.                        *)
LEMMA RowTypes ==
  ASSUME TypeOK, NEW x \in Rows, NEW unread
  PROVE  x[1] \in Envs /\ x[2] \in Keys /\ LegacyValue(x, unread) \in Values \ {Unset}
<1>1. x[1] \in Envs /\ x[2] \in Keys /\ legacy[x[1]] # None /\ legacy[x[1]][x[2]] # Unset
  BY DEF Rows, Variables
<1>2. legacy[x[1]] \in [Keys -> Plain \cup Secret \cup {Unset}]
  BY <1>1 DEF TypeOK
<1>3. legacy[x[1]][x[2]] \in Values
  BY <1>1, <1>2 DEF Values, Secrets
<1>4. Empty \in Values /\ Unset \notin Values
  BY ConfigAssumption DEF Values, Secrets
<1>. QED  BY <1>1, <1>3, <1>4 DEF LegacyValue

(* Every request is a call.                                                *)
LEMMA RequestType ==
  ASSUME TypeOK, NEW t \in Tasks, Request(t)
  PROVE  \E what \in {"command", "migration"}, c \in Call, todo \in SUBSET Call,
             unread \in SUBSET Variables :
           Begin(t, what, c, todo, unread)
<1>1. ASSUME CreateEnvironment(t) \/ DeleteEnvironment(t) \/ SetEnvVariable(t)
               \/ DeleteEnvVariable(t)
      PROVE  \E c \in Call : Begin(t, "command", c, {}, {})
  BY <1>1 DEF CreateEnvironment, DeleteEnvironment, SetEnvVariable, DeleteEnvVariable,
              Command, Call, Values, Secrets
<1>2. ASSUME SetActiveEnvironment(t) \/ PatchUiPrefs(t) \/ SetWorkspaceConfig(t)
      PROVE  \E c \in Call : Begin(t, "command", c, {}, {})
  BY <1>2 DEF SetActiveEnvironment, PatchUiPrefs, SetWorkspaceConfig, Command, Patch, Call
<1>3. ASSUME MigrateVault(t)
      PROVE  \E c \in Call, todo \in SUBSET Call, unread \in SUBSET Variables :
               Begin(t, "migration", c, todo, unread)
  <2>1. PICK prefs \in {{}} \cup {{Patch("ui", p)} : p \in Prefs}, unread \in SUBSET Rows :
          \E c \in Ready(Creates \cup Sets(unread) \cup prefs) :
            Begin(t, "migration", c, (Creates \cup Sets(unread) \cup prefs) \ {c}, unread)
    BY <1>3 DEF MigrateVault
  <2>2. prefs \subseteq Call
    BY DEF Patch, Call
  <2>3. Creates \subseteq Call
    BY DEF Creates, Call
  <2>4. Sets(unread) \subseteq Call
    <3>1. ASSUME NEW y \in Rows
          PROVE  [fn |-> "set_var", env |-> y[1], key |-> y[2], val |-> LegacyValue(y, unread)]
                   \in Call
      <4>1. y[1] \in Envs /\ y[2] \in Keys /\ LegacyValue(y, unread) \in Values
        BY <3>1, RowTypes
      <4>. QED  BY <4>1 DEF Call
    <3>. QED  BY <3>1 DEF Sets
  <2>5. unread \in SUBSET Variables
    BY DEF Rows
  <2>. DEFINE calls == Creates \cup Sets(unread) \cup prefs
  <2>6. calls \subseteq Call
    BY <2>2, <2>3, <2>4
  <2>. HIDE DEF calls
  <2>7. PICK c \in Ready(calls) : Begin(t, "migration", c, calls \ {c}, unread)
    BY <2>1 DEF calls
  <2>8. c \in calls
    BY <2>7 DEF Ready
  <2>. QED  BY <2>5, <2>6, <2>7, <2>8
<1>. QED  BY <1>1, <1>2, <1>3 DEF Request

(* Reading makes a task that has read.                                     *)
LEMMA ReadsType ==
  ASSUME TypeOK, NEW t \in Tasks, NEW pc \in {"keychain", "write"}, NEW f \in EnvFile,
         NEW d \in Doc, Reads(t, pc, f, d)
  PROVE  task' \in [Tasks -> Task]
<1>1. task[t] \in Task /\ task \in [Tasks -> Task]
  BY DEF TypeOK
<1>. DEFINE self == [[[[task[t] EXCEPT !.pc = pc] EXCEPT !.snap = f] EXCEPT !.seen = d]
                       EXCEPT !.stale = FALSE]
<1>2. self \in Task
  BY <1>1 DEF Task
<1>3. task' = [task EXCEPT ![t] = self]
  BY <1>1 DEF Reads
<1>. HIDE DEF self
<1>. QED  BY <1>1, <1>2, <1>3

(* The steps that only read.                                               *)
LEMMA ReadStepType ==
  ASSUME TypeOK, NEW t \in Tasks,
         ReadFails(t) \/ ReadForCreate(t) \/ ReadEnv(t) \/ ReadDoc(t) \/ WriteFails(t)
  PROVE  TypeOK'
<1>1. UNCHANGED <<legacy, file, keychain, doc, history>>
  BY DEF ReadFails, ReadForCreate, ReadEnv, ReadDoc, WriteFails
<1>2. task' \in [Tasks -> Task]
  <2>1. CASE ReadFails(t) \/ WriteFails(t)
    BY <2>1, ReturnsType DEF ReadFails, WriteFails
  <2>2. CASE ReadForCreate(t)
    <3>1. \/ Reads(t, "write", NoVars, Defaults)
          \/ \E out \in {"ok", "error"} : Returns(t, out)
      BY <2>2 DEF ReadForCreate
    <3>. QED  BY <3>1, ReadsType, ReturnsType, DefaultTypes
  <2>3. CASE ReadEnv(t)
    <3>1. \/ Returns(t, "error")
          \/ file[Arg(t).env] # None /\ Reads(t, "keychain", file[Arg(t).env], Defaults)
      BY <2>3 DEF ReadEnv
    <3>2. Arg(t).env \in Envs
      BY <2>3, ArgTypes DEF ReadEnv, At
    <3>3. file[Arg(t).env] # None => file[Arg(t).env] \in EnvFile
      BY <3>2 DEF TypeOK
    <3>. QED  BY <3>1, <3>3, ReadsType, ReturnsType, DefaultTypes
  <2>4. CASE ReadDoc(t)
    <3>1. Returns(t, "error") \/ Reads(t, "write", NoVars, doc)
      BY <2>4 DEF ReadDoc
    <3>2. doc \in Doc
      BY DEF TypeOK
    <3>. QED  BY <3>1, <3>2, ReadsType, ReturnsType, DefaultTypes
  <2>. QED  BY <2>1, <2>2, <2>3, <2>4
<1>. QED  BY <1>1, <1>2 DEF TypeOK, history

(* The task that has changed the keychain.                                 *)
LEMMA KeychainTask ==
  ASSUME TypeOK, NEW t \in Tasks, NEW secrets, NEW changed, NEW f \in EnvFile,
         Keychain(t, secrets, changed, f)
  PROVE  /\ task' \in [Tasks -> Task]
         /\ task'[t] = [task[t] EXCEPT !.pc = "write", !.snap = f]
         /\ \A u \in Tasks \ {t} :
              /\ Kept(task[u], task'[u])
              /\ changed # {} /\ Same(t, u) => task'[u].stale
<1>1. task \in [Tasks -> Task] /\ task[t] \in Task
  BY DEF TypeOK
<1>. DEFINE self == [task[t] EXCEPT !.pc = "write", !.snap = f]
<1>2. self \in Task
  BY <1>1 DEF Task
<1>3. task' = IF changed = {} THEN [task EXCEPT ![t] = self] ELSE Overtaken(t, self)
  BY DEF Keychain
<1>. HIDE DEF self
<1>4. CASE changed = {}
  <2>1. task' = [task EXCEPT ![t] = self]
    BY <1>3, <1>4
  <2>2. task' \in [Tasks -> Task] /\ task'[t] = self
    BY <1>1, <1>2, <2>1
  <2>3. \A u \in Tasks \ {t} : Kept(task[u], task'[u])
    BY <1>1, <2>1 DEF Kept
  <2>. QED  BY <1>4, <2>2, <2>3 DEF self
<1>5. CASE changed # {}
  <2>1. task' = Overtaken(t, self)
    BY <1>3, <1>5
  <2>2. /\ Overtaken(t, self) \in [Tasks -> Task] /\ Overtaken(t, self)[t] = self
        /\ \A u \in Tasks \ {t} :
             /\ Kept(task[u], Overtaken(t, self)[u])
             /\ Same(t, u) => Overtaken(t, self)[u].stale
    BY <1>2, OvertakenType
  <2>. QED  BY <2>1, <2>2 DEF self
<1>. QED  BY <1>4, <1>5

(* What the keychain and the snapshot become is well typed.                *)
LEMMA KeychainStep ==
  ASSUME TypeOK, NEW t \in Tasks, EnsureKeychainRef(t) \/ DeleteSecrets(t)
  PROVE  \/ /\ Returns(t, "error")
            /\ UNCHANGED <<legacy, file, keychain, doc, history>>
         \/ \E secrets \in [Variables -> Secrets \cup {None}], f \in EnvFile,
               changed \in SUBSET Variables :
               /\ Keychain(t, secrets, changed, f)
               /\ \A x \in Variables \ changed : secrets[x] = keychain[x]
               /\ At(t, "keychain", {"set_var", "delete_var", "delete_env"})
               /\ \A x \in changed : x[1] = Arg(t).env
               /\ \/ /\ Arg(t).fn = "set_var"
                     /\ Arg(t).val \in Secrets /\ f = [task[t].snap EXCEPT ![Arg(t).key] = Ref]
                     /\ secrets[<<Arg(t).env, Arg(t).key>>] = Arg(t).val
                     /\ changed = {<<Arg(t).env, Arg(t).key>>}
                  \/ /\ Arg(t).fn = "set_var"
                     /\ Arg(t).val \in Plain
                     /\ f = [task[t].snap EXCEPT ![Arg(t).key] = Arg(t).val]
                     /\ changed \subseteq {<<Arg(t).env, Arg(t).key>>}
                  \/ Arg(t).fn = "delete_var" /\ f = [task[t].snap EXCEPT ![Arg(t).key] = Unset]
                  \/ Arg(t).fn = "delete_env" /\ f = task[t].snap
<1>1. task[t].snap \in EnvFile /\ keychain \in [Variables -> Secrets \cup {None}]
  BY DEF TypeOK, Task
<1>2. CASE StoreSecret(t)
  <2>. DEFINE c == Arg(t)
              secrets == [keychain EXCEPT ![<<c.env, c.key>>] = c.val]
              f == [task[t].snap EXCEPT ![c.key] = Ref]
  <2>1. At(t, "keychain", {"set_var"}) /\ c.val \in Secrets
        /\ Keychain(t, secrets, {<<c.env, c.key>>}, f)
    BY <1>2 DEF StoreSecret
  <2>2. c.fn = "set_var" /\ c.env \in Envs /\ c.key \in Keys
    BY <2>1, ArgTypes DEF At
  <2>3. f \in EnvFile
    BY <1>1, <2>2 DEF EnvFile
  <2>4. <<c.env, c.key>> \in Variables /\ <<c.env, c.key>>[1] = c.env
    BY <2>2 DEF Variables
  <2>5. /\ secrets \in [Variables -> Secrets \cup {None}]
        /\ \A x \in Variables \ {<<c.env, c.key>>} : secrets[x] = keychain[x]
        /\ secrets[<<c.env, c.key>>] = c.val
    BY <1>1, <2>1, <2>4
  <2>6. At(t, "keychain", {"set_var", "delete_var", "delete_env"})
    BY <2>1 DEF At
  <2>. HIDE DEF secrets, f
  <2>7. {<<c.env, c.key>>} \in SUBSET Variables
        /\ \A x \in {<<c.env, c.key>>} : x[1] = c.env
    BY <2>4
  <2>. QED  BY <2>1, <2>2, <2>3, <2>5, <2>6, <2>7 DEF f
<1>3. CASE StoreFails(t) /\ Returns(t, "error")
             /\ UNCHANGED <<legacy, file, keychain, doc, history>>
  BY <1>3
<1>4. CASE DeleteSecrets(t)
  <2>. DEFINE c == Arg(t)
  <2>1. PICK gone \in SUBSET Leaving(t) :
          Keychain(t, [x \in Variables |-> IF x \in gone THEN None ELSE keychain[x]], gone,
                   Changed(t))
    BY <1>4 DEF DeleteSecrets
  <2>2. /\ At(t, "keychain", {"set_var", "delete_var", "delete_env"})
        /\ \/ c.fn \in {"delete_var", "delete_env"}
           \/ c.fn = "set_var" /\ c.val \in Plain
    BY <1>4 DEF DeleteSecrets, At
  <2>3. c.env \in Envs /\ (c.fn # "delete_env" => c.key \in Keys)
    BY <2>2, ArgTypes DEF At
  <2>4. /\ gone \in SUBSET Variables /\ \A x \in gone : x[1] = c.env
        /\ c.fn # "delete_env" => gone \subseteq {<<c.env, c.key>>}
    BY <2>3 DEF Leaving, Variables
  <2>. DEFINE secrets == [x \in Variables |-> IF x \in gone THEN None ELSE keychain[x]]
  <2>5. /\ secrets \in [Variables -> Secrets \cup {None}]
        /\ \A x \in Variables \ gone : secrets[x] = keychain[x]
    BY <1>1
  <2>. HIDE DEF secrets
  <2>6. /\ Changed(t) = IF c.fn = "delete_env" THEN task[t].snap
                        ELSE [task[t].snap EXCEPT ![c.key] =
                                IF c.fn = "set_var" THEN c.val ELSE Unset]
    BY DEF Changed
  <2>7. Changed(t) \in EnvFile
    BY <1>1, <2>2, <2>3, <2>6 DEF EnvFile, Values
  <2>8. \/ /\ c.fn = "set_var" /\ c.val \in Plain
           /\ Changed(t) = [task[t].snap EXCEPT ![c.key] = c.val]
           /\ gone \subseteq {<<c.env, c.key>>}
        \/ c.fn = "delete_var" /\ Changed(t) = [task[t].snap EXCEPT ![c.key] = Unset]
        \/ c.fn = "delete_env" /\ Changed(t) = task[t].snap
    BY <2>2, <2>4, <2>6
  <2>9. Keychain(t, secrets, gone, Changed(t))
    BY <2>1 DEF secrets
  <2>. QED  BY <2>2, <2>4, <2>5, <2>7, <2>8, <2>9
<1>. QED  BY <1>2, <1>3, <1>4 DEF EnsureKeychainRef

(* So does changing the keychain.                                          *)
LEMMA KeychainType ==
  ASSUME TypeOK, NEW t \in Tasks, EnsureKeychainRef(t) \/ DeleteSecrets(t)
  PROVE  TypeOK'
<1>1. CASE Returns(t, "error") /\ UNCHANGED <<legacy, file, keychain, doc, history>>
  BY <1>1, ReturnsType DEF TypeOK, history
<1>2. CASE \E secrets \in [Variables -> Secrets \cup {None}], f \in EnvFile,
                changed \in SUBSET Variables : Keychain(t, secrets, changed, f)
  <2>1. PICK secrets \in [Variables -> Secrets \cup {None}], f \in EnvFile,
             changed \in SUBSET Variables : Keychain(t, secrets, changed, f)
    BY <1>2
  <2>2. /\ keychain' = secrets
        /\ acked' = [x \in Variables |-> IF x \in changed THEN Unknown ELSE acked[x]]
        /\ UNCHANGED <<legacy, file, doc, ackedDoc, requests>>
    BY <2>1 DEF Keychain
  <2>3. acked' \in [Variables -> Values \cup {Unset, Unknown}]
    BY <2>2 DEF TypeOK
  <2>4. task' \in [Tasks -> Task]
    BY <2>1, KeychainTask
  <2>. QED  BY <2>2, <2>3, <2>4 DEF TypeOK
<1>. QED  BY <1>1, <1>2, KeychainStep

(* What a call writes, and what is acknowledged by that, is well typed.    *)
LEMMA WritesType ==
  ASSUME TypeOK, NEW t \in Tasks, PersistEnv(t) \/ RemoveEnv(t)
  PROVE  TypeOK'
<1>1. /\ WritesEnv(t)
      /\ At(t, "write", {"create_env", "set_var", "delete_var", "delete_env"})
      /\ \E f \in EnvFile \cup {None} : file' = [file EXCEPT ![Arg(t).env] = f]
  BY DEF PersistEnv, RemoveEnv, At, TypeOK, Task
<1>2. file' \in [Envs -> EnvFile \cup {None}]
  BY <1>1 DEF TypeOK
<1>3. PICK self \in AfterCall(t, "ok") : task' = Overtaken(t, self)
  BY <1>1 DEF WritesEnv
<1>4. task' \in [Tasks -> Task]
  BY <1>3, AfterCallType, OvertakenType
<1>5. Arg(t).fn = "set_var" => Arg(t).val \in Values
  BY <1>1, ArgTypes DEF At
<1>6. acked' = [x \in Variables |->
         IF x[1] # Arg(t).env THEN acked[x]
         ELSE IF task[t].stale THEN Unknown
         ELSE IF Arg(t).fn \in {"create_env", "delete_env"} THEN Unset
         ELSE IF x[2] # Arg(t).key THEN acked[x]
         ELSE IF Arg(t).fn = "set_var" THEN Arg(t).val ELSE Unset]
  BY <1>1 DEF WritesEnv, AcknowledgeEnv
<1>7. acked' \in [Variables -> Values \cup {Unset, Unknown}]
  BY <1>5, <1>6 DEF TypeOK
<1>. QED  BY <1>1, <1>2, <1>4, <1>7 DEF WritesEnv, TypeOK

(* The same of a section.                                                  *)
LEMMA PersistDocType ==
  ASSUME TypeOK, NEW t \in Tasks, PersistDoc(t)
  PROVE  TypeOK'
<1>. DEFINE c == Arg(t)
<1>1. At(t, "write", {"patch"})
  BY DEF PersistDoc
<1>2. \/ c.section = "active" /\ c.val \in Envs \cup {None}
      \/ c.section \in {"ui", "workspace"} /\ c.val \in Prefs
  BY <1>1, ArgTypes DEF At
<1>3. doc' = [s \in Sections |-> IF FileOf(s) # FileOf(c.section) THEN doc[s]
                                 ELSE IF s = c.section THEN c.val ELSE task[t].seen[s]]
  BY DEF PersistDoc
<1>4. doc \in Doc /\ task[t].seen \in Doc
  BY DEF TypeOK, Task
<1>5. doc' \in Doc
  <2>1. \A s \in Sections : doc'[s] \in Prefs \cup Envs \cup {Default, None}
    BY <1>2, <1>3, <1>4 DEF Doc
  <2>2. /\ doc'["active"] \in Envs \cup {None} /\ doc'["ui"] \in Prefs \cup {Default}
        /\ doc'["workspace"] \in Prefs \cup {None}
    BY <1>2, <1>3, <1>4 DEF Doc, Sections
  <2>. QED  BY <1>3, <2>1, <2>2 DEF Doc
<1>6. PICK self \in AfterCall(t, "ok") : task' = Overtaken(t, self)
  BY DEF PersistDoc
<1>7. task' \in [Tasks -> Task]
  BY <1>6, AfterCallType, OvertakenType
<1>8. ackedDoc' = [s \in Sections |->
         IF FileOf(s) # FileOf(c.section) THEN ackedDoc[s]
         ELSE IF task[t].stale THEN Unknown
         ELSE IF s = c.section THEN c.val ELSE ackedDoc[s]]
  BY DEF PersistDoc, AcknowledgeDoc
<1>9. ackedDoc' \in [Sections -> Prefs \cup Envs \cup {Default, None, Unknown}]
  BY <1>2, <1>8 DEF TypeOK
<1>. QED  BY <1>5, <1>7, <1>9 DEF PersistDoc, TypeOK

(* Every step keeps the types.                                             *)
LEMMA TypeNext == TypeOK /\ [Next]_vars => TypeOK'
<1> SUFFICES ASSUME TypeOK, [Next]_vars PROVE TypeOK'
  OBVIOUS
<1>1. CASE UNCHANGED vars
  BY <1>1 DEF TypeOK, vars, history
<1>2. CASE Crash
  <2>1. task' \in [Tasks -> Task]
    BY <1>2, IdleType DEF Crash
  <2>. QED  BY <1>2, <2>1 DEF Crash, TypeOK, history
<1>3. ASSUME NEW t \in Tasks, Request(t)
      PROVE  TypeOK'
  BY <1>3, RequestType, BeginType
<1>4. ASSUME NEW t \in Tasks, Step(t)
      PROVE  TypeOK'
  BY <1>4, ReadStepType, KeychainType, WritesType, PersistDocType DEF Step
<1>. QED  BY <1>1, <1>2, <1>3, <1>4 DEF Next

(* The variables keep their types: what the files, the keychain and the    *)
(* commands under way hold (environments_store.rs, user_store.rs).         *)
THEOREM TypeCorrect == Spec => []TypeOK
<1>1. Init => TypeOK
  BY TypeInit
<1>2. TypeOK /\ [Next]_vars => TypeOK'
  BY TypeNext
<1>. QED  BY <1>1, <1>2, PTL DEF Spec

-----------------------------------------------------------------------------
(* No secret in a file.                                                    *)

CleanFile == [Keys -> Plain \cup {Unset, Ref}]

(* Neither the files nor what a call is about to write have a secret.      *)
Clean ==
  /\ \A e \in Envs : file[e] = None \/ file[e] \in CleanFile
  /\ \A t \in Tasks : task[t].snap \in CleanFile

LEMMA CleanInit == Init => Clean
<1>1. NoVars \in CleanFile
  BY DEF NoVars, CleanFile
<1>2. Idle(FALSE).snap = NoVars
  BY IdleType
<1>. QED  BY <1>1, <1>2 DEF Init, Clean

LEMMA CleanNext == TypeOK /\ Clean /\ [Next]_vars => Clean'
<1> SUFFICES ASSUME TypeOK, Clean, [Next]_vars PROVE Clean'
  OBVIOUS
<1>. NoVars \in CleanFile
  BY DEF NoVars, CleanFile
<1>. task \in [Tasks -> Task] /\ file \in [Envs -> EnvFile \cup {None}]
  BY DEF TypeOK
<1>1. ASSUME NEW t \in Tasks, NEW out, Returns(t, out)
      PROVE  \A u \in Tasks : task'[u].snap \in CleanFile
  BY <1>1, AfterCallType DEF Returns, Clean
<1>2. ASSUME NEW t \in Tasks, NEW self \in AfterCall(t, "ok"), task' = Overtaken(t, self)
      PROVE  \A u \in Tasks : task'[u].snap \in CleanFile
  <2>1. self \in Task /\ self.snap \in CleanFile
    BY <1>2, AfterCallType DEF Clean
  <2>2. /\ Overtaken(t, self)[t] = self
        /\ \A u \in Tasks \ {t} : Kept(task[u], Overtaken(t, self)[u])
    BY <2>1, OvertakenType
  <2>3. \A u \in Tasks \ {t} : task'[u].snap = task[u].snap
    BY <1>2, <2>2 DEF Kept
  <2>. QED  BY <1>2, <2>1, <2>2, <2>3 DEF Clean
<1>3. CASE UNCHANGED vars
  BY <1>3 DEF Clean, vars
<1>4. CASE Crash
  <2>1. \A t \in Tasks : task'[t].snap \in CleanFile
    BY <1>4, IdleType DEF Crash
  <2>. QED  BY <1>4, <2>1 DEF Crash, Clean
<1>5. ASSUME NEW t \in Tasks, Request(t)
      PROVE  Clean'
  <2>1. PICK what \in {"command", "migration"}, c \in Call, todo \in SUBSET Call,
             unread \in SUBSET Variables :
          Begin(t, what, c, todo, unread)
    BY <1>5, RequestType
  <2>2. ASSUME NEW u \in Tasks
        PROVE  task'[u].snap \in CleanFile
    <3>1. CASE u = t
      <4>1. task'[t] = [Idle(FALSE) EXCEPT !.what = what, !.call = c, !.todo = todo,
                                           !.unread = unread, !.alone = \A v \in Tasks : ~Busy(v)]
        BY <2>1 DEF Begin
      <4>2. task'[t].snap = Idle(FALSE).snap
        BY <4>1, IdleType DEF Task
      <4>. QED  BY <3>1, <4>2, IdleType
    <3>2. CASE u # t
      <4>1. task'[u] = [task[u] EXCEPT !.alone = ~Busy(u)]
        BY <2>1, <3>2 DEF Begin
      <4>. QED  BY <4>1 DEF Clean, Task
    <3>. QED  BY <3>1, <3>2
  <2>. QED  BY <2>1, <2>2 DEF Begin, Clean
<1>6. ASSUME NEW t \in Tasks,
             ReadFails(t) \/ ReadForCreate(t) \/ ReadEnv(t) \/ ReadDoc(t) \/ WriteFails(t)
      PROVE  Clean'
  <2>1. UNCHANGED file
    BY <1>6 DEF ReadFails, ReadForCreate, ReadEnv, ReadDoc, WriteFails
  <2>2. \/ \E out \in {"ok", "error"} : Returns(t, out)
        \/ \E pc \in {"keychain", "write"}, f \in CleanFile, d \in Doc : Reads(t, pc, f, d)
    <3>1. CASE ReadEnv(t)
      <4>1. \/ Returns(t, "error")
            \/ file[Arg(t).env] # None /\ Reads(t, "keychain", file[Arg(t).env], Defaults)
        BY <3>1 DEF ReadEnv
      <4>2. Arg(t).env \in Envs
        BY <3>1, ArgTypes DEF ReadEnv, At
      <4>. QED  BY <4>1, <4>2, DefaultTypes DEF Clean
    <3>2. CASE ReadDoc(t)
      <4>1. Returns(t, "error") \/ Reads(t, "write", NoVars, doc)
        BY <3>2 DEF ReadDoc
      <4>. QED  BY <4>1 DEF TypeOK
    <3>. QED  BY <1>6, <3>1, <3>2, DefaultTypes DEF ReadFails, ReadForCreate, WriteFails
  <2>3. ASSUME NEW pc \in {"keychain", "write"}, NEW f \in CleanFile, NEW d \in Doc,
               Reads(t, pc, f, d)
        PROVE  \A u \in Tasks : task'[u].snap \in CleanFile
    <3>1. task'[t].snap = f /\ \A u \in Tasks \ {t} : task'[u] = task[u]
      BY <2>3 DEF Reads, Task
    <3>. QED  BY <3>1 DEF Clean
  <2>4. \A u \in Tasks : task'[u].snap \in CleanFile
    BY <1>1, <2>2, <2>3
  <2>. QED  BY <2>1, <2>4 DEF Clean
<1>7. ASSUME NEW t \in Tasks, EnsureKeychainRef(t) \/ DeleteSecrets(t)
      PROVE  Clean'
  <2>1. CASE Returns(t, "error") /\ UNCHANGED <<legacy, file, keychain, doc, history>>
    BY <1>1, <2>1 DEF Clean
  <2>2. CASE \E secrets \in [Variables -> Secrets \cup {None}], f \in CleanFile,
                changed \in SUBSET Variables : Keychain(t, secrets, changed, f)
    <3>1. PICK secrets \in [Variables -> Secrets \cup {None}], f \in CleanFile,
               changed \in SUBSET Variables : Keychain(t, secrets, changed, f)
      BY <2>2
    <3>2. f \in EnvFile
      BY DEF CleanFile, EnvFile, Values
    <3>3. /\ task'[t] = [task[t] EXCEPT !.pc = "write", !.snap = f]
          /\ \A u \in Tasks \ {t} : Kept(task[u], task'[u])
      BY <3>1, <3>2, KeychainTask
    <3>4. task'[t].snap = f
      BY <3>3 DEF Task
    <3>5. \A u \in Tasks : task'[u].snap \in CleanFile
      BY <3>3, <3>4 DEF Clean, Kept
    <3>6. UNCHANGED file
      BY <3>1 DEF Keychain
    <3>. QED  BY <3>5, <3>6 DEF Clean
  <2>3. CASE \E secrets \in [Variables -> Secrets \cup {None}], f \in EnvFile,
               changed \in SUBSET Variables :
               /\ Keychain(t, secrets, changed, f)
               /\ At(t, "keychain", {"set_var", "delete_var", "delete_env"})
               /\ \/ Arg(t).fn = "set_var" /\ f = [task[t].snap EXCEPT ![Arg(t).key] = Ref]
                  \/ /\ Arg(t).fn = "set_var" /\ Arg(t).val \in Plain
                     /\ f = [task[t].snap EXCEPT ![Arg(t).key] = Arg(t).val]
                  \/ Arg(t).fn = "delete_var" /\ f = [task[t].snap EXCEPT ![Arg(t).key] = Unset]
                  \/ Arg(t).fn = "delete_env" /\ f = task[t].snap
    <3>1. PICK secrets \in [Variables -> Secrets \cup {None}], f \in EnvFile,
               changed \in SUBSET Variables :
               /\ Keychain(t, secrets, changed, f)
               /\ At(t, "keychain", {"set_var", "delete_var", "delete_env"})
               /\ \/ Arg(t).fn = "set_var" /\ f = [task[t].snap EXCEPT ![Arg(t).key] = Ref]
                  \/ /\ Arg(t).fn = "set_var" /\ Arg(t).val \in Plain
                     /\ f = [task[t].snap EXCEPT ![Arg(t).key] = Arg(t).val]
                  \/ Arg(t).fn = "delete_var" /\ f = [task[t].snap EXCEPT ![Arg(t).key] = Unset]
                  \/ Arg(t).fn = "delete_env" /\ f = task[t].snap
      BY <2>3
    <3>2. task[t].snap \in CleanFile
      BY DEF Clean
    <3>3. f \in CleanFile
      BY <3>1, <3>2 DEF CleanFile
    <3>. QED  BY <2>2, <3>1, <3>3
  <2>. QED  BY <1>7, <2>1, <2>3, KeychainStep
<1>8. ASSUME NEW t \in Tasks, PersistEnv(t) \/ RemoveEnv(t)
      PROVE  Clean'
  <2>1. \E f \in CleanFile \cup {None} : file' = [file EXCEPT ![Arg(t).env] = f]
    BY <1>8 DEF PersistEnv, RemoveEnv, Clean
  <2>2. \E self \in AfterCall(t, "ok") : task' = Overtaken(t, self)
    BY <1>8 DEF PersistEnv, RemoveEnv, WritesEnv
  <2>. QED  BY <1>2, <2>1, <2>2 DEF Clean
<1>9. ASSUME NEW t \in Tasks, PersistDoc(t)
      PROVE  Clean'
  <2>1. \E self \in AfterCall(t, "ok") : task' = Overtaken(t, self)
    BY <1>9 DEF PersistDoc
  <2>2. UNCHANGED file
    BY <1>9 DEF PersistDoc
  <2>. QED  BY <1>2, <2>1, <2>2 DEF Clean
<1>. QED  BY <1>3, <1>4, <1>5, <1>6, <1>7, <1>8, <1>9 DEF Next, Step

(* A secret never gets into a file, for any environments, variables,       *)
(* commands, crashes and failures of the keychain (set_var with            *)
(* ensure_keychain_ref).                                                   *)
THEOREM NoSecretInFileHolds == Spec => []NoSecretInFile
<1>1. Init => TypeOK /\ Clean
  BY TypeInit, CleanInit
<1>2. (TypeOK /\ Clean) /\ [Next]_vars => (TypeOK /\ Clean)'
  BY TypeNext, CleanNext
<1>3. Clean => NoSecretInFile
  <2> SUFFICES ASSUME Clean, NEW e \in Envs, file[e] # None, NEW k \in Keys
               PROVE  file[e][k] \notin Secrets
    BY DEF NoSecretInFile
  <2>1. file[e][k] \in Plain \cup {Unset, Ref}
    BY DEF Clean, CleanFile
  <2>. QED  BY <2>1, ConfigAssumption DEF Values
<1>. QED  BY <1>1, <1>2, <1>3, PTL DEF Spec

-----------------------------------------------------------------------------
(* What is acknowledged is kept.  The invariant says what a call knows     *)
(* whose file nobody has changed since it read it: before it changes the   *)
(* keychain, what it read is the file; before it writes, what it will      *)
(* write has every acknowledged value, and the one it was given.           *)

Fresh(t) == Busy(t) /\ task[t].pc # "read" /\ ~task[t].stale

SnapValue(t, k) ==
  IF task[t].snap[k] = Ref THEN keychain[<<Arg(t).env, k>>] ELSE task[t].snap[k]

Given(c) == IF c.fn = "set_var" THEN c.val ELSE Unset

FreshEnv(t) ==
  Fresh(t) /\ Arg(t).fn # "patch" =>
    /\ task[t].pc = "keychain" => file[Arg(t).env] = task[t].snap
    /\ task[t].pc = "write" /\ Arg(t).fn \in {"set_var", "delete_var"} =>
         /\ SnapValue(t, Arg(t).key) = Given(Arg(t))
         /\ \A k \in Keys \ {Arg(t).key} :
              acked[<<Arg(t).env, k>>] # Unknown => SnapValue(t, k) = acked[<<Arg(t).env, k>>]
    /\ task[t].pc = "write" /\ Arg(t).fn = "create_env" => task[t].snap = NoVars

FreshDoc(t) ==
  Fresh(t) /\ Arg(t).fn = "patch" =>
    \A s \in Sections : FileOf(s) = FileOf(Arg(t).section) => task[t].seen[s] = doc[s]

Kempt == \A t \in Tasks : FreshEnv(t) /\ FreshDoc(t)

IInv == TypeOK /\ Kempt /\ AckedIsKept

(* A task that has not begun its call knows nothing.                       *)
LEMMA NothingRead ==
  ASSUME NEW t \in Tasks, task'[t].pc = "read"
  PROVE  FreshEnv(t)' /\ FreshDoc(t)'
BY DEF FreshEnv, FreshDoc, Fresh

(* What a call knows of an environment stays true if it is told of a       *)
(* change of its file or its secrets.                                      *)
LEMMA FreshEnvStays ==
  ASSUME NEW u \in Tasks, FreshEnv(u), Kept(task[u], task'[u]),
         (Fresh(u) /\ Arg(u).fn # "patch") =>
           \/ task'[u].stale
           \/ /\ file'[Arg(u).env] = file[Arg(u).env]
              /\ Arg(u).fn \in {"set_var", "delete_var"} =>
                   /\ keychain'[<<Arg(u).env, Arg(u).key>>] = keychain[<<Arg(u).env, Arg(u).key>>]
                   /\ \A k \in Keys :
                        /\ keychain'[<<Arg(u).env, k>>] = keychain[<<Arg(u).env, k>>]
                        /\ acked'[<<Arg(u).env, k>>] \in {acked[<<Arg(u).env, k>>], Unknown}
  PROVE  FreshEnv(u)'
<1>1. /\ task'[u].call = task[u].call /\ task'[u].pc = task[u].pc
      /\ task'[u].snap = task[u].snap /\ (task[u].stale => task'[u].stale)
  BY DEF Kept
<1>. SUFFICES ASSUME Fresh(u)', Arg(u)'.fn # "patch" PROVE FreshEnv(u)'
  BY DEF FreshEnv
<1>2. Fresh(u) /\ ~task'[u].stale /\ Arg(u)' = Arg(u)
  BY <1>1 DEF Fresh, Busy, Arg
<1>3. CASE task[u].pc = "keychain"
  BY <1>1, <1>2, <1>3 DEF FreshEnv
<1>4. CASE task[u].pc # "keychain" /\ Arg(u).fn \in {"set_var", "delete_var"}
  <2>1. task[u].pc = "write" => SnapValue(u, Arg(u).key)' = Given(Arg(u)')
    BY <1>1, <1>2, <1>4 DEF FreshEnv, SnapValue
  <2>2. ASSUME NEW k \in Keys \ {Arg(u).key}, task[u].pc = "write",
               acked'[<<Arg(u).env, k>>] # Unknown
        PROVE  SnapValue(u, k)' = acked'[<<Arg(u).env, k>>]
    <3>1. /\ keychain'[<<Arg(u).env, k>>] = keychain[<<Arg(u).env, k>>]
          /\ acked'[<<Arg(u).env, k>>] = acked[<<Arg(u).env, k>>]
      BY <1>2, <1>4, <2>2
    <3>2. SnapValue(u, k)' = SnapValue(u, k)
      BY <1>1, <1>2, <3>1 DEF SnapValue
    <3>3. SnapValue(u, k) = acked[<<Arg(u).env, k>>]
      BY <1>2, <1>4, <2>2, <3>1 DEF FreshEnv
    <3>. QED  BY <3>1, <3>2, <3>3
  <2>. QED  BY <1>1, <1>2, <1>4, <2>1, <2>2 DEF FreshEnv
<1>5. CASE task[u].pc # "keychain" /\ Arg(u).fn \notin {"set_var", "delete_var"}
  BY <1>1, <1>2, <1>5 DEF FreshEnv
<1>. QED  BY <1>3, <1>4, <1>5

(* The same of the sections.                                               *)
LEMMA FreshDocStays ==
  ASSUME NEW u \in Tasks, FreshDoc(u), Kept(task[u], task'[u]),
         (Fresh(u) /\ Arg(u).fn = "patch") =>
           \/ task'[u].stale
           \/ \A s \in Sections : FileOf(s) = FileOf(Arg(u).section) => doc'[s] = doc[s]
  PROVE  FreshDoc(u)'
<1>1. /\ task'[u].call = task[u].call /\ task'[u].pc = task[u].pc
      /\ task'[u].seen = task[u].seen /\ (task[u].stale => task'[u].stale)
  BY DEF Kept
<1>. SUFFICES ASSUME Fresh(u)', Arg(u)'.fn = "patch" PROVE FreshDoc(u)'
  BY DEF FreshDoc
<1>2. Fresh(u) /\ ~task'[u].stale /\ Arg(u)' = Arg(u)
  BY <1>1 DEF Fresh, Busy, Arg
<1>. QED  BY <1>1, <1>2 DEF FreshDoc

(* A step that leaves the files, the keychain and the acknowledgements     *)
(* leaves what the others know.                                            *)
LEMMA FreshUnchanged ==
  ASSUME Kempt, NEW u \in Tasks, Kept(task[u], task'[u]),
         UNCHANGED <<file, keychain, doc, acked>>
  PROVE  FreshEnv(u)' /\ FreshDoc(u)'
<1>1. FreshEnv(u) /\ FreshDoc(u)
  BY DEF Kempt
<1>. QED  BY <1>1, FreshEnvStays, FreshDocStays

(* What is acknowledged of the sections is kept if neither changes.        *)
LEMMA AckedUnchanged ==
  ASSUME AckedIsKept, UNCHANGED <<file, keychain, doc, acked, ackedDoc>>
  PROVE  AckedIsKept'
BY DEF AckedIsKept, Value

LEMMA IInvInit == Init => IInv
<1> SUFFICES ASSUME Init PROVE IInv
  OBVIOUS
<1>1. Kempt
  <2>1. \A t \in Tasks : task[t].pc = "read"
    BY IdleType DEF Init
  <2>. QED  BY <2>1 DEF Kempt, FreshEnv, FreshDoc, Fresh
<1>2. AckedIsKept
  <2>1. \A x \in Variables : Value(x[1], x[2]) = Unset /\ acked[x] = Unset
    <3>1. ASSUME NEW x \in Variables
          PROVE  Value(x[1], x[2]) = Unset
      <4>1. x[1] \in Envs /\ x[2] \in Keys
        BY DEF Variables
      <4>2. file[x[1]] \in {None, NoVars} /\ NoVars[x[2]] = Unset
        BY <4>1 DEF Init, NoVars
      <4>. QED  BY <4>2, ConfigAssumption DEF Value
    <3>. QED  BY <3>1 DEF Init
  <2>. QED  BY <2>1 DEF AckedIsKept, Init
<1>. QED  BY <1>1, <1>2, TypeInit DEF IInv

(* The steps that only read, and those that return.                        *)
LEMMA KemptReads ==
  ASSUME IInv, NEW t \in Tasks,
         ReadFails(t) \/ ReadForCreate(t) \/ ReadEnv(t) \/ ReadDoc(t) \/ WriteFails(t)
  PROVE  Kempt' /\ AckedIsKept'
<1>. TypeOK /\ Kempt /\ AckedIsKept /\ task \in [Tasks -> Task]
  BY DEF IInv, TypeOK
<1>1. UNCHANGED <<file, keychain, doc, acked, ackedDoc>>
  BY DEF ReadFails, ReadForCreate, ReadEnv, ReadDoc, WriteFails, history
<1>2. \/ \E out \in {"ok", "error"} : Returns(t, out)
      \/ At(t, "read", {"create_env"}) /\ Reads(t, "write", NoVars, Defaults)
      \/ /\ At(t, "read", {"set_var", "delete_var", "delete_env"})
         /\ Reads(t, "keychain", file[Arg(t).env], Defaults)
      \/ At(t, "read", {"patch"}) /\ Reads(t, "write", NoVars, doc)
  BY DEF ReadFails, ReadForCreate, ReadEnv, ReadDoc, WriteFails
<1>3. \A u \in Tasks \ {t} : task'[u] = task[u]
  BY <1>2 DEF Returns, Reads
<1>4. \A u \in Tasks \ {t} : FreshEnv(u)' /\ FreshDoc(u)'
  <2>1. \A u \in Tasks \ {t} : Kept(task[u], task'[u])
    BY <1>3 DEF Kept
  <2>. QED  BY <1>1, <2>1, FreshUnchanged
<1>5. FreshEnv(t)' /\ FreshDoc(t)'
  <2>1. CASE \E out \in {"ok", "error"} : Returns(t, out)
    <3>1. task'[t].pc = "read"
      BY <2>1, AfterCallType DEF Returns
    <3>. QED  BY <3>1, NothingRead
  <2>2. CASE At(t, "read", {"create_env"}) /\ Reads(t, "write", NoVars, Defaults)
    <3>1. /\ task'[t].call = task[t].call /\ task'[t].pc = "write" /\ task'[t].snap = NoVars
      BY <2>2 DEF Reads, Task
    <3>2. Arg(t)' = Arg(t) /\ Arg(t).fn = "create_env"
      BY <2>2, <3>1 DEF Arg, At
    <3>. QED  BY <3>1, <3>2 DEF FreshEnv, FreshDoc
  <2>3. CASE At(t, "read", {"set_var", "delete_var", "delete_env"})
               /\ Reads(t, "keychain", file[Arg(t).env], Defaults)
    <3>1. /\ task'[t].call = task[t].call /\ task'[t].pc = "keychain"
          /\ task'[t].snap = file[Arg(t).env]
      BY <2>3 DEF Reads, Task
    <3>2. Arg(t)' = Arg(t) /\ Arg(t).fn \in {"set_var", "delete_var", "delete_env"}
      BY <2>3, <3>1 DEF Arg, At
    <3>. QED  BY <1>1, <3>1, <3>2 DEF FreshEnv, FreshDoc
  <2>4. CASE At(t, "read", {"patch"}) /\ Reads(t, "write", NoVars, doc)
    <3>1. task'[t].call = task[t].call /\ task'[t].seen = doc
      BY <2>4 DEF Reads, Task
    <3>2. Arg(t)' = Arg(t) /\ Arg(t).fn = "patch"
      BY <2>4, <3>1 DEF Arg, At
    <3>. QED  BY <1>1, <3>1, <3>2 DEF FreshEnv, FreshDoc
  <2>. QED  BY <1>2, <2>1, <2>2, <2>3, <2>4
<1>6. AckedIsKept'
  BY <1>1, AckedUnchanged
<1>. QED  BY <1>4, <1>5, <1>6 DEF Kempt

(* A request leaves what the others know, and knows nothing itself.        *)
LEMMA KemptRequest ==
  ASSUME IInv, NEW t \in Tasks, Request(t)
  PROVE  Kempt' /\ AckedIsKept'
<1>. TypeOK /\ Kempt /\ AckedIsKept /\ task \in [Tasks -> Task]
  BY DEF IInv, TypeOK
<1>1. PICK what \in {"command", "migration"}, c \in Call, todo \in SUBSET Call,
             unread \in SUBSET Variables :
        Begin(t, what, c, todo, unread)
  BY RequestType
<1>2. UNCHANGED <<file, keychain, doc, acked, ackedDoc>>
  BY <1>1 DEF Begin
<1>3. task'[t].pc = "read"
  <2>1. task'[t] = [Idle(FALSE) EXCEPT !.what = what, !.call = c, !.todo = todo,
                                       !.unread = unread, !.alone = \A v \in Tasks : ~Busy(v)]
    BY <1>1 DEF Begin
  <2>2. task'[t].pc = Idle(FALSE).pc
    BY <2>1, IdleType DEF Task
  <2>. QED  BY <2>2, IdleType
<1>4. ASSUME NEW u \in Tasks \ {t}
      PROVE  Kept(task[u], task'[u])
  <2>1. task'[u] = [task[u] EXCEPT !.alone = ~Busy(u)]
    BY <1>1 DEF Begin
  <2>. QED  BY <2>1 DEF Kept, Task
<1>5. \A u \in Tasks : FreshEnv(u)' /\ FreshDoc(u)'
  BY <1>2, <1>3, <1>4, NothingRead, FreshUnchanged
<1>. QED  BY <1>2, <1>5, AckedUnchanged DEF Kempt

(* A call that changes the keychain acknowledges nothing of the secrets    *)
(* that change, and has what it was given in its hands.                    *)
LEMMA KemptKeychain ==
  ASSUME IInv, NEW t \in Tasks, EnsureKeychainRef(t) \/ DeleteSecrets(t)
  PROVE  Kempt' /\ AckedIsKept'
<1>. TypeOK /\ Kempt /\ AckedIsKept /\ task \in [Tasks -> Task]
  BY DEF IInv, TypeOK
<1>1. CASE Returns(t, "error") /\ UNCHANGED <<legacy, file, keychain, doc, history>>
  <2>1. task'[t].pc = "read" /\ \A u \in Tasks \ {t} : task'[u] = task[u]
    BY <1>1, AfterCallType DEF Returns
  <2>2. \A u \in Tasks \ {t} : Kept(task[u], task'[u])
    BY <2>1 DEF Kept
  <2>3. UNCHANGED <<file, keychain, doc, acked, ackedDoc>>
    BY <1>1 DEF history
  <2>4. \A u \in Tasks : FreshEnv(u)' /\ FreshDoc(u)'
    BY <2>1, <2>2, <2>3, NothingRead, FreshUnchanged
  <2>. QED  BY <2>3, <2>4, AckedUnchanged DEF Kempt
<1>2. CASE ~(Returns(t, "error") /\ UNCHANGED <<legacy, file, keychain, doc, history>>)
  <2>. DEFINE c == Arg(t)
  <2>1. PICK secrets \in [Variables -> Secrets \cup {None}], f \in EnvFile,
             changed \in SUBSET Variables :
               /\ Keychain(t, secrets, changed, f)
               /\ \A x \in Variables \ changed : secrets[x] = keychain[x]
               /\ At(t, "keychain", {"set_var", "delete_var", "delete_env"})
               /\ \A x \in changed : x[1] = Arg(t).env
               /\ \/ /\ Arg(t).fn = "set_var"
                     /\ Arg(t).val \in Secrets /\ f = [task[t].snap EXCEPT ![Arg(t).key] = Ref]
                     /\ secrets[<<Arg(t).env, Arg(t).key>>] = Arg(t).val
                     /\ changed = {<<Arg(t).env, Arg(t).key>>}
                  \/ /\ Arg(t).fn = "set_var"
                     /\ Arg(t).val \in Plain
                     /\ f = [task[t].snap EXCEPT ![Arg(t).key] = Arg(t).val]
                  \/ Arg(t).fn = "delete_var" /\ f = [task[t].snap EXCEPT ![Arg(t).key] = Unset]
                  \/ Arg(t).fn = "delete_env" /\ f = task[t].snap
    BY <1>2, KeychainStep
  <2>2. /\ c.fn \in {"set_var", "delete_var", "delete_env"} /\ c.env \in Envs
        /\ c.fn # "delete_env" => c.key \in Keys
        /\ Busy(t) /\ task[t].pc = "keychain"
    BY <2>1, ArgTypes DEF At
  <2>3. /\ keychain' = secrets
        /\ acked' = [x \in Variables |-> IF x \in changed THEN Unknown ELSE acked[x]]
        /\ UNCHANGED <<file, doc, ackedDoc>>
    BY <2>1 DEF Keychain
  <2>4. /\ task'[t].call = task[t].call /\ task'[t].pc = "write"
        /\ task'[t].snap = f /\ task'[t].stale = task[t].stale
    <3>1. Keychain(t, secrets, changed, f)
      BY <2>1
    <3>2. task'[t] = [task[t] EXCEPT !.pc = "write", !.snap = f]
      BY <3>1, KeychainTask
    <3>. QED  BY <3>2 DEF Task
  <2>5. \A u \in Tasks \ {t} :
          /\ Kept(task[u], task'[u])
          /\ changed # {} /\ Same(t, u) => task'[u].stale
    BY <2>1, KeychainTask
  <2>6. ASSUME NEW u \in Tasks \ {t}
        PROVE  FreshEnv(u)' /\ FreshDoc(u)'
    <3>1. FreshEnv(u) /\ FreshDoc(u) /\ Kept(task[u], task'[u])
      BY <2>5 DEF Kempt
    <3>2. FreshDoc(u)'
      BY <2>3, <3>1, FreshDocStays
    <3>3. ASSUME Fresh(u), Arg(u).fn # "patch", ~task'[u].stale,
                 Arg(u).fn \in {"set_var", "delete_var"}
          PROVE  \A k \in Keys :
                   /\ keychain'[<<Arg(u).env, k>>] = keychain[<<Arg(u).env, k>>]
                   /\ acked'[<<Arg(u).env, k>>] = acked[<<Arg(u).env, k>>]
      <4>1. Arg(u).env \in Envs /\ Arg(u).key \in Keys
        BY <3>3, ArgTypes DEF Fresh
      <4>2. changed = {} \/ Arg(u).env # c.env
        BY <2>2, <2>5, <3>3 DEF Same, SameFile, Fresh
      <4>3. \A k \in Keys : <<Arg(u).env, k>> \in Variables \ changed
        BY <2>1, <4>1, <4>2 DEF Variables
      <4>. QED  BY <2>1, <2>3, <4>3
    <3>4. ASSUME Fresh(u), Arg(u).fn \in {"set_var", "delete_var"}
          PROVE  Arg(u).key \in Keys
      BY <3>4, ArgTypes DEF Fresh
    <3>5. FreshEnv(u)'
      BY <2>3, <3>1, <3>3, <3>4, FreshEnvStays
    <3>. QED  BY <3>2, <3>5
  <2>7. FreshEnv(t)' /\ FreshDoc(t)'
    <3>1. Arg(t)' = c
      BY <2>4 DEF Arg
    <3>2. FreshDoc(t)'
      BY <2>2, <3>1 DEF FreshDoc
    <3>3. CASE task[t].stale \/ c.fn = "delete_env"
      BY <2>4, <3>1, <3>2, <3>3 DEF FreshEnv, Fresh
    <3>4. CASE ~task[t].stale /\ c.fn # "delete_env"
      <4>1. task[t].snap = file[c.env] /\ task[t].snap \in EnvFile
        BY <2>2, <3>4 DEF Kempt, FreshEnv, Fresh, TypeOK, Task
      <4>2. f[c.key] = (IF c.fn = "set_var" THEN IF c.val \in Secrets THEN Ref ELSE c.val ELSE Unset)
            /\ \A k \in Keys \ {c.key} : f[k] = file[c.env][k]
        <5>1. f = [file[c.env] EXCEPT ![c.key] =
                     IF c.fn = "set_var" THEN IF c.val \in Secrets THEN Ref ELSE c.val ELSE Unset]
          <6>1. CASE c.fn = "set_var" /\ c.val \in Secrets
            BY <2>1, <4>1, <6>1, ConfigAssumption
          <6>2. CASE c.fn = "set_var" /\ c.val \notin Secrets
            BY <2>1, <4>1, <6>2
          <6>3. CASE c.fn = "delete_var"
            BY <2>1, <4>1, <6>3
          <6>. QED  BY <2>2, <3>4, <6>1, <6>2, <6>3
        <5>. QED  BY <2>2, <3>4, <4>1, <5>1 DEF EnvFile
      <4>3. SnapValue(t, c.key)' = Given(c)
        <5>1. SnapValue(t, c.key)' = IF f[c.key] = Ref THEN secrets[<<c.env, c.key>>] ELSE f[c.key]
          BY <2>3, <2>4, <3>1 DEF SnapValue
        <5>2. CASE c.fn = "set_var" /\ c.val \in Secrets
          <6>1. secrets[<<c.env, c.key>>] = c.val
            BY <2>1, <5>2, ConfigAssumption
          <6>. QED  BY <4>2, <5>1, <5>2, <6>1 DEF Given
        <5>3. CASE ~(c.fn = "set_var" /\ c.val \in Secrets)
          <6>1. f[c.key] = Given(c) /\ (c.fn = "set_var" => c.val \in Plain)
            BY <2>1, <4>2, <5>3 DEF Given
          <6>2. f[c.key] # Ref
            BY <6>1, ConfigAssumption DEF Given, Values
          <6>. QED  BY <5>1, <6>1, <6>2
        <5>. QED  BY <5>2, <5>3
      <4>4. ASSUME NEW k \in Keys \ {c.key}, acked'[<<c.env, k>>] # Unknown
            PROVE  SnapValue(t, k)' = acked'[<<c.env, k>>]
        <5>1. <<c.env, k>> \in Variables
          BY <2>2 DEF Variables
        <5>2. <<c.env, k>> \notin changed /\ acked'[<<c.env, k>>] = acked[<<c.env, k>>]
          BY <2>3, <4>4, <5>1
        <5>3. Value(c.env, k) = acked[<<c.env, k>>]
          BY <4>4, <5>1, <5>2 DEF AckedIsKept
        <5>4. Value(c.env, k) = IF f[k] = Ref THEN keychain[<<c.env, k>>] ELSE f[k]
          BY <4>1, <4>2, ConfigAssumption DEF Value
        <5>5. SnapValue(t, k)' = IF f[k] = Ref THEN secrets[<<c.env, k>>] ELSE f[k]
          BY <2>3, <2>4, <3>1 DEF SnapValue
        <5>. QED  BY <2>1, <5>1, <5>2, <5>3, <5>4, <5>5
      <4>. QED  BY <2>2, <2>4, <3>1, <3>2, <3>4, <4>3, <4>4 DEF FreshEnv
    <3>. QED  BY <3>2, <3>3, <3>4
  <2>8. AckedIsKept'
    <3>1. ASSUME NEW x \in Variables, acked'[x] # Unknown
          PROVE  Value(x[1], x[2])' = acked'[x]
      <4>1. x \notin changed /\ acked'[x] = acked[x] /\ keychain'[x] = keychain[x]
        BY <2>1, <2>3, <3>1
      <4>2. x = <<x[1], x[2]>>
        BY DEF Variables
      <4>3. Value(x[1], x[2])' = Value(x[1], x[2])
        BY <2>3, <4>1, <4>2 DEF Value
      <4>. QED  BY <3>1, <4>1, <4>3 DEF AckedIsKept
    <3>2. \A s \in Sections : ackedDoc'[s] # Unknown => doc'[s] = ackedDoc'[s]
      BY <2>3 DEF AckedIsKept
    <3>. QED  BY <3>1, <3>2 DEF AckedIsKept
  <2>. QED  BY <2>6, <2>7, <2>8 DEF Kempt
<1>. QED  BY <1>1, <1>2

(* A file of an environment is written, and its other calls are told.      *)
LEMMA KemptEnv ==
  ASSUME IInv, NEW t \in Tasks, PersistEnv(t) \/ RemoveEnv(t)
  PROVE  Kempt' /\ AckedIsKept'
<1>. TypeOK /\ Kempt /\ AckedIsKept /\ task \in [Tasks -> Task]
       /\ file \in [Envs -> EnvFile \cup {None}]
  BY DEF IInv, TypeOK
<1>. DEFINE c == Arg(t)
<1>1. /\ WritesEnv(t) /\ Busy(t) /\ task[t].pc = "write"
      /\ c.fn \in {"create_env", "set_var", "delete_var", "delete_env"}
      /\ file' = [file EXCEPT ![c.env] = IF c.fn = "delete_env" THEN None ELSE task[t].snap]
  BY DEF PersistEnv, RemoveEnv, At
<1>2. c.env \in Envs /\ (c.fn \in {"set_var", "delete_var"} => c.key \in Keys)
  BY <1>1, ArgTypes
<1>3. PICK self \in AfterCall(t, "ok") : task' = Overtaken(t, self)
  BY <1>1 DEF WritesEnv
<1>4. self \in Task /\ self.pc = "read"
  BY AfterCallType
<1>5. /\ UNCHANGED <<keychain, doc, ackedDoc>>
      /\ acked' = [x \in Variables |->
           IF x[1] # c.env THEN acked[x]
           ELSE IF task[t].stale THEN Unknown
           ELSE IF c.fn \in {"create_env", "delete_env"} THEN Unset
           ELSE IF x[2] # c.key THEN acked[x]
           ELSE IF c.fn = "set_var" THEN c.val ELSE Unset]
  BY <1>1 DEF WritesEnv, AcknowledgeEnv
<1>6. /\ Overtaken(t, self)[t] = self
      /\ \A u \in Tasks \ {t} :
           /\ Kept(task[u], Overtaken(t, self)[u])
           /\ Same(t, u) => Overtaken(t, self)[u].stale
  BY <1>4, OvertakenType
<1>7. task'[t].pc = "read"
  BY <1>3, <1>4, <1>6
<1>8. ASSUME NEW u \in Tasks \ {t}
      PROVE  FreshEnv(u)' /\ FreshDoc(u)'
  <2>1. FreshEnv(u) /\ FreshDoc(u) /\ Kept(task[u], task'[u])
        /\ (Same(t, u) => task'[u].stale)
    BY <1>3, <1>6 DEF Kempt
  <2>2. FreshDoc(u)'
    BY <1>5, <2>1, FreshDocStays
  <2>3. ASSUME Fresh(u), Arg(u).fn # "patch", ~task'[u].stale
        PROVE  /\ file'[Arg(u).env] = file[Arg(u).env]
               /\ \A k \in Keys : acked'[<<Arg(u).env, k>>] = acked[<<Arg(u).env, k>>]
    <3>1. Arg(u).env \in Envs
      BY <2>3, ArgTypes DEF Fresh
    <3>2. Arg(u).env # c.env
      BY <1>1, <2>1, <2>3 DEF Same, SameFile, Fresh
    <3>3. \A k \in Keys : <<Arg(u).env, k>> \in Variables
      BY <3>1 DEF Variables
    <3>. QED  BY <1>1, <1>5, <3>1, <3>2, <3>3
  <2>4. ASSUME Fresh(u), Arg(u).fn \in {"set_var", "delete_var"}
        PROVE  Arg(u).key \in Keys
    BY <2>4, ArgTypes DEF Fresh
  <2>5. FreshEnv(u)'
    BY <1>5, <2>1, <2>3, <2>4, FreshEnvStays
  <2>. QED  BY <2>2, <2>5
<1>9. FreshEnv(t)' /\ FreshDoc(t)'
  BY <1>7, NothingRead
<1>10. ASSUME NEW x \in Variables, acked'[x] # Unknown
       PROVE  Value(x[1], x[2])' = acked'[x]
  <2>1. x[1] \in Envs /\ x[2] \in Keys /\ x = <<x[1], x[2]>>
    BY DEF Variables
  <2>2. CASE x[1] # c.env
    <3>1. file'[x[1]] = file[x[1]] /\ acked'[x] = acked[x]
      BY <1>1, <1>5, <2>1, <2>2
    <3>2. Value(x[1], x[2])' = Value(x[1], x[2])
      BY <1>5, <3>1 DEF Value
    <3>. QED  BY <1>10, <3>1, <3>2 DEF AckedIsKept
  <2>3. CASE x[1] = c.env /\ c.fn = "delete_env"
    <3>1. file'[x[1]] = None
      BY <1>1, <1>2, <2>3
    <3>2. acked'[x] = Unset
      BY <1>5, <1>10, <2>3
    <3>. QED  BY <3>1, <3>2 DEF Value
  <2>4. CASE x[1] = c.env /\ c.fn # "delete_env"
    <3>1. ~task[t].stale
      BY <1>5, <1>10, <2>4
    <3>2. task[t].snap \in EnvFile /\ file'[x[1]] = task[t].snap /\ task[t].snap # None
      BY <1>1, <1>2, <2>4, ConfigAssumption DEF TypeOK, Task
    <3>3. Value(x[1], x[2])' = SnapValue(t, x[2])
      BY <1>5, <2>1, <2>4, <3>2 DEF Value, SnapValue
    <3>4. FreshEnv(t) /\ Fresh(t) /\ c.fn # "patch"
      BY <1>1, <3>1 DEF Kempt, Fresh
    <3>5. CASE c.fn = "create_env"
      <4>1. task[t].snap = NoVars /\ acked'[x] = Unset
        BY <1>1, <1>5, <1>10, <2>4, <3>4, <3>5 DEF FreshEnv
      <4>2. SnapValue(t, x[2]) = Unset
        BY <2>1, <4>1, ConfigAssumption DEF SnapValue, NoVars
      <4>. QED  BY <3>3, <4>1, <4>2
    <3>6. CASE c.fn \in {"set_var", "delete_var"} /\ x[2] = c.key
      <4>1. SnapValue(t, c.key) = Given(c)
        BY <1>1, <3>4, <3>6 DEF FreshEnv
      <4>2. acked'[x] = Given(c)
        BY <1>5, <2>4, <3>1, <3>6 DEF Given
      <4>. QED  BY <3>3, <3>6, <4>1, <4>2
    <3>7. CASE c.fn \in {"set_var", "delete_var"} /\ x[2] # c.key
      <4>1. acked'[x] = acked[x] /\ x = <<c.env, x[2]>>
        BY <1>5, <2>1, <2>4, <3>1, <3>7
      <4>2. x[2] \in Keys \ {c.key} /\ acked[<<c.env, x[2]>>] # Unknown
        BY <1>10, <2>1, <3>7, <4>1
      <4>3. SnapValue(t, x[2]) = acked[<<c.env, x[2]>>]
        BY <1>1, <3>4, <3>7, <4>2 DEF FreshEnv
      <4>. QED  BY <3>3, <4>1, <4>3
    <3>. QED  BY <1>1, <2>4, <3>5, <3>6, <3>7
  <2>. QED  BY <2>2, <2>3, <2>4
<1>11. AckedIsKept'
  <2>1. \A s \in Sections : ackedDoc'[s] # Unknown => doc'[s] = ackedDoc'[s]
    BY <1>5 DEF AckedIsKept
  <2>. QED  BY <1>10, <2>1 DEF AckedIsKept
<1>. QED  BY <1>8, <1>9, <1>11 DEF Kempt

(* A section is written, with the others of its file as they were read.    *)
LEMMA KemptDoc ==
  ASSUME IInv, NEW t \in Tasks, PersistDoc(t)
  PROVE  Kempt' /\ AckedIsKept'
<1>. TypeOK /\ Kempt /\ AckedIsKept /\ task \in [Tasks -> Task]
  BY DEF IInv, TypeOK
<1>. DEFINE c == Arg(t)
<1>1. Busy(t) /\ task[t].pc = "write" /\ c.fn = "patch"
  BY DEF PersistDoc, At
<1>2. doc' = [s \in Sections |-> IF FileOf(s) # FileOf(c.section) THEN doc[s]
                                 ELSE IF s = c.section THEN c.val ELSE task[t].seen[s]]
  BY DEF PersistDoc
<1>3. PICK self \in AfterCall(t, "ok") : task' = Overtaken(t, self)
  BY DEF PersistDoc
<1>4. self \in Task /\ self.pc = "read"
  BY AfterCallType
<1>5. /\ UNCHANGED <<file, keychain, acked>>
      /\ ackedDoc' = [s \in Sections |->
           IF FileOf(s) # FileOf(c.section) THEN ackedDoc[s]
           ELSE IF task[t].stale THEN Unknown
           ELSE IF s = c.section THEN c.val ELSE ackedDoc[s]]
  BY DEF PersistDoc, AcknowledgeDoc
<1>6. /\ Overtaken(t, self)[t] = self
      /\ \A u \in Tasks \ {t} :
           /\ Kept(task[u], Overtaken(t, self)[u])
           /\ Same(t, u) => Overtaken(t, self)[u].stale
  BY <1>4, OvertakenType
<1>7. task'[t].pc = "read"
  BY <1>3, <1>4, <1>6
<1>8. ASSUME NEW u \in Tasks \ {t}
      PROVE  FreshEnv(u)' /\ FreshDoc(u)'
  <2>1. FreshEnv(u) /\ FreshDoc(u) /\ Kept(task[u], task'[u])
        /\ (Same(t, u) => task'[u].stale)
    BY <1>3, <1>6 DEF Kempt
  <2>2. FreshEnv(u)'
    BY <1>5, <2>1, FreshEnvStays
  <2>3. ASSUME Fresh(u), Arg(u).fn = "patch", ~task'[u].stale, NEW s \in Sections,
               FileOf(s) = FileOf(Arg(u).section)
        PROVE  doc'[s] = doc[s]
    <3>1. FileOf(c.section) # FileOf(Arg(u).section)
      BY <1>1, <2>1, <2>3 DEF Same, SameFile, Fresh
    <3>. QED  BY <1>2, <2>3, <3>1
  <2>4. FreshDoc(u)'
    BY <2>1, <2>3, FreshDocStays
  <2>. QED  BY <2>2, <2>4
<1>9. FreshEnv(t)' /\ FreshDoc(t)'
  BY <1>7, NothingRead
<1>10. ASSUME NEW s \in Sections, ackedDoc'[s] # Unknown
       PROVE  doc'[s] = ackedDoc'[s]
  <2>1. CASE FileOf(s) # FileOf(c.section)
    BY <1>2, <1>5, <1>10, <2>1 DEF AckedIsKept
  <2>2. CASE FileOf(s) = FileOf(c.section) /\ s = c.section
    BY <1>2, <1>5, <1>10, <2>2
  <2>3. CASE FileOf(s) = FileOf(c.section) /\ s # c.section
    <3>1. ~task[t].stale /\ ackedDoc'[s] = ackedDoc[s]
      BY <1>5, <1>10, <2>3
    <3>2. task[t].seen[s] = doc[s]
      BY <1>1, <2>3, <3>1 DEF Kempt, FreshDoc, Fresh
    <3>. QED  BY <1>2, <1>10, <2>3, <3>1, <3>2 DEF AckedIsKept
  <2>. QED  BY <2>1, <2>2, <2>3
<1>11. AckedIsKept'
  <2>1. \A x \in Variables : acked'[x] # Unknown => Value(x[1], x[2])' = acked'[x]
    BY <1>5 DEF AckedIsKept, Value
  <2>. QED  BY <1>10, <2>1 DEF AckedIsKept
<1>. QED  BY <1>8, <1>9, <1>11 DEF Kempt

LEMMA IInvNext == IInv /\ [Next]_vars => IInv'
<1> SUFFICES ASSUME IInv, [Next]_vars PROVE Kempt' /\ AckedIsKept'
  BY TypeNext DEF IInv
<1>. Kempt /\ AckedIsKept
  BY DEF IInv
<1>1. CASE UNCHANGED vars
  <2>1. UNCHANGED <<file, keychain, doc, task, acked, ackedDoc>>
    BY <1>1 DEF vars, history
  <2>2. \A u \in Tasks : Kept(task[u], task'[u])
    BY <2>1 DEF Kept
  <2>. QED  BY <2>1, <2>2, FreshUnchanged, AckedUnchanged DEF Kempt
<1>2. CASE Crash
  <2>1. UNCHANGED <<file, keychain, doc, acked, ackedDoc>>
    BY <1>2 DEF Crash, history
  <2>2. \A t \in Tasks : task'[t].pc = "read"
    BY <1>2, IdleType DEF Crash
  <2>. QED  BY <2>1, <2>2, NothingRead, AckedUnchanged DEF Kempt
<1>3. ASSUME NEW t \in Tasks, Request(t)
      PROVE  Kempt' /\ AckedIsKept'
  BY <1>3, KemptRequest
<1>4. ASSUME NEW t \in Tasks, Step(t)
      PROVE  Kempt' /\ AckedIsKept'
  BY <1>4, KemptReads, KemptKeychain, KemptEnv, KemptDoc DEF Step
<1>. QED  BY <1>1, <1>2, <1>3, <1>4 DEF Next

(* An acknowledged update is kept, for any environments, variables and     *)
(* values, any number of commands at once, and crashes and failures of the *)
(* keychain and of the files at any point (set_var, delete_var, delete_env,*)
(* set_active_env, set_ui, the migration).                                 *)
THEOREM AckedIsKeptHolds == Spec => []AckedIsKept
<1>1. Init => IInv
  BY IInvInit
<1>2. IInv /\ [Next]_vars => IInv'
  BY IInvNext
<1>3. IInv => AckedIsKept
  BY DEF IInv
<1>. QED  BY <1>1, <1>2, <1>3, PTL DEF Spec

-----------------------------------------------------------------------------
(* The migration.  While it runs alone, every variable of the tables is    *)
(* carried over already or its call is still to be made; the file that a   *)
(* call has read is the one there is, and an environment is created only   *)
(* where there was none.                                                   *)

HasLegacy(e, k) == legacy[e] # None /\ legacy[e][k] # Unset

Old(t, e, k) == LegacyValue(<<e, k>>, task[t].unread)

SetOf(t, e, k) == [fn |-> "set_var", env |-> e, key |-> k, val |-> Old(t, e, k)]

MigrationCalls(t) == Creates \cup Sets(task[t].unread) \cup {Patch("ui", p) : p \in Prefs}

Migrates(t) == Busy(t) /\ task[t].what = "migration" /\ task[t].alone

Due(t) == task[t].todo \cup {task[t].call}

Carried(t) ==
  \A e \in Envs, k \in Keys :
    HasLegacy(e, k) => SetOf(t, e, k) \in Due(t) \/ Value(e, k) = Old(t, e, k)

Knows(t) ==
  /\ task[t].pc = "keychain" => Arg(t).fn = "set_var" /\ task[t].snap = file[Arg(t).env]
  /\ task[t].pc = "write" /\ Arg(t).fn = "create_env" => file[Arg(t).env] = None
  /\ task[t].pc = "write" /\ Arg(t).fn = "set_var" =>
       /\ SnapValue(t, Arg(t).key) = Arg(t).val
       /\ \A k \in Keys \ {Arg(t).key} : SnapValue(t, k) = Value(Arg(t).env, k)

Sound(t) == Due(t) \subseteq MigrationCalls(t) /\ Carried(t) /\ Knows(t)

OnItsOwn(t) ==
  Busy(t) => /\ ~task[t].migrated
             /\ task[t].alone => \A u \in Tasks \ {t} : ~Busy(u)

MigrationInv == \A t \in Tasks : OnItsOwn(t) /\ (Migrates(t) => Sound(t))

(* The calls of a migration are of three functions, and set what it reads  *)
(* of the tables.                                                          *)
LEMMA MigrationCallTypes ==
  ASSUME NEW t \in Tasks, NEW c \in MigrationCalls(t)
  PROVE  \/ c.fn = "create_env" /\ c.env \in Envs
         \/ /\ c.fn = "set_var" /\ c.env \in Envs /\ c.key \in Keys
            /\ HasLegacy(c.env, c.key) /\ c.val = Old(t, c.env, c.key)
            /\ c = SetOf(t, c.env, c.key)
         \/ c.fn = "patch"
<1>1. CASE c \in Creates
  BY <1>1 DEF Creates
<1>2. CASE c \in Sets(task[t].unread)
  <2>1. PICK x \in Rows :
          c = [fn |-> "set_var", env |-> x[1], key |-> x[2],
               val |-> LegacyValue(x, task[t].unread)]
    BY <1>2 DEF Sets
  <2>2. x[1] \in Envs /\ x[2] \in Keys /\ x = <<x[1], x[2]>> /\ HasLegacy(x[1], x[2])
    BY DEF Rows, Variables, HasLegacy
  <2>3. Old(t, x[1], x[2]) = LegacyValue(x, task[t].unread)
    BY <2>2 DEF Old
  <2>. QED  BY <2>1, <2>2, <2>3 DEF SetOf
<1>3. CASE c \in {Patch("ui", p) : p \in Prefs}
  BY <1>3 DEF Patch
<1>. QED  BY <1>1, <1>2, <1>3 DEF MigrationCalls

(* Every variable of the tables has one of them.                           *)
LEMMA SetOfIsCall ==
  ASSUME NEW t \in Tasks, NEW e \in Envs, NEW k \in Keys, HasLegacy(e, k)
  PROVE  SetOf(t, e, k) \in Sets(task[t].unread)
<1> DEFINE x == <<e, k>>
<1>1. x \in Rows /\ x[1] = e /\ x[2] = k
  BY DEF Rows, Variables, HasLegacy
<1>2. SetOf(t, e, k) = [fn |-> "set_var", env |-> x[1], key |-> x[2],
                        val |-> LegacyValue(x, task[t].unread)]
  BY <1>1 DEF SetOf, Old
<1> HIDE DEF x
<1>. QED  BY <1>1, <1>2 DEF Sets

(* A variable that has been carried over is in a file.                     *)
LEMMA CarriedIsThere ==
  ASSUME TypeOK, NEW t \in Tasks, NEW e \in Envs, NEW k \in Keys, HasLegacy(e, k),
         Value(e, k) = Old(t, e, k)
  PROVE  file[e] # None
<1>1. <<e, k>> \in Rows
  BY DEF Rows, Variables, HasLegacy
<1>2. Old(t, e, k) # Unset
  BY <1>1, RowTypes DEF Old
<1>. QED  BY <1>2 DEF Value

(* After a call, a task goes on with one it has to make, or is idle: with  *)
(* success if it was a migration that has none left.                       *)
LEMMA AfterCallTask ==
  ASSUME TypeOK, NEW t \in Tasks, NEW out, NEW self \in AfterCall(t, out)
  PROVE  /\ self.pc = "read"
         /\ \/ /\ out = "ok" /\ self.call \in task[t].todo
               /\ self.todo = task[t].todo \ {self.call}
               /\ self.what = task[t].what /\ self.alone = task[t].alone
               /\ self.unread = task[t].unread /\ self.migrated = task[t].migrated
            \/ /\ self.call = None
               /\ self.migrated => out = "ok" /\ task[t].what = "migration" /\ task[t].todo = {}
<1>1. task[t] \in Task
  BY DEF TypeOK
<1>2. CASE out = "ok" /\ task[t].todo # {}
  <2>1. PICK c \in Ready(task[t].todo) :
          self = [task[t] EXCEPT !.call = c, !.todo = @ \ {c}, !.pc = "read", !.stale = FALSE]
    BY <1>2 DEF AfterCall
  <2>2. c \in task[t].todo
    BY <2>1 DEF Ready
  <2>. QED  BY <1>1, <1>2, <2>1, <2>2 DEF Task
<1>3. CASE ~(out = "ok" /\ task[t].todo # {})
  <2>1. self = Idle(task[t].what = "migration" /\ out = "ok")
    BY <1>3 DEF AfterCall
  <2>2. (task[t].what = "migration" /\ out = "ok") \in BOOLEAN
    OBVIOUS
  <2>3. /\ self.pc = "read" /\ self.call = None
        /\ self.migrated = (task[t].what = "migration" /\ out = "ok")
    BY <2>1, <2>2, IdleType
  <2>. QED  BY <1>3, <2>3
<1>. QED  BY <1>2, <1>3

(* What a step makes of its own task.                                      *)
GoesOn(old, new) ==
  /\ new.call = old.call /\ new.todo = old.todo /\ new.what = old.what
  /\ new.alone = old.alone /\ new.unread = old.unread /\ new.migrated = old.migrated

(* A step is one of a busy task.  Others are told that their reads are     *)
(* stale, and nothing else.                                                *)
LEMMA StepTasks ==
  ASSUME TypeOK, NEW t \in Tasks, Step(t)
  PROVE  /\ Busy(t)
         /\ \A u \in Tasks \ {t} : GoesOn(task[u], task'[u])
<1>1. task \in [Tasks -> Task]
  BY DEF TypeOK
<1>2. Busy(t)
  BY DEF Step, ReadFails, ReadForCreate, ReadEnv, ReadDoc, EnsureKeychainRef, StoreSecret,
         StoreFails, DeleteSecrets, PersistEnv, RemoveEnv, PersistDoc, WriteFails, At
<1>3. ASSUME NEW self, task' = [task EXCEPT ![t] = self]
      PROVE  \A u \in Tasks \ {t} : GoesOn(task[u], task'[u])
  BY <1>1, <1>3 DEF GoesOn
<1>4. ASSUME NEW self, task' = Overtaken(t, self)
      PROVE  \A u \in Tasks \ {t} : GoesOn(task[u], task'[u])
  <2> SUFFICES ASSUME NEW u \in Tasks \ {t}
               PROVE  GoesOn(task[u], task'[u])
    OBVIOUS
  <2> DEFINE b == task[u].stale \/ (Busy(u) /\ task[u].pc # "read" /\ SameFile(Arg(t), Arg(u)))
  <2>1. task'[u] = [task[u] EXCEPT !.stale = b]
    BY <1>4 DEF Overtaken
  <2>. HIDE DEF b
  <2>. QED  BY <1>1, <2>1 DEF GoesOn, Task
<1>5. ASSUME NEW out, Returns(t, out)
      PROVE  \A u \in Tasks \ {t} : GoesOn(task[u], task'[u])
  BY <1>3, <1>5 DEF Returns
<1>6. ASSUME NEW pc, NEW f, NEW d, Reads(t, pc, f, d)
      PROVE  \A u \in Tasks \ {t} : GoesOn(task[u], task'[u])
  BY <1>1, <1>6 DEF Reads, GoesOn
<1>7. ASSUME NEW secrets, NEW changed, NEW f, Keychain(t, secrets, changed, f)
      PROVE  \A u \in Tasks \ {t} : GoesOn(task[u], task'[u])
  BY <1>3, <1>4, <1>7 DEF Keychain
<1>8. CASE ReadFails(t) \/ WriteFails(t)
  BY <1>2, <1>5, <1>8 DEF ReadFails, WriteFails
<1>9. CASE ReadForCreate(t) \/ ReadEnv(t) \/ ReadDoc(t)
  BY <1>2, <1>5, <1>6, <1>9 DEF ReadForCreate, ReadEnv, ReadDoc
<1>10. CASE EnsureKeychainRef(t) \/ DeleteSecrets(t)
  BY <1>2, <1>5, <1>7, <1>10 DEF EnsureKeychainRef, StoreSecret, DeleteSecrets
<1>11. CASE PersistEnv(t) \/ RemoveEnv(t) \/ PersistDoc(t)
  BY <1>2, <1>4, <1>11 DEF PersistEnv, RemoveEnv, PersistDoc, WritesEnv
<1>. QED  BY <1>2, <1>8, <1>9, <1>10, <1>11 DEF Step

(* The calls that end well: what they write is written, and an environment *)
(* to be created is there.                                                 *)
EndsWell(t) ==
  \/ ReadForCreate(t) /\ file[Arg(t).env] # None
  \/ PersistEnv(t) \/ RemoveEnv(t) \/ PersistDoc(t)

(* A step goes on with its call, without writing a file, or ends it.       *)
LEMMA OwnStep ==
  ASSUME TypeOK, NEW t \in Tasks, Step(t)
  PROVE  \/ /\ GoesOn(task[t], task'[t]) /\ UNCHANGED file
            /\ ReadForCreate(t) \/ ReadEnv(t) \/ ReadDoc(t) \/ EnsureKeychainRef(t)
                 \/ DeleteSecrets(t)
         \/ \E out \in {"ok", "error"} : \E self \in AfterCall(t, out) :
              task'[t] = self /\ (out = "ok" => EndsWell(t))
<1>1. task \in [Tasks -> Task]
  BY DEF TypeOK
<1>2. ASSUME NEW out \in {"ok", "error"}, Returns(t, out), out = "ok" => EndsWell(t)
      PROVE  \E o \in {"ok", "error"} : \E self \in AfterCall(t, o) :
               task'[t] = self /\ (o = "ok" => EndsWell(t))
  <2>1. PICK self \in AfterCall(t, out) : task' = [task EXCEPT ![t] = self]
    BY <1>2 DEF Returns
  <2>2. task'[t] = self
    BY <1>1, <2>1
  <2>. QED  BY <1>2, <2>2
<1>3. ASSUME NEW pc, NEW f, NEW d, Reads(t, pc, f, d)
      PROVE  GoesOn(task[t], task'[t])
  BY <1>1, <1>3 DEF Reads, GoesOn, Task
<1>4. CASE ReadFails(t) \/ WriteFails(t)
  <2>1. Returns(t, "error")
    BY <1>4 DEF ReadFails, WriteFails
  <2>. QED  BY <1>2, <2>1
<1>5. CASE ReadForCreate(t)
  <2>1. CASE file[Arg(t).env] = None
    <3>1. Reads(t, "write", NoVars, Defaults) /\ UNCHANGED file
      BY <1>5, <2>1 DEF ReadForCreate
    <3>. QED  BY <1>3, <1>5, <3>1
  <2>2. CASE file[Arg(t).env] # None
    <3>1. Returns(t, IF task[t].what = "migration" THEN "ok" ELSE "error")
      BY <1>5, <2>2 DEF ReadForCreate
    <3>2. EndsWell(t)
      BY <1>5, <2>2 DEF EndsWell
    <3>. QED  BY <1>2, <3>1, <3>2
  <2>. QED  BY <2>1, <2>2
<1>6. CASE ReadEnv(t) \/ ReadDoc(t)
  <2>1. /\ UNCHANGED file
        /\ \/ Returns(t, "error")
           \/ Reads(t, "keychain", file[Arg(t).env], Defaults)
           \/ Reads(t, "write", NoVars, doc)
    BY <1>6 DEF ReadEnv, ReadDoc
  <2>2. CASE Returns(t, "error")
    BY <1>2, <2>2
  <2>3. CASE \/ Reads(t, "keychain", file[Arg(t).env], Defaults)
             \/ Reads(t, "write", NoVars, doc)
    BY <1>3, <1>6, <2>1, <2>3
  <2>. QED  BY <2>1, <2>2, <2>3
<1>7. CASE EnsureKeychainRef(t) \/ DeleteSecrets(t)
  <2>1. CASE Returns(t, "error")
    BY <1>2, <2>1
  <2>2. CASE ~Returns(t, "error")
    <3>1. PICK secrets \in [Variables -> Secrets \cup {None}], f \in EnvFile,
               changed \in SUBSET Variables : Keychain(t, secrets, changed, f)
      BY <1>7, <2>2, KeychainStep
    <3>2. UNCHANGED file
      BY <3>1 DEF Keychain
    <3>3. task'[t] = [task[t] EXCEPT !.pc = "write", !.snap = f]
      BY <3>1, KeychainTask
    <3>4. GoesOn(task[t], task'[t])
      BY <1>1, <3>3 DEF GoesOn, Task
    <3>. QED  BY <1>7, <3>2, <3>4
  <2>. QED  BY <2>1, <2>2
<1>8. CASE PersistEnv(t) \/ RemoveEnv(t) \/ PersistDoc(t)
  <2>1. PICK self \in AfterCall(t, "ok") : task' = Overtaken(t, self)
    BY <1>8 DEF PersistEnv, RemoveEnv, PersistDoc, WritesEnv
  <2>2. task'[t] = self
    BY <2>1 DEF Overtaken
  <2>3. EndsWell(t)
    BY <1>8 DEF EndsWell
  <2>. QED  BY <2>1, <2>2, <2>3
<1>. QED  BY <1>4, <1>5, <1>6, <1>7, <1>8 DEF Step

(* When a call of the migration has ended well, the others are still to be *)
(* made, and what it was to carry over is there.                           *)
LEMMA CarriedOver ==
  ASSUME TypeOK, NEW t \in Tasks, Migrates(t), Sound(t), EndsWell(t),
         NEW e \in Envs, NEW k \in Keys, HasLegacy(e, k)
  PROVE  SetOf(t, e, k) \in task[t].todo \/ Value(e, k)' = Old(t, e, k)
<1> DEFINE c == Arg(t)
<1>0. c \in MigrationCalls(t) /\ c = task[t].call
  BY DEF Sound, Due, Arg
<1>1. SUFFICES ASSUME SetOf(t, e, k) \notin task[t].todo
               PROVE  Value(e, k)' = Old(t, e, k)
  OBVIOUS
<1>2. SetOf(t, e, k) = c \/ Value(e, k) = Old(t, e, k)
  BY <1>0, <1>1 DEF Sound, Carried, Due
<1>3. SetOf(t, e, k).fn = "set_var" /\ SetOf(t, e, k).env = e /\ SetOf(t, e, k).key = k
        /\ SetOf(t, e, k).val = Old(t, e, k)
  BY DEF SetOf
<1>4. CASE ReadForCreate(t) /\ file[Arg(t).env] # None
  <2>1. UNCHANGED <<file, keychain>> /\ c.fn = "create_env"
    BY <1>4 DEF ReadForCreate, At
  <2>2. Value(e, k) = Old(t, e, k)
    BY <1>2, <1>3, <2>1
  <2>. QED  BY <2>1, <2>2 DEF Value
<1>5. CASE PersistEnv(t)
  <2>1. /\ c.fn \in {"create_env", "set_var"} /\ task[t].pc = "write" /\ c.env \in Envs
        /\ UNCHANGED keychain
        /\ file' = [file EXCEPT ![c.env] = task[t].snap]
    <3>1. c.fn \in {"create_env", "set_var", "delete_var"} /\ task[t].pc = "write"
      BY <1>5 DEF PersistEnv, At
    <3>. QED  BY <1>0, <1>5, <3>1, MigrationCallTypes DEF PersistEnv, WritesEnv
  <2>2. file \in [Envs -> EnvFile \cup {None}] /\ task[t].snap \in EnvFile /\ task[t].snap # None
    BY ConfigAssumption DEF TypeOK, Task
  <2>3. CASE e # c.env
    <3>1. Value(e, k) = Old(t, e, k)
      BY <1>2, <1>3, <2>3
    <3>2. file'[e] = file[e]
      BY <2>1, <2>2, <2>3
    <3>. QED  BY <2>1, <3>1, <3>2 DEF Value
  <2>4. CASE e = c.env /\ c.fn = "create_env"
    <3>1. file[e] = None
      BY <2>1, <2>4 DEF Sound, Knows
    <3>2. Value(e, k) = Old(t, e, k)
      BY <1>2, <1>3, <2>4
    <3>. QED  BY <3>1, <3>2, CarriedIsThere
  <2>5. CASE e = c.env /\ c.fn = "set_var"
    <3>1. Value(e, k)' = SnapValue(t, k)
      BY <2>1, <2>2, <2>5 DEF Value, SnapValue
    <3>2. CASE k = c.key
      <4>1. SnapValue(t, k) = c.val /\ c = SetOf(t, c.env, c.key)
        BY <1>0, <2>1, <2>5, <3>2, MigrationCallTypes DEF Sound, Knows
      <4>. QED  BY <1>3, <2>5, <3>1, <3>2, <4>1
    <3>3. CASE k # c.key
      <4>1. Value(e, k) = Old(t, e, k)
        BY <1>2, <1>3, <3>3
      <4>2. SnapValue(t, k) = Value(e, k)
        BY <2>1, <2>5, <3>3 DEF Sound, Knows
      <4>. QED  BY <3>1, <4>1, <4>2
    <3>. QED  BY <3>2, <3>3
  <2>. QED  BY <2>1, <2>3, <2>4, <2>5
<1>6. CASE RemoveEnv(t)
  BY <1>0, <1>6, MigrationCallTypes DEF RemoveEnv, At
<1>7. CASE PersistDoc(t)
  <2>1. UNCHANGED <<file, keychain>> /\ c.fn = "patch"
    BY <1>7 DEF PersistDoc, At
  <2>2. Value(e, k) = Old(t, e, k)
    BY <1>2, <1>3, <2>1
  <2>. QED  BY <2>1, <2>2 DEF Value
<1>. QED  BY <1>4, <1>5, <1>6, <1>7 DEF EndsWell

(* Reading and changing the keychain leave what has been carried over, and *)
(* what the call then knows is so.                                         *)
LEMMA KnowsStep ==
  ASSUME TypeOK, NEW t \in Tasks, Migrates(t), Sound(t), GoesOn(task[t], task'[t]),
         UNCHANGED file,
         ReadForCreate(t) \/ ReadEnv(t) \/ ReadDoc(t) \/ EnsureKeychainRef(t) \/ DeleteSecrets(t)
  PROVE  /\ Knows(t)'
         /\ \A e \in Envs, k \in Keys :
              SetOf(t, e, k) = task[t].call \/ Value(e, k)' = Value(e, k)
<1> DEFINE c == Arg(t)
<1>0. c \in MigrationCalls(t) /\ c = task[t].call /\ Arg(t)' = c /\ task'[t].call # None
  BY DEF Sound, Due, Arg, GoesOn, Migrates, Busy
<1>1. /\ task[t].snap \in EnvFile /\ task \in [Tasks -> Task]
      /\ file \in [Envs -> EnvFile \cup {None}]
  BY DEF TypeOK, Task
<1>2. ASSUME NEW out, Returns(t, out), task[t].pc = "read" \/ out = "error"
      PROVE  Knows(t)'
  <2>1. task'[t].pc = "read"
    BY <1>1, <1>2, AfterCallTask DEF Returns
  <2>. QED  BY <2>1 DEF Knows
<1>3. CASE ReadForCreate(t)
  <2>1. UNCHANGED keychain /\ c.fn = "create_env" /\ task[t].pc = "read"
    BY <1>3 DEF ReadForCreate, At
  <2>2. Knows(t)'
    <3>1. CASE file[c.env] = None
      <4>1. task'[t].pc = "write"
        BY <1>1, <1>3, <3>1 DEF ReadForCreate, Reads, Task
      <4>. QED  BY <1>0, <2>1, <3>1, <4>1 DEF Knows
    <3>2. CASE file[c.env] # None
      BY <1>2, <1>3, <2>1, <3>2 DEF ReadForCreate
    <3>. QED  BY <3>1, <3>2
  <2>. QED  BY <2>1, <2>2 DEF Value
<1>4. CASE ReadEnv(t)
  <2>1. UNCHANGED keychain /\ c.fn = "set_var" /\ task[t].pc = "read"
    BY <1>0, <1>4, MigrationCallTypes DEF ReadEnv, At
  <2>2. Returns(t, "error") \/ Reads(t, "keychain", file[c.env], Defaults)
    BY <1>4 DEF ReadEnv
  <2>3. CASE Reads(t, "keychain", file[c.env], Defaults)
    <3>1. task'[t].pc = "keychain" /\ task'[t].snap = file[c.env]
      BY <1>1, <2>3 DEF Reads, Task
    <3>2. Knows(t)'
      BY <1>0, <2>1, <3>1 DEF Knows
    <3>. QED  BY <2>1, <3>2 DEF Value
  <2>. QED  BY <1>2, <2>1, <2>2, <2>3 DEF Value
<1>5. CASE ReadDoc(t)
  <2>1. UNCHANGED keychain /\ c.fn = "patch" /\ task[t].pc = "read"
    BY <1>5 DEF ReadDoc, At, history
  <2>2. Returns(t, "error") \/ Reads(t, "write", NoVars, doc)
    BY <1>5 DEF ReadDoc
  <2>3. CASE Reads(t, "write", NoVars, doc)
    <3>1. task'[t].pc = "write"
      BY <1>1, <2>3 DEF Reads, Task
    <3>2. Knows(t)'
      BY <1>0, <2>1, <3>1 DEF Knows
    <3>. QED  BY <2>1, <3>2 DEF Value
  <2>. QED  BY <1>2, <2>1, <2>2, <2>3 DEF Value
<1>6. CASE EnsureKeychainRef(t) \/ DeleteSecrets(t)
  <2>1. CASE Returns(t, "error") /\ UNCHANGED <<legacy, file, keychain, doc, history>>
    BY <1>2, <2>1 DEF Value
  <2>2. CASE ~(Returns(t, "error") /\ UNCHANGED <<legacy, file, keychain, doc, history>>)
    <3>1. PICK secrets \in [Variables -> Secrets \cup {None}], f \in EnvFile,
               changed \in SUBSET Variables :
                 /\ Keychain(t, secrets, changed, f)
                 /\ \A x \in Variables \ changed : secrets[x] = keychain[x]
                 /\ At(t, "keychain", {"set_var", "delete_var", "delete_env"})
                 /\ \/ /\ c.fn = "set_var" /\ c.val \in Secrets
                       /\ f = [task[t].snap EXCEPT ![c.key] = Ref]
                       /\ secrets[<<c.env, c.key>>] = c.val
                       /\ changed = {<<c.env, c.key>>}
                    \/ /\ c.fn = "set_var" /\ c.val \in Plain
                       /\ f = [task[t].snap EXCEPT ![c.key] = c.val]
                       /\ changed \subseteq {<<c.env, c.key>>}
                    \/ c.fn \in {"delete_var", "delete_env"}
      BY <1>6, <2>2, KeychainStep
    <3>2. /\ c.fn = "set_var" /\ c.env \in Envs /\ c.key \in Keys
          /\ c = SetOf(t, c.env, c.key) /\ task[t].pc = "keychain"
          /\ task[t].snap = file[c.env]
      <4>1. task[t].pc = "keychain" /\ c.fn \in {"set_var", "delete_var", "delete_env"}
        BY <3>1 DEF At
      <4>2. c.fn = "set_var" /\ task[t].snap = file[c.env]
        BY <4>1 DEF Sound, Knows
      <4>. QED  BY <1>0, <4>1, <4>2, MigrationCallTypes
    <3>3. changed \subseteq {<<c.env, c.key>>} /\ keychain' = secrets
      BY <3>1, <3>2 DEF Keychain
    <3>4. task'[t].pc = "write" /\ task'[t].snap = f
      <4>1. Keychain(t, secrets, changed, f)
        BY <3>1
      <4>2. task'[t] = [task[t] EXCEPT !.pc = "write", !.snap = f]
        BY <4>1, KeychainTask
      <4>. QED  BY <1>1, <4>2 DEF Task
    <3>5. ASSUME NEW e \in Envs, NEW k \in Keys, e # c.env \/ k # c.key
          PROVE  keychain'[<<e, k>>] = keychain[<<e, k>>]
      <4>1. <<e, k>> \in Variables \ changed
        BY <3>3, <3>5 DEF Variables
      <4>. QED  BY <3>1, <3>3, <4>1
    <3>6. ASSUME NEW e \in Envs, NEW k \in Keys
          PROVE  SetOf(t, e, k) = task[t].call \/ Value(e, k)' = Value(e, k)
      <4>1. CASE e = c.env /\ k = c.key
        BY <1>0, <3>2, <4>1
      <4>2. CASE e # c.env \/ k # c.key
        BY <3>5, <4>2 DEF Value
      <4>. QED  BY <4>1, <4>2
    <3>7. ASSUME NEW k \in Keys \ {c.key}
          PROVE  SnapValue(t, k)' = Value(c.env, k)'
      <4>1. f[k] = file[c.env][k] /\ file[c.env] # None
        BY <1>1, <3>1, <3>2, ConfigAssumption DEF EnvFile
      <4>2. SnapValue(t, k)' = IF f[k] = Ref THEN keychain'[<<c.env, k>>] ELSE f[k]
        BY <1>0, <3>4 DEF SnapValue
      <4>. QED  BY <1>0, <4>1, <4>2 DEF Value
    <3>8. SnapValue(t, c.key)' = c.val
      <4>1. SnapValue(t, c.key)' = IF f[c.key] = Ref THEN secrets[<<c.env, c.key>>] ELSE f[c.key]
        BY <1>0, <3>3, <3>4 DEF SnapValue
      <4>2. CASE c.val \in Secrets
        <5>1. c.val \notin Plain
          BY <4>2, ConfigAssumption
        <5>2. f[c.key] = Ref /\ secrets[<<c.env, c.key>>] = c.val
          BY <1>1, <3>1, <3>2, <5>1 DEF EnvFile
        <5>. QED  BY <4>1, <5>2
      <4>3. CASE c.val \notin Secrets
        <5>1. f[c.key] = c.val /\ c.val \in Plain
          BY <1>1, <3>1, <3>2, <4>3 DEF EnvFile
        <5>2. c.val # Ref
          BY <5>1, ConfigAssumption DEF Values
        <5>. QED  BY <4>1, <5>1, <5>2
      <4>. QED  BY <4>2, <4>3
    <3>9. Knows(t)'
      BY <1>0, <3>2, <3>4, <3>7, <3>8 DEF Knows
    <3>. QED  BY <3>6, <3>9
  <2>. QED  BY <2>1, <2>2
<1>. QED  BY <1>3, <1>4, <1>5, <1>6

(* What a migration has to do depends on the tables and on what it could   *)
(* not read of them.                                                       *)
LEMMA CallsStay ==
  ASSUME NEW t \in Tasks, UNCHANGED legacy, task'[t].unread = task[t].unread
  PROVE  /\ MigrationCalls(t)' = MigrationCalls(t)
         /\ \A e \in Envs, k \in Keys :
              /\ Old(t, e, k)' = Old(t, e, k) /\ SetOf(t, e, k)' = SetOf(t, e, k)
              /\ HasLegacy(e, k)' <=> HasLegacy(e, k)
<1>1. Rows' = Rows /\ Creates' = Creates
  BY DEF Rows, Creates
<1>2. \A x \in Rows : LegacyValue(x, task[t].unread)' = LegacyValue(x, task[t].unread)
  BY DEF LegacyValue
<1>3. Sets(task[t].unread)' = Sets(task[t].unread)
  BY <1>1, <1>2 DEF Sets
<1>4. \A e \in Envs, k \in Keys : Old(t, e, k)' = Old(t, e, k)
  BY DEF Old, LegacyValue
<1>5. \A e \in Envs, k \in Keys :
        SetOf(t, e, k)' = SetOf(t, e, k) /\ (HasLegacy(e, k)' <=> HasLegacy(e, k))
  BY <1>4 DEF SetOf, HasLegacy
<1>. QED  BY <1>1, <1>3, <1>4, <1>5 DEF MigrationCalls

(* A step of the migration keeps what is to be known of it.                *)
LEMMA SoundStep ==
  ASSUME TypeOK, NEW t \in Tasks, Migrates(t), Sound(t), Step(t), UNCHANGED legacy
  PROVE  Busy(t)' => Sound(t)'
<1>0. SUFFICES ASSUME Busy(t)'
               PROVE  Sound(t)'
  OBVIOUS
<1>1. task'[t].unread = task[t].unread
  <2>1. CASE GoesOn(task[t], task'[t])
    BY <2>1 DEF GoesOn
  <2>2. ASSUME NEW out \in {"ok", "error"}, NEW self \in AfterCall(t, out), task'[t] = self
        PROVE  task'[t].unread = task[t].unread
    BY <1>0, <2>2, AfterCallTask DEF Busy
  <2>. QED  BY <2>1, <2>2, OwnStep
<1>2. /\ MigrationCalls(t)' = MigrationCalls(t)
      /\ \A e \in Envs, k \in Keys :
           /\ Old(t, e, k)' = Old(t, e, k) /\ SetOf(t, e, k)' = SetOf(t, e, k)
           /\ HasLegacy(e, k)' <=> HasLegacy(e, k)
  BY <1>1, CallsStay
<1>3. CASE /\ GoesOn(task[t], task'[t]) /\ UNCHANGED file
           /\ ReadForCreate(t) \/ ReadEnv(t) \/ ReadDoc(t) \/ EnsureKeychainRef(t)
                \/ DeleteSecrets(t)
  <2>1. Due(t)' = Due(t)
    BY <1>3 DEF GoesOn, Due
  <2>2. Knows(t)' /\ \A e \in Envs, k \in Keys :
                       SetOf(t, e, k) = task[t].call \/ Value(e, k)' = Value(e, k)
    BY <1>3, KnowsStep
  <2>3. ASSUME NEW e \in Envs, NEW k \in Keys, HasLegacy(e, k)
        PROVE  SetOf(t, e, k) \in Due(t) \/ Value(e, k)' = Old(t, e, k)
    BY <2>2, <2>3 DEF Sound, Carried, Due
  <2>4. Carried(t)'
    BY <1>2, <2>1, <2>3 DEF Carried
  <2>. QED  BY <1>2, <2>1, <2>2, <2>4 DEF Sound
<1>4. ASSUME NEW out \in {"ok", "error"}, NEW self \in AfterCall(t, out), task'[t] = self,
             out = "ok" => EndsWell(t)
      PROVE  Sound(t)'
  <2>1. /\ EndsWell(t) /\ self.pc = "read" /\ self.call \in task[t].todo
        /\ self.todo = task[t].todo \ {self.call}
    BY <1>0, <1>4, AfterCallTask DEF Busy
  <2>2. Due(t)' = task[t].todo
    BY <1>4, <2>1 DEF Due
  <2>3. Knows(t)'
    BY <1>4, <2>1 DEF Knows
  <2>4. ASSUME NEW e \in Envs, NEW k \in Keys, HasLegacy(e, k)
        PROVE  SetOf(t, e, k) \in Due(t)' \/ Value(e, k)' = Old(t, e, k)
    BY <2>1, <2>2, <2>4, CarriedOver
  <2>5. Carried(t)'
    BY <1>2, <2>4 DEF Carried
  <2>6. task[t].todo \subseteq MigrationCalls(t)
    BY DEF Sound, Due
  <2>. QED  BY <1>2, <2>2, <2>3, <2>5, <2>6 DEF Sound
<1>. QED  BY <1>3, <1>4, OwnStep

(* A migration begins with every call to be made.                          *)
LEMMA BeginsSound ==
  ASSUME TypeOK, NEW t \in Tasks, MigrateVault(t)
  PROVE  Sound(t)'
<1>1. PICK prefs \in {{}} \cup {{Patch("ui", p)} : p \in Prefs}, unread \in SUBSET Rows :
        \E c \in Ready(Creates \cup Sets(unread) \cup prefs) :
          Begin(t, "migration", c, (Creates \cup Sets(unread) \cup prefs) \ {c}, unread)
  BY DEF MigrateVault
<1> DEFINE calls == Creates \cup Sets(unread) \cup prefs
<1>2. /\ calls \subseteq Creates \cup Sets(unread) \cup {Patch("ui", p) : p \in Prefs}
      /\ Sets(unread) \subseteq calls
  OBVIOUS
<1> HIDE DEF calls
<1>3. PICK c \in Ready(calls) : Begin(t, "migration", c, calls \ {c}, unread)
  BY <1>1 DEF calls
<1>4. c \in calls
  BY <1>3 DEF Ready
<1>5. UNCHANGED legacy
  BY <1>3 DEF Begin
<1>6. /\ task'[t].call = c /\ task'[t].todo = calls \ {c} /\ task'[t].pc = "read"
      /\ task'[t].unread = unread
  <2>1. task'[t] = [Idle(FALSE) EXCEPT !.what = "migration", !.call = c, !.todo = calls \ {c},
                                       !.unread = unread, !.alone = \A v \in Tasks : ~Busy(v)]
    BY <1>3 DEF Begin
  <2>. QED  BY <2>1, IdleType DEF Task
<1>7. Due(t)' = calls
  BY <1>4, <1>6 DEF Due
<1>8. Due(t)' \subseteq MigrationCalls(t)'
  <2>1. Creates' = Creates /\ Sets(task[t].unread)' = Sets(unread)
    BY <1>5, <1>6 DEF Creates, Sets, Rows, LegacyValue
  <2>. QED  BY <1>2, <1>7, <2>1 DEF MigrationCalls
<1>9. Carried(t)'
  <2>1. ASSUME NEW e \in Envs, NEW k \in Keys, HasLegacy(e, k)'
        PROVE  SetOf(t, e, k)' \in Due(t)'
    <3> DEFINE x == <<e, k>>
    <3>1. x \in Rows /\ x[1] = e /\ x[2] = k
      BY <1>5, <2>1 DEF Rows, Variables, HasLegacy
    <3>2. SetOf(t, e, k)' = [fn |-> "set_var", env |-> x[1], key |-> x[2],
                             val |-> LegacyValue(x, unread)]
      BY <1>5, <1>6, <3>1 DEF SetOf, Old, LegacyValue
    <3> HIDE DEF x
    <3>3. SetOf(t, e, k)' \in Sets(unread)
      BY <3>1, <3>2 DEF Sets
    <3>. QED  BY <1>2, <1>7, <3>3
  <2>. QED  BY <2>1 DEF Carried
<1>10. Knows(t)'
  BY <1>6 DEF Knows
<1>. QED  BY <1>8, <1>9, <1>10 DEF Sound

(* A request is a command or a migration; the others are told that they    *)
(* are not alone.                                                          *)
LEMMA RequestTasks ==
  ASSUME TypeOK, NEW t \in Tasks, Request(t)
  PROVE  /\ UNCHANGED legacy /\ ~Busy(t) /\ ~task'[t].migrated
         /\ task'[t].alone => \A u \in Tasks : ~Busy(u)
         /\ MigrateVault(t) \/ task'[t].what = "command"
         /\ \A u \in Tasks \ {t} :
              /\ task'[u].call = task[u].call /\ task'[u].migrated = task[u].migrated
              /\ Busy(u) => ~task'[u].alone
<1>1. ASSUME NEW what \in {"command", "migration"}, NEW c \in Call, NEW todo \in SUBSET Call,
             NEW unread \in SUBSET Variables, Begin(t, what, c, todo, unread)
      PROVE  /\ UNCHANGED legacy /\ ~Busy(t) /\ ~task'[t].migrated
             /\ task'[t].alone => \A u \in Tasks : ~Busy(u)
             /\ task'[t].what = what
             /\ \A u \in Tasks \ {t} :
                  /\ task'[u].call = task[u].call /\ task'[u].migrated = task[u].migrated
                  /\ Busy(u) => ~task'[u].alone
  <2>1. UNCHANGED legacy /\ ~Busy(t)
    BY <1>1 DEF Begin
  <2>2. /\ ~task'[t].migrated /\ task'[t].what = what
        /\ task'[t].alone => \A u \in Tasks : ~Busy(u)
    <3> DEFINE b == \A v \in Tasks : ~Busy(v)
    <3>1. task'[t] = [Idle(FALSE) EXCEPT !.what = what, !.call = c, !.todo = todo,
                                     !.unread = unread, !.alone = b]
      BY <1>1 DEF Begin
    <3>2. b \in BOOLEAN
      OBVIOUS
    <3> HIDE DEF b
    <3>3. task'[t].migrated = FALSE /\ task'[t].what = what /\ task'[t].alone = b
      BY <3>1, IdleType DEF Task
    <3>. QED  BY <3>2, <3>3 DEF b
  <2>3. ASSUME NEW u \in Tasks \ {t}
        PROVE  /\ task'[u].call = task[u].call /\ task'[u].migrated = task[u].migrated
               /\ Busy(u) => ~task'[u].alone
    <3> DEFINE b == ~Busy(u)
    <3>1. task'[u] = [task[u] EXCEPT !.alone = b]
      BY <1>1 DEF Begin
    <3>2. b \in BOOLEAN
      OBVIOUS
    <3> HIDE DEF b
    <3>3. /\ task'[u].call = task[u].call /\ task'[u].migrated = task[u].migrated
          /\ task'[u].alone = b
      BY <3>1 DEF TypeOK, Task
    <3>. QED  BY <3>2, <3>3 DEF b
  <2>. QED  BY <2>1, <2>2, <2>3
<1>2. CASE MigrateVault(t)
  BY <1>1, <1>2, RequestType
<1>3. CASE ~MigrateVault(t)
  <2>1. \E c \in Call : Begin(t, "command", c, {}, {})
    BY <1>3 DEF Request, CreateEnvironment, DeleteEnvironment, SetEnvVariable,
                DeleteEnvVariable, SetActiveEnvironment, PatchUiPrefs, SetWorkspaceConfig,
                Command, Patch, Call, Values, Secrets
  <2>. QED  BY <1>1, <2>1
<1>. QED  BY <1>2, <1>3

(* The tables are never written.                                           *)
LEMMA LegacyStays == [Next]_vars => UNCHANGED legacy
BY DEF Next, vars, Crash, Request, CreateEnvironment, DeleteEnvironment, SetEnvVariable,
       DeleteEnvVariable, SetActiveEnvironment, PatchUiPrefs, SetWorkspaceConfig, MigrateVault,
       Command, Begin, Step, ReadFails, ReadForCreate, ReadEnv, ReadDoc, EnsureKeychainRef,
       StoreSecret, Keychain, DeleteSecrets, PersistEnv, RemoveEnv, PersistDoc, WritesEnv,
       WriteFails

LEMMA MigrationInit == Init => MigrationInv
<1>1. Init => \A t \in Tasks : ~Busy(t)
  BY IdleType DEF Init, Busy
<1>. QED  BY <1>1 DEF MigrationInv, OnItsOwn, Migrates

LEMMA MigrationNext == TypeOK /\ MigrationInv /\ [Next]_vars => MigrationInv'
<1> SUFFICES ASSUME TypeOK, MigrationInv, [Next]_vars
             PROVE  MigrationInv'
  OBVIOUS
<1>0. UNCHANGED legacy
  BY LegacyStays
<1>1. CASE UNCHANGED vars
  <2>1. \A t \in Tasks :
          /\ OnItsOwn(t)' <=> OnItsOwn(t)
          /\ Migrates(t)' <=> Migrates(t)
          /\ Due(t)' = Due(t) /\ (Knows(t)' <=> Knows(t))
    BY <1>1 DEF vars, OnItsOwn, Migrates, Busy, Due, Value, Knows, Arg, SnapValue
  <2>2. \A t \in Tasks : Carried(t) => Carried(t)'
    BY <1>1, <2>1, CallsStay DEF vars, Carried, Value
  <2>3. \A t \in Tasks : Sound(t) => Sound(t)'
    BY <1>1, <2>1, <2>2, CallsStay DEF vars, Sound
  <2>. QED  BY <2>1, <2>3 DEF MigrationInv
<1>2. CASE Crash
  <2>1. \A t \in Tasks : ~Busy(t)'
    BY <1>2, IdleType DEF Crash, Busy
  <2>. QED  BY <2>1 DEF MigrationInv, OnItsOwn, Migrates
<1>3. ASSUME NEW t \in Tasks, Request(t)
      PROVE  MigrationInv'
  <2>1. ASSUME NEW u \in Tasks \ {t}, Busy(u)'
        PROVE  OnItsOwn(u)' /\ ~Migrates(u)'
    <3>1. Busy(u) /\ ~task'[u].alone /\ ~task'[u].migrated
      BY <1>3, <2>1, RequestTasks DEF Busy, MigrationInv, OnItsOwn
    <3>. QED  BY <3>1 DEF OnItsOwn, Migrates
  <2>2. OnItsOwn(t)'
    BY <1>3, RequestTasks DEF OnItsOwn, Busy
  <2>3. Migrates(t)' => Sound(t)'
    BY <1>3, RequestTasks, BeginsSound DEF Migrates
  <2>. QED  BY <2>1, <2>2, <2>3 DEF MigrationInv, OnItsOwn, Migrates
<1>4. ASSUME NEW t \in Tasks, Step(t)
      PROVE  MigrationInv'
  <2>1. Busy(t) /\ \A u \in Tasks \ {t} : GoesOn(task[u], task'[u])
    BY <1>4, StepTasks
  <2>2. \A u \in Tasks \ {t} : (Busy(u)' <=> Busy(u)) /\ (Busy(u) => ~task[u].alone)
    BY <2>1 DEF GoesOn, Busy, MigrationInv, OnItsOwn
  <2>3. ASSUME NEW u \in Tasks \ {t}
        PROVE  OnItsOwn(u)' /\ ~Migrates(u)'
    BY <2>1, <2>2 DEF GoesOn, OnItsOwn, Migrates, MigrationInv
  <2>4. ASSUME Busy(t)'
        PROVE  /\ task'[t].what = task[t].what /\ task'[t].alone = task[t].alone
               /\ task'[t].migrated = task[t].migrated
    <3>1. CASE GoesOn(task[t], task'[t])
      BY <3>1 DEF GoesOn
    <3>2. ASSUME NEW out \in {"ok", "error"}, NEW self \in AfterCall(t, out), task'[t] = self
          PROVE  /\ task'[t].what = task[t].what /\ task'[t].alone = task[t].alone
                 /\ task'[t].migrated = task[t].migrated
      BY <2>4, <3>2, AfterCallTask DEF Busy
    <3>. QED  BY <1>4, <3>1, <3>2, OwnStep
  <2>5. OnItsOwn(t)'
    BY <2>1, <2>2, <2>4 DEF OnItsOwn, MigrationInv
  <2>6. Migrates(t)' => Sound(t)'
    <3>1. ASSUME Migrates(t)'
          PROVE  Migrates(t) /\ Busy(t)'
      BY <2>1, <2>4, <3>1 DEF Migrates
    <3>. QED  BY <1>0, <1>4, <3>1, SoundStep DEF MigrationInv
  <2>. QED  BY <2>3, <2>5, <2>6 DEF MigrationInv
<1>. QED  BY <1>1, <1>2, <1>3, <1>4 DEF Next

(* Only the end of its last call makes a migration a success.              *)
LEMMA SuccessStep ==
  ASSUME TypeOK, MigrationInv, [Next]_vars, NEW t \in Tasks, Succeeds(t), task[t].alone
  PROVE  Migrates(t) /\ task[t].todo = {} /\ EndsWell(t)
<1>0. Busy(t) /\ task'[t].migrated /\ ~task[t].migrated
  BY DEF Succeeds, MigrationInv, OnItsOwn
<1>1. CASE UNCHANGED vars
  BY <1>0, <1>1 DEF vars
<1>2. CASE Crash
  <2>1. task'[t].migrated = FALSE
    BY <1>2, IdleType DEF Crash
  <2>. QED  BY <1>0, <2>1
<1>3. ASSUME NEW u \in Tasks, Request(u)
      PROVE  FALSE
  <2>1. u # t
    BY <1>0, <1>3, RequestTasks
  <2>. QED  BY <1>0, <1>3, <2>1, RequestTasks
<1>4. ASSUME NEW u \in Tasks, Step(u), u # t
      PROVE  FALSE
  BY <1>0, <1>4, StepTasks DEF GoesOn
<1>5. CASE Step(t)
  <2>1. ~GoesOn(task[t], task'[t])
    BY <1>0 DEF GoesOn
  <2>2. PICK out \in {"ok", "error"} : \E self \in AfterCall(t, out) :
          task'[t] = self /\ (out = "ok" => EndsWell(t))
    BY <1>5, <2>1, OwnStep
  <2>3. PICK self \in AfterCall(t, out) : task'[t] = self /\ (out = "ok" => EndsWell(t))
    BY <2>2
  <2>4. out = "ok" /\ task[t].what = "migration" /\ task[t].todo = {}
    BY <1>0, <2>3, AfterCallTask
  <2>. QED  BY <1>0, <2>3, <2>4 DEF Migrates
<1>. QED  BY <1>1, <1>2, <1>3, <1>4, <1>5 DEF Next

(* A migration that reports success while no other command runs has        *)
(* carried over every variable of every environment, whatever the files    *)
(* and the keychain had before, in particular after a migration that       *)
(* crashed or failed at any point (migrate_vault_to_v1): the value it has  *)
(* in the tables, and the empty one of a secret that the keychain did not  *)
(* give to the migration (row_to_variable).                                *)
THEOREM MigrationCarriesAllHolds == Spec => MigrationCarriesAll
<1>1. Init => TypeOK /\ MigrationInv
  BY TypeInit, MigrationInit
<1>2. (TypeOK /\ MigrationInv) /\ [Next]_vars => (TypeOK /\ MigrationInv)'
  BY TypeNext, MigrationNext
<1>3. (TypeOK /\ MigrationInv) /\ [Next]_vars =>
        [\A t \in Tasks :
           (Succeeds(t) /\ task[t].alone) =>
             \A x \in Rows : Value(x[1], x[2])' = LegacyValue(x, task[t].unread)]_vars
  <2> SUFFICES ASSUME TypeOK, MigrationInv, [Next]_vars,
                      NEW t \in Tasks, Succeeds(t), task[t].alone, NEW x \in Rows
               PROVE  Value(x[1], x[2])' = LegacyValue(x, task[t].unread)
    OBVIOUS
  <2>1. Migrates(t) /\ task[t].todo = {} /\ EndsWell(t)
    BY SuccessStep
  <2>2. Sound(t)
    BY <2>1 DEF MigrationInv
  <2>3. /\ x[1] \in Envs /\ x[2] \in Keys /\ x = <<x[1], x[2]>> /\ HasLegacy(x[1], x[2])
    BY DEF Rows, Variables, HasLegacy
  <2>4. Value(x[1], x[2])' = Old(t, x[1], x[2])
    BY <2>1, <2>2, <2>3, CarriedOver
  <2>. QED  BY <2>3, <2>4 DEF Old
<1>. QED  BY <1>1, <1>2, <1>3, PTL DEF Spec, MigrationCarriesAll
=============================================================================
