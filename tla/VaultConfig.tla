---------------------------- MODULE VaultConfig ----------------------------
(***************************************************************************)
(* The configuration of a vault and of the user: the environments in       *)
(* envs/<name>.toml with their secrets in the keychain of the system       *)
(* (environments_store.rs, secret_resolver.rs, keychain.rs), the sections  *)
(* of user.toml and of .httui/workspace.toml (user_store.rs,               *)
(* workspace_store.rs, settings.ts), and the migration that writes all of  *)
(* them from the old SQLite tables (migration.rs).                         *)
(*                                                                         *)
(* The commands are asynchronous and take no lock: each reads a file,      *)
(* changes what it read and writes the file, and the application may end   *)
(* in between.  A load is one step here and returns what the file has,     *)
(* which is what LoadIsCurrent of ConnectionsStore says of the cache that  *)
(* these stores share with it.                                             *)
(***************************************************************************)
EXTENDS Naturals, FiniteSets

CONSTANTS Envs,        \* names of environments
          Keys,        \* names of variables
          Plain,       \* values that are given as they are
          Secret,      \* values that are given as secrets
          Empty,       \* the empty value, as a secret
          Prefs,       \* contents of the section [ui] and of workspace.toml
          Default,     \* the one that [ui] has by default
          Unset,       \* a variable that is not in the file
          Ref,         \* a secret in the file: its reference to the keychain
          None,
          Unknown,
          Tasks,       \* calls of commands that may be under way
          MaxRequests, \* bound: commands called
          MaxUnread    \* bound: old secrets that a migration fails to read

Secrets == Secret \cup {Empty}

Values == Plain \cup Secrets

VARIABLES
  legacy,    \* the variables of the environments in SQLite, or None
  file,      \* the base file of an environment, or None
  keychain,  \* the secret stored for a variable, or None
  doc,       \* the sections of user.toml and workspace.toml
  task,      \* the commands under way
  acked,     \* history: the value of a variable that was acknowledged, or Unknown
  ackedDoc,  \* the same of a section
  requests   \* number of commands called

history == <<acked, ackedDoc, requests>>
vars == <<legacy, file, keychain, doc, task, history>>

Variables == Envs \X Keys

(* [ui] and active_envs are in one file; workspace.toml is absent as long  *)
(* as it is None.                                                          *)
Sections == {"active", "ui", "workspace"}

FileOf(section) == IF section = "workspace" THEN "workspace" ELSE "user"

(* A call of a function of a store: of a variable, of an environment, or   *)
(* of a section.                                                           *)
Call ==
  [fn : {"set_var"}, env : Envs, key : Keys, val : Values]
    \cup [fn : {"delete_var"}, env : Envs, key : Keys]
    \cup [fn : {"create_env", "delete_env"}, env : Envs]
    \cup [fn : {"patch"}, section : {"active"}, val : Envs \cup {None}]
    \cup [fn : {"patch"}, section : {"ui", "workspace"}, val : Prefs]

EnvFile == [Keys -> Values \cup {Unset, Ref}]

Doc == {d \in [Sections -> Prefs \cup Envs \cup {Default, None}] :
          /\ d["active"] \in Envs \cup {None} /\ d["ui"] \in Prefs \cup {Default}
          /\ d["workspace"] \in Prefs \cup {None}}

ASSUME ConfigAssumption ==
  /\ Plain \cap Secrets = {}
  /\ {Unset, Ref, None, Unknown} \cap (Values \cup Envs \cup Prefs \cup {Default}) = {}
  /\ Unset \notin {Ref, None, Unknown} /\ Ref \notin {None, Unknown} /\ None # Unknown
  /\ None \notin EnvFile
  /\ MaxRequests \in Nat /\ MaxUnread \in Nat

(* What there is without the files.                                        *)
NoVars == [k \in Keys |-> Unset]

Defaults == [s \in Sections |-> IF s = "ui" THEN Default ELSE None]

(* A command has one call under way and, if it is a migration, others to   *)
(* make.  snap and seen: the environment or the sections that the call     *)
(* read.  stale: another one has changed the file or its secrets since.    *)
(* alone: no other command was under way.  unread: the old secrets that    *)
(* the keychain did not give to a migration.  migrated: it was a           *)
(* migration, and succeeded.                                               *)
Task == [what : {"command", "migration"}, call : Call \cup {None}, todo : SUBSET Call,
         pc : {"read", "keychain", "write"}, snap : EnvFile, seen : Doc,
         stale : BOOLEAN, alone : BOOLEAN, unread : SUBSET Variables, migrated : BOOLEAN]

Idle(migrated) == [what |-> "command", call |-> None, todo |-> {}, pc |-> "read", snap |-> NoVars,
                   seen |-> Defaults, stale |-> FALSE, alone |-> TRUE, unread |-> {},
                   migrated |-> migrated]

TypeOK ==
  /\ legacy \in [Envs -> [Keys -> Plain \cup Secret \cup {Unset}] \cup {None}]
  /\ file \in [Envs -> EnvFile \cup {None}]
  /\ keychain \in [Variables -> Secrets \cup {None}]
  /\ doc \in Doc
  /\ task \in [Tasks -> Task]
  /\ acked \in [Variables -> Values \cup {Unset, Unknown}]
  /\ ackedDoc \in [Sections -> Prefs \cup Envs \cup {Default, None, Unknown}]
  /\ requests \in 0..MaxRequests

Init ==
  /\ legacy \in [Envs -> [Keys -> Plain \cup Secret \cup {Unset}] \cup {None}]
  /\ file \in [Envs -> {None, NoVars}]
  /\ keychain = [x \in Variables |-> None]
  /\ doc = Defaults
  /\ task = [t \in Tasks |-> Idle(FALSE)]
  /\ acked = [x \in Variables |-> Unset] /\ ackedDoc = doc
  /\ requests = 0

(* What a variable is to the program: a secret is what the keychain has.   *)
Value(e, k) ==
  IF file[e] = None THEN Unset
  ELSE IF file[e][k] = Ref THEN keychain[<<e, k>>] ELSE file[e][k]

-----------------------------------------------------------------------------
(* Commands.                                                               *)

Busy(t) == task[t].call # None

Begin(t, what, call, todo, unread) ==
  /\ requests < MaxRequests /\ requests' = requests + 1
  /\ ~Busy(t)
  /\ task' = [u \in Tasks |->
                IF u = t THEN [Idle(FALSE) EXCEPT !.what = what, !.call = call, !.todo = todo,
                                                 !.unread = unread,
                                                 !.alone = \A v \in Tasks : ~Busy(v)]
                ELSE [task[u] EXCEPT !.alone = ~Busy(u)]]
  /\ UNCHANGED <<legacy, file, keychain, doc, acked, ackedDoc>>

Command(t, call) == Begin(t, "command", call, {}, {})

CreateEnvironment(t) ==
  \E e \in Envs : Command(t, [fn |-> "create_env", env |-> e])

DeleteEnvironment(t) ==
  \E e \in Envs : file[e] # None /\ Command(t, [fn |-> "delete_env", env |-> e])

SetEnvVariable(t) ==
  \E e \in Envs, k \in Keys, v \in Plain \cup Secret :
    /\ file[e] # None
    /\ Command(t, [fn |-> "set_var", env |-> e, key |-> k, val |-> v])

DeleteEnvVariable(t) ==
  \E e \in Envs, k \in Keys :
    /\ file[e] # None /\ file[e][k] # Unset
    /\ Command(t, [fn |-> "delete_var", env |-> e, key |-> k])

Patch(section, val) == [fn |-> "patch", section |-> section, val |-> val]

(* Of the environments there are, or none.                                 *)
SetActiveEnvironment(t) ==
  \E e \in {x \in Envs : file[x] # None} \cup {None} : Command(t, Patch("active", e))

(* patchUiPrefs: the whole file is read by one command and written by      *)
(* another.                                                                *)
PatchUiPrefs(t) == \E p \in Prefs : Command(t, Patch("ui", p))

SetWorkspaceConfig(t) == \E p \in Prefs : Command(t, Patch("workspace", p))

(* The calls of the migration: each environment, then its variables, then  *)
(* [ui] if the tables have any of its preferences.                         *)
Creates == {[fn |-> "create_env", env |-> e] : e \in {x \in Envs : legacy[x] # None}}

(* A secret that the keychain does not give is read as the empty value.    *)
LegacyValue(x, unread) == IF x \in unread THEN Empty ELSE legacy[x[1]][x[2]]

Rows == {x \in Variables : legacy[x[1]] # None /\ legacy[x[1]][x[2]] # Unset}

Sets(unread) ==
  {[fn |-> "set_var", env |-> x[1], key |-> x[2], val |-> LegacyValue(x, unread)] : x \in Rows}

Ready(todo) ==
  LET open == {c \in todo : c.fn = "set_var" /\ [fn |-> "create_env", env |-> c.env] \notin todo}
      new  == {c \in todo : c.fn = "create_env"}
  IN IF open # {} THEN open ELSE IF new # {} THEN new ELSE todo

(* It is offered while .httui is not there.                                *)
MigrateVault(t) ==
  /\ doc["workspace"] = None
  /\ \E prefs \in {{}} \cup {{Patch("ui", p)} : p \in Prefs},
        unread \in SUBSET {x \in Rows : legacy[x[1]][x[2]] \in Secret} :
       /\ Cardinality(unread) <= MaxUnread
       /\ LET calls == Creates \cup Sets(unread) \cup prefs
          IN \E c \in Ready(calls) : Begin(t, "migration", c, calls \ {c}, unread)

-----------------------------------------------------------------------------
(* The calls of the stores.                                                *)

Arg(t) == task[t].call

At(t, pc, fns) == Busy(t) /\ task[t].pc = pc /\ Arg(t).fn \in fns

(* The call returns; the command goes on with its next one, or with none   *)
(* of them after an error.                                                 *)
AfterCall(t, out) ==
  IF out = "ok" /\ task[t].todo # {}
    THEN {[task[t] EXCEPT !.call = c, !.todo = @ \ {c}, !.pc = "read", !.stale = FALSE] : c \in Ready(task[t].todo)}
    ELSE {Idle(task[t].what = "migration" /\ out = "ok")}

Returns(t, out) == \E self \in AfterCall(t, out) : task' = [task EXCEPT ![t] = self]

Reads(t, pc, snap, seen) ==
  task' = [task EXCEPT ![t].pc = pc, ![t].snap = snap, ![t].seen = seen, ![t].stale = FALSE]

(* What others read before is stale.                                       *)
SameFile(c, d) ==
  IF c.fn = "patch" \/ d.fn = "patch"
    THEN c.fn = d.fn /\ FileOf(c.section) = FileOf(d.section)
    ELSE c.env = d.env

Overtaken(t, self) ==
  [u \in Tasks |->
     IF u = t THEN self
     ELSE [task[u] EXCEPT !.stale = @ \/ (Busy(u) /\ task[u].pc # "read"
                                            /\ SameFile(Arg(t), Arg(u)))]]

(* What is acknowledged when the call of t has written: of the other       *)
(* values in the file, nothing if it was written from a stale one.         *)
AcknowledgeEnv(t) ==
  LET c == Arg(t)
  IN acked' = [x \in Variables |->
       IF x[1] # c.env THEN acked[x]
       ELSE IF task[t].stale THEN Unknown
       ELSE IF c.fn \in {"create_env", "delete_env"} THEN Unset
       ELSE IF x[2] # c.key THEN acked[x]
       ELSE IF c.fn = "set_var" THEN c.val ELSE Unset]

AcknowledgeDoc(t) ==
  LET c == Arg(t)
  IN ackedDoc' = [s \in Sections |->
       IF FileOf(s) # FileOf(c.section) THEN ackedDoc[s]
       ELSE IF task[t].stale THEN Unknown
       ELSE IF s = c.section THEN c.val ELSE ackedDoc[s]]

ReadFails(t) ==
  /\ At(t, "read", {"set_var", "delete_var", "delete_env", "patch"})
  /\ Returns(t, "error")
  /\ UNCHANGED <<legacy, file, keychain, doc, history>>

(* Mutant: the migration skips an environment that exists.         *)
ReadForCreateSkips(t) ==
  /\ At(t, "read", {"create_env"})
  /\ IF file[Arg(t).env] = None THEN Reads(t, "write", NoVars, Defaults)
     ELSE IF task[t].what # "migration" THEN Returns(t, "error")
     ELSE LET left == {c \in task[t].todo : c.fn # "set_var" \/ c.env # Arg(t).env}
          IN IF left = {} THEN task' = [task EXCEPT ![t] = Idle(TRUE)]
             ELSE \E c \in Ready(left) :
                    task' = [task EXCEPT ![t].call = c, ![t].todo = left \ {c}]
  /\ UNCHANGED <<legacy, file, keychain, doc, history>>

(* A file that exists is an error, which the migration takes for success.  *)
ReadForCreate(t) ==
  /\ At(t, "read", {"create_env"})
  /\ IF file[Arg(t).env] = None THEN Reads(t, "write", NoVars, Defaults)
     ELSE Returns(t, IF task[t].what = "migration" THEN "ok" ELSE "error")
  /\ UNCHANGED <<legacy, file, keychain, doc, history>>

ReadEnv(t) ==
  /\ At(t, "read", {"set_var", "delete_var", "delete_env"})
  /\ LET f == file[Arg(t).env]
     IN IF f = None \/ (Arg(t).fn = "delete_var" /\ f[Arg(t).key] = Unset)
          THEN Returns(t, "error") ELSE Reads(t, "keychain", f, Defaults)
  /\ UNCHANGED <<legacy, file, keychain, doc, history>>

ReadDoc(t) ==
  /\ At(t, "read", {"patch"})
  /\ IF Arg(t).section = "active" /\ Arg(t).val # None /\ file[Arg(t).val] = None
       THEN Returns(t, "error") ELSE Reads(t, "write", NoVars, doc)
  /\ UNCHANGED <<legacy, file, keychain, doc, history>>

(* The keychain changes before the file does, and until the file is        *)
(* written nothing is acknowledged of what has changed.                    *)
Keychain(t, secrets, changed, f) ==
  LET self == [task[t] EXCEPT !.pc = "write", !.snap = f]
  IN /\ keychain' = secrets
     /\ task' = IF changed = {} THEN [task EXCEPT ![t] = self] ELSE Overtaken(t, self)
     /\ acked' = [x \in Variables |-> IF x \in changed THEN Unknown ELSE acked[x]]
     /\ UNCHANGED <<legacy, file, doc, ackedDoc, requests>>

StoreSecret(t) ==
  LET c == Arg(t)
  IN /\ At(t, "keychain", {"set_var"}) /\ c.val \in Secrets
     /\ Keychain(t, [keychain EXCEPT ![<<c.env, c.key>>] = c.val], {<<c.env, c.key>>},
                 [task[t].snap EXCEPT ![c.key] = Ref])

StoreFails(t) == At(t, "keychain", {"set_var"}) /\ Arg(t).val \in Secrets

(* Mutant: the value goes to the file if the keychain fails.       *)
EnsureKeychainRefOrPlain(t) ==
  \/ StoreSecret(t)
  \/ /\ StoreFails(t)
     /\ Keychain(t, keychain, {}, [task[t].snap EXCEPT ![Arg(t).key] = Arg(t).val])

(* Mutant: that the keychain fails is ignored.                     *)
EnsureKeychainRefAnyway(t) ==
  \/ StoreSecret(t)
  \/ StoreFails(t) /\ Keychain(t, keychain, {}, [task[t].snap EXCEPT ![Arg(t).key] = Ref])

EnsureKeychainRef(t) ==
  \/ StoreSecret(t)
  \/ /\ StoreFails(t) /\ Returns(t, "error")
     /\ UNCHANGED <<legacy, file, keychain, doc, history>>

(* Entries are deleted for the secrets that are to go, as far as that      *)
(* works.                                                                  *)
Leaving(t) ==
  LET c == Arg(t)
  IN {x \in {c.env} \X Keys : task[t].snap[x[2]] = Ref /\ (c.fn = "delete_env" \/ x[2] = c.key)}

Changed(t) ==
  LET c == Arg(t)
  IN IF c.fn = "delete_env" THEN task[t].snap
     ELSE [task[t].snap EXCEPT ![c.key] = IF c.fn = "set_var" THEN c.val ELSE Unset]

DeleteSecrets(t) ==
  /\ \/ At(t, "keychain", {"delete_var", "delete_env"})
     \/ At(t, "keychain", {"set_var"}) /\ Arg(t).val \in Plain
  /\ \E gone \in SUBSET Leaving(t) :
       Keychain(t, [x \in Variables |-> IF x \in gone THEN None ELSE keychain[x]], gone,
                Changed(t))

WritesEnv(t) ==
  /\ \E self \in AfterCall(t, "ok") : task' = Overtaken(t, self)
  /\ AcknowledgeEnv(t)
  /\ UNCHANGED <<legacy, keychain, doc, ackedDoc, requests>>

PersistEnv(t) ==
  /\ At(t, "write", {"create_env", "set_var", "delete_var"})
  /\ file' = [file EXCEPT ![Arg(t).env] = task[t].snap]
  /\ WritesEnv(t)

RemoveEnv(t) ==
  /\ At(t, "write", {"delete_env"}) /\ file[Arg(t).env] # None
  /\ file' = [file EXCEPT ![Arg(t).env] = None]
  /\ WritesEnv(t)

PersistDoc(t) ==
  /\ At(t, "write", {"patch"})
  /\ LET c == Arg(t)
     IN doc' = [s \in Sections |-> IF FileOf(s) # FileOf(c.section) THEN doc[s]
                                   ELSE IF s = c.section THEN c.val ELSE task[t].seen[s]]
  /\ \E self \in AfterCall(t, "ok") : task' = Overtaken(t, self)
  /\ AcknowledgeDoc(t)
  /\ UNCHANGED <<legacy, file, keychain, acked, requests>>

(* A write that fails leaves the file as it is.                            *)
WriteFails(t) ==
  /\ At(t, "write", {"create_env", "set_var", "delete_var", "delete_env", "patch"})
  /\ Returns(t, "error")
  /\ UNCHANGED <<legacy, file, keychain, doc, history>>

(* The application ends, with what is under way.                           *)
Crash ==
  /\ \E t \in Tasks : Busy(t) \/ task[t].migrated
  /\ task' = [t \in Tasks |-> Idle(FALSE)]
  /\ UNCHANGED <<legacy, file, keychain, doc, history>>

Request(t) ==
  \/ CreateEnvironment(t) \/ DeleteEnvironment(t) \/ SetEnvVariable(t)
  \/ DeleteEnvVariable(t) \/ SetActiveEnvironment(t) \/ PatchUiPrefs(t)
  \/ SetWorkspaceConfig(t) \/ MigrateVault(t)

Step(t) ==
  \/ ReadFails(t) \/ ReadForCreate(t) \/ ReadEnv(t) \/ ReadDoc(t)
  \/ EnsureKeychainRef(t) \/ DeleteSecrets(t)
  \/ PersistEnv(t) \/ RemoveEnv(t) \/ PersistDoc(t) \/ WriteFails(t)

Next == Crash \/ \E t \in Tasks : Request(t) \/ Step(t)

Spec == Init /\ [][Next]_vars

-----------------------------------------------------------------------------
(* An update that was acknowledged is kept, in all the files and with the  *)
(* keychain, whatever fails or crashes: it is in doubt only while a call   *)
(* changes the same secret, after one that did so and then failed, and     *)
(* when a file was written from what was read before another call.         *)
AckedIsKept ==
  /\ \A x \in Variables : acked[x] # Unknown => Value(x[1], x[2]) = acked[x]
  /\ \A s \in Sections : ackedDoc[s] # Unknown => doc[s] = ackedDoc[s]

(* A value that was given as a secret is never written to a file, whether  *)
(* the keychain works or not.                                              *)
NoSecretInFile ==
  \A e \in Envs : file[e] # None => \A k \in Keys : file[e][k] \notin Secrets

(* A migration that reports success while nothing else runs has carried    *)
(* over every variable, be it the first or one after a crash at any point  *)
(* of an earlier one; but of a secret that the keychain did not give it    *)
(* has made the empty value, and reports success all the same.             *)
Succeeds(t) == Busy(t) /\ task'[t].migrated

MigrationCarriesAll ==
  [][\A t \in Tasks :
       (Succeeds(t) /\ task[t].alone) =>
         \A x \in Rows : Value(x[1], x[2])' = LegacyValue(x, task[t].unread)]_vars

(* A migration that reports success has carried over what the tables have. *)
(* This fails: it may have stored the empty value for a secret.            *)
MigrationLosesNothing ==
  [][\A t \in Tasks :
       (Succeeds(t) /\ task[t].alone) =>
         \A x \in Rows : Value(x[1], x[2])' = legacy[x[1]][x[2]]]_vars

(* What was acknowledged is not changed by running the migration again.    *)
(* This fails: set_var never says that a variable exists.                  *)
RerunIsSafe ==
  [][\A t \in Tasks :
       (task[t].what = "migration" /\ task'[t] # task[t] /\ Busy(t)) =>
         \A x \in Variables :
           acked[x] \in Values => Value(x[1], x[2])' = Value(x[1], x[2])]_vars
=============================================================================
