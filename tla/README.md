# TLA+ models and proofs of httui-notes

httui-notes is an editor for markdown vaults whose fenced blocks run HTTP requests
and database queries. A Rust core (`httui-core`) is used by a desktop application
(`httui-desktop`: Tauri back end in Rust, front end in TypeScript), a terminal
application (`httui-tui`) and an MCP server (`httui-mcp`); the chat of the desktop
application talks to a Node process (`httui-sidecar`) that drives the model.

This directory models the parts of it in which several tasks, processes or programs
change the same state, checks the models with TLC on small instances, and proves
their safety properties with TLAPS for every value of the constants.
`PROJECT.json` lists the runs, what each checks, the source lines of every
definition, and the mutated definitions that show that each property can fail.

## 1. The system

### 1.1 Components

| component | state | operations | hard behaviour |
|---|---|---|---|
| Chat sidecar supervisor (`chat/sidecar.rs`, `chat/commands.rs`) | current child, map of request ids to channels, closing flag, pong notification | spawn, send, register, unregister, shutdown; a supervisor, a health check and one reader per process | the process dies or hangs anywhere; a reader outlives its process |
| Node process (`httui-sidecar`) | activeQueries, pendingPermissions | dispatch of a line, query loop, canUseTool, abort | abort against start; permission replies without timeout |
| Chat tool permissions (`chat/permissions.rs`, `db/chat.rs`, `stores/chat.ts`, banner, diff tab) | rules in `tool_permissions`, one slot in the chat store, diff tabs | check, respond, delete a rule, show, view diff, switch session | several requests against one slot; insert that fails; sessions switched |
| Chat sessions and messages | SQLite tables, drafts, isStreaming | send, edit, regenerate, archive | turn index computed outside a transaction |
| Connections store (`vault_config/connections_store.rs`, `merge.rs`, `atomic.rs`) | cached parse with two modification times | list, get, create, update, delete | the files change between stat, read and caching |
| Environments, workspace and user stores (`environments_store.rs`, `user_store.rs`, `workspace_store.rs`, `settings.ts`) | one file per environment, `user.toml`, `workspace.toml`, the keychain | create, set, delete; set a section; set the active environment | every command reads, changes and writes without a lock; keychain and file change one after the other; the settings read and write `user.toml` in two commands |
| Pool manager (`db/pool_manager.rs`, `commands/connections.rs`) | pools by connection name, last use | get_pool, invalidate, cleanup_expired | unlocked look-up; invalidation against insertion; vault switch |
| Config watcher, editor session, files (`fs/watcher.rs`, `useEditorSession.ts`, `commands/files.rs`) | debounce table, ignore list, autosave timer, unsaved marks, conflict banner | watch, write_note, autosave, force save, reload | leading-edge debounce, one timer for several tabs, edits during a save |
| Pane layout (`stores/pane.ts`) | tree of panes, tabs, drafts | split, close, open, restore | tabs closed while an answer is under way |
| Block panels, execution registry, DB and HTTP executors (`DbFencedPanel.tsx`, `HttpFencedPanel.tsx`, `executions.rs`, `executor/`) | state and response of the panel, abort reference, question, cancellation tokens by execution id | run, confirm, explain, load more, cancel, hydrate; register, unregister, stream | cancel before register or after the end; the block or the environment changes under a run; runs overlap |
| Block caches (results, history, settings, captures, run bodies, schema) | SQL rows and files | lookup, store, trim | staleness against the text of the block |
| Migration (`vault_config/migration.rs`) | old tables, new files, backup | migrate | a crash or a failure between two writes, and running it again |
| Parser, serializer, references, runner, templates, codegen, explain, frontmatter, preflight, search, tags | none | pure functions | text processing |
| Git, local database, MCP tools | outside the program | calls of the operating system or of other programs | pure I/O |
| Terminal notes (`buffer/`, `vim/operator.rs`, `vim/undo.rs`, `InBlockSwap` in `vim/dispatch.rs`) | list of prose and block segments, a block with a raw text and fields, undo and redo stacks, dirty flag, file on disk | insert, operators, paste, undo, selections, forms, templates, substitution, write, reload | a block pretends to be prose during a command; raw and fields diverge; a reload between two keys |
| Terminal query execution (`commands/db.rs`, `commands/http.rs`) | one slot for the running query, tasks in the background, state and rows of each block, result cache on disk | run, confirm, explain, load more, cancel, fold an outcome, save to the cache | outcomes after edits, reloads and tab switches; one slot for several tasks |
| Terminal keyboard (`vim/parser.rs`, `vim/state.rs`, `vim/dispatch.rs`, `commands/search.rs`) | mode, pending operator and chord, open forms, modals with a text of their own, selection | some hundred keys in eighteen modes | mode and form are two pieces of state; a modal's text stands in for the note |
| Terminal panes, tabs, tree, motions, completion, rendering | tree of panes, file tree, schema | split, close, rename, delete; pure functions | unsaved text in a pane that is closed |
| Web site (`httui-web`) | none | none | none |

### 1.2 How they interact

The terminal application has one event loop: keys, outcomes of background tasks,
changes of files and the end of a build of the search index come out of one channel
and are handled one at a time by `main_loop`. It uses the executors, the pool manager
and the result cache of the core.

The front end of the desktop application calls the back end by Tauri commands: those declared async are tasks of
their own, the others run one after another on the main thread;
the back end answers by return value or by events. The commands share
`SidecarState` (a lock around the sidecar manager), the `ExecutionRegistry`, the
`PoolManager` and the `VaultStoreRegistry` (one set of file-backed stores for each
vault). `PoolManager` resolves a connection through the store of the active vault.
The sidecar manager and the Node process exchange JSON lines over stdin and
stdout; the requests of all chat sessions are multiplexed over the pair of pipes.
Files of the vault are also changed by editors and by git.

### 1.3 What makes each correct

* Sidecar: a request has exactly one outcome, an outcome is reported even if the
  process is lost, and success is reported only for an answered query.
* Permissions: what `canUseTool` lets run has consent; no decision of the broker or the
  user is lost; one turn runs at a time, unless one was sent late.
* Stores: a cached parse is trusted only while it is the parse of the files; a load
  returns content the files had during the call.
* Pools: a pool of an old record does not survive an update or a delete of the record,
  unless they race; an idle pool is closed.
* Editor session: saves are written in the order of the changes, and a change is
  written unless there is a reason. (Planned: nothing typed is lost, a conflict is
  never overwritten in silence.)
* Terminal notes: undo leads back to what was loaded, a block is what its raw says, a
  reload discards nothing unsaved, and there is prose around every block.
* Terminal queries: the slot names what is under way, the cache holds under a key the
  rows of that key, pages come in order, a destructive query is confirmed, and every
  run ends.
* Terminal keyboard: a mode always has its form, an operator that waits does not
  outlive what it waits for, and nothing changes the note from under a modal.
* Block panels: what is stored for a text is the result of that text with the variables
  that its hash finds, a dangerous query runs as it was confirmed, and no run leaves the
  panel running.
* Environments, preferences, migration: what was acknowledged is kept through failures
  and crashes, no secret reaches a file, and a migration that succeeds has written
  whatever it could read.

## 2. Modules

| module | contents |
|---|---|
| `ChatRequests` | what the chat commands promise for a request (abstract) |
| `Sidecar` | supervisor, health check, readers, tasks of the commands, Node dispatcher and query life; refines `ChatRequests` |
| `Sidecar_proofs` | `TypeCorrect`, `NoSilentLossHolds`, and `Refinement`: `Sidecar` implements `ChatRequests` |
| `ChatPermission`, `MCChatPermission` | the turns of the chat, and the permission round trip between Node, broker, rule table and user interface; symmetry for TLC |
| `ConnectionsStore`, `MCConnectionsStore` | the store and its cache; symmetry for TLC |
| `PoolManager` | pool cache, connection commands over a file that others write, vault switch, clean-up |
| `Connections_proofs` | of the store `TypeCorrect`, `CacheSoundHolds`, `LoadIsCurrentHolds`; of the pools `PoolTypeCorrect`, `OnlyRacesLeaveStaleHolds` |
| `EditorSession` | autosave, unsaved and conflict marks, `write_note`, `force_reload_file`, watcher, other programs |
| `FrontEnd_proofs` | of the permissions `TypeCorrect`, `ConsentHolds`, `ReplyUnderWayHolds`, `ComposerLockedHolds`; of the editor `EditorTypeCorrect`, `SavesInOrderHolds` |
| `BlockPanel` | running a block in the desktop application: panel, streamed calls, registry, executors, result cache, environment |
| `BlockPanel_proofs` | `TypeCorrect`, `CacheHonestHolds`, `ConfirmedTextRunsHolds` |
| `VaultConfig`, `MCVaultConfig` | environments with the keychain, sections of `user.toml` and `workspace.toml`, migration, crashes; symmetry for TLC |
| `VaultConfig_proofs` | `TypeCorrect`, `NoSecretInFileHolds`, `AckedIsKeptHolds`, `MigrationCarriesAllHolds` |
| `TuiDocument`, `MCTuiDocument` | segments, commands, the swap of a block, undo, forms, file and watcher; two texts for TLC |
| `TuiDocument_proofs` | `TypeCorrect`, `PaddedHolds`, `UndoAllRestoresHolds`, `FieldsFollowRawHolds`, `UnsavedKeptHolds` |
| `TuiQuery`, `MCTuiQuery` | running blocks in the terminal: slot, tasks, outcomes, cache, against changes of the notes; two notes for TLC |
| `TuiQuery_proofs` | `TypeCorrect`, `SlotIsTaskHolds`, `CacheHonestHolds`, `PagesInOrderHolds` |
| `TuiModes` | the keyboard: parsers of all modes, dispatch, forms, modals, popup, search index |
| `TuiModes_proofs` | `TypeCorrect`, `ModeHasFormHolds`, `FormKeepsModeHolds`, `NoteKeptUnderModalHolds`, `OperatorSpentHolds`, `DropsOnlyUnderModalHolds` |

Definitions whose comment starts with "Mutant:" are not part of a
model: each is a plausible bug, and PROJECT.json says which definition it replaces
and which property notices.

Two proof modules are about two components each, so the specification of one of the two
has names with a prefix: `PoolInit`, `PoolNext`, `PoolSpec`, `PoolTypeOK` and so on in
`PoolManager`, `EditorInit`, `EditorNext`, `EditorSpec`, `EditorTypeOK` in `EditorSession`.

### 2.1 Sidecar

Every spawned process is a generation. `child` is the field `child` of the manager;
`inbox[g]` and `outbox[g]` are the two pipes of generation g; `reader[g]` is the
task `read_events`, which may outlive the process; `requests` and `rx` are the map
of senders and the channels behind it; `status[r]` follows the task that
`send_chat_message` starts. A command holds the lock of `SidecarState` from
`RegisterRequest` to `SendChat`, hence the variable `guard`.

`OnTerminated` is two steps, because `read_events` first clears the child and then,
under another lock, tells every registered request. `SupervisorPoll`, `-Check` and
`-Spawn` are separate because the supervisor sleeps between them; `HealthPing`,
`HealthPong` and `HealthTimeout` follow the health check, with the permit that
`Notify` stores when nobody waits. The shutdown has three steps, the last of which
may never come because the application exits meanwhile.

Abstracted: contents of messages, back-off times, the session id, logging. A query
is "starting" while `handleChat` awaits its imports and "active" once it is in
`activeQueries`; what it emits before its end is one kind of event.

### 2.2 ChatPermission

One life of the Node process, so that ids are 1, 2, ... in the order asked. Tools
are told apart by how `PermissionBroker::check` treats them, paths by whether they
lie in the working directory (the fixed checks look at nothing else). `slot` is
`pendingPermission`, `diffTabs` the ids of the open diff tabs, `inflight` the calls
of `respondPermission` that have not returned, with the stage they are at: clicked,
rule persisted (or the insert failed, which the code ignores), response sent.
`toRust[i]`, `toUI` and `toNode` are FIFO channels, the first one for each turn, as each
`send_chat_message` starts a task with a channel of its own. `answers` is a history
variable. `PersistRule` keeps what the code does: the rule is for the tool that is
in the slot when the user clicks, and it never carries a session.

`AllowedTools` is the list `allowed_tools` that `send_chat_message` passes to every turn
(Read, Glob, Grep, Bash, Edit, Write). The SDK runs those tools without `canUseTool`, so
they reach neither the broker nor the user, and `Consent` says nothing of them; what is
left in this application are the MCP tools. Their names arrive with the prefix
`mcp__httui_notes__`, so the rule of the broker for the bare `execute_block` matches
none of them: `BlockTools` are decided like any other tool. The theorems hold for any
`AllowedTools`, the empty set included, which is the broker by itself.

`turn[i]` is the i-th call of `sendMessage`. `SendMessage` is that function up to its
await; it does not look at `isStreaming`. `Compose` is the composer, which does
(`handleSend` has no await between the test and the call). `BeginResend` is a click on edit,
regenerate or "Continue as new conversation", which the interface offers only while nothing streams;
these await one or two commands and then call `sendMessage` (`Resend`) or do not
(`GiveUpResend`). `SendFails` is the catch. `late` is history: `isStreaming` was
already set when `sendMessage` was called. Without such a turn there is only one under way, and
`ComposerLocked` says so; that a late one happens is item 16 of section 3.2.
`Interrupt` may stop any turn that runs, which allows more than `activeRequestId` does. Reading
the stored rules is assumed to succeed (when it fails, the code asks the user), and a
response reaches the pipe of the Node process.

### 2.3 ConnectionsStore

A write gives a file a version, which stands for its content and for its
modification time; version 0 is the absent file. Each await of `load`,
`load_with_local` and `persist` separates two actions. A content written twice
within the resolution of the clock of the file system is not modelled (a write is
taken to change the time). `seen[t]` is a history variable: the versions that
existed since the call of t began.

### 2.4 PoolManager

`stored[v]` is `connections.toml` of vault v: the version of the record of each
connection, 0 if there is none. A look-up returns the version stored at one moment of the
look-up, which is what `LoadIsCurrent` of `ConnectionsStore` says (the file that
is absent and the local overrides are treated there). Passwords are in the keychain
and not part of a version. `get_pool` is `GetPool` (under the lock), `Lookup` and
`InsertPool` (both without it until the insertion).

The commands take no lock. `create_connection` is `Check` (the name is not there), `Read`
(of the whole file) and `Save` (of the whole file), with awaits between them;
`update_connection` is `Read`, `Save`, `Invalidate`; `delete_connection` is `Invalidate`,
`Read`, `Remove`. What a command writes is the file it read with its own record changed, so it
reverts what another command has written to the file in between. `ExternalEdit` is an editor or a pull.

`blame` is history and says why a pool may be stale. "raced": its look-up and its insertion
straddled a write of its record, or the insertion fell between the two halves of a
delete. "overwritten": the record was changed by one that invalidates
nothing, which is a create, the rewrite of the file for another connection, or an
editor. The program has no defence against the second at all (only the time to live
ends it); what `OnlyRacesLeaveStale` says is that there is no third.

### 2.5 EditorSession

`content`, `unsaved` and `conflict` are the fields of the pane store, `timer` is
`autoSaveTimer` together with the text its callback has captured. `write_note` and
`force_reload_file` are synchronous Tauri commands, which the main thread runs in
the order of their calls: `calls` is that queue, and `replies` are the promises that
are resolved while the code after the await (`Resume`) has not run. A write that
fails leaves the file alone and clears no mark.

`Reloaded` is both listeners of "file-reloaded". They are independent, so the
conflict is decided with the marks before or after the editor has taken the text;
the editor takes it by a dispatch, whose onChange is `handleEditorChange`.
`ToolUpdated` is the reload that the chat store asks for after a tool of the chat
has updated a note.

Time is abstracted in the watcher: a path is taken off the ignore list half a
second after a write, and a change is dropped within half a second after one that
was reported. `muted` are the files for which either may still be the case, so that
`Watch` may drop their change or report it; the change of another file is reported.
That the watcher looks at the list and then reads the file in two steps allows
nothing more, since a change of a muted file may be reported anyway.

Changes are numbered over all notes; `saved[f]` is history and counts a write that
failed, too. Abstracted: opening and reading notes (every open note is cached),
panes (one editor is mounted), the empty text, which `forceSave` skips, tags.
`suppressedFiles` is always empty in the program, as nothing calls
`suppressAutoSave`.

### 2.6 TuiDocument

A text is a sequence of lines, and a line is a word, the header of a fence or its
closing line: that is what `parse_blocks` tells apart. A block has a `raw` and the
text that its `fields` serialize to, because the program saves the fields and edits
the raw. The cursor is a segment and a kind; its offset is left open, so a command may
act on any range of lines of the segment, and `Move` may end anywhere.

`Entered` and `Exited` are `InBlockSwap::maybe_enter` and `exit`: most commands run
while the block under the cursor is prose. They are part of each action, in the order
of the code, so a snapshot taken meanwhile has the swapped segment in it. `lost` is
history and names the five ways in which the code itself gives up what the properties say: a
full stack; an exit from a swap that meets another segment than a prose between two
proses ("slot"), or a text that is not that of one block ("text"); a reload in insert
mode; a form. Each property excludes only those it must. An earlier version of
the model counted an exit as wrong when the number of segments had changed or the index
held no prose, and on the instance TLC checks the properties held. The attempt to prove
them showed that this is the wrong condition in longer notes: a list of the same length
may have another prose at the index, whose words then become the raw of a block,
with fields that are not its own and perhaps next to another block; and a longer list
may be harmless. An unclosed fence panics
(`Panics`); the step is taken, and the program is then over.

### 2.7 TuiQuery

A text stands for a query with its connection and the values of its variables, so
that two texts with the same key are the same text; a row is known by its query and
page. `Execute` is `run_db_block_inner` from its first check to the spawn: `Preflight`
are its refusals, then the question before an unscoped write, then the cache, then
`Spawn`. A task is in `tasks` from the spawn until its event is handled, with `out`
set when the executor is done; a task knows its index, not its note, so `Handle` folds
it into whatever note is active. `slot` is `running_query` with the key of the cache.
`asked` and the key of a task are history, as is `upset`.

The cursor may be on any block: what a key needs of it is the choice of the block.
The statements of a query are not told apart (section 5).

### 2.8 TuiModes

`Pressed` is the set of keys TLC presses; the model has all keys that are handled
differently somewhere. A key goes through `Taken` (the popup and control-space
come first), then the parser of the mode (`Parse`), which returns an action, its
operator and what is pending from then on, and `Apply` has one action for each kind
of action of the dispatcher (keys for which the parser returns the same are one
step: what the dispatcher does depends on nothing else of the key). A form is in `forms` while its `Option` in `App` is
`Some`; `mode` is kept apart, as in the code.

`note` is the text of the active pane and `modal` that of the modal which is up, and
`Doc` chooses between them as `document()` does. A position is one of four places: the prose a
text starts with, another prose, a block, a result. A text of a modal is one prose, so
any other place in it is a foreign cursor, and `HasBlocks` says when a motion can find
a block there. Conditions on what the model leaves out (the tree is visible, a
pattern is found, a name is valid) are choices.

### 2.9 BlockPanel

One panel, of either kind. `doc` is the text of the block in the editor and `seen` the
one that the callbacks of the panel read: the panel of an HTTP block is told at once, that of a
query after 250 ms without a change (`BodyNotify`). `panel` is `executionState` and
`response`; a response is the set of results whose rows are shown, and a result is known by the
text and the variables it was run with. `abort` is `abortRef`, `confirm` what the callbacks behind the question
have captured. A task is what the panel has started, with its place among the awaits
of `executeRun` (collecting references, the streamed call, the two calls that store
the result); `exec[t]` is the command that executes it. `mine` says that its panel is
still there: without it, what the task sets has no effect.

`Settle` takes the reply of the command and its last chunk together, since
`streamedExecution.ts` needs both. `store` and `server` are the active environment of
the front end and of the back end; the second is changed first.

`UsesEnv` are the texts that refer to a variable and `Keyed` those whose variables the hash finds.
`computeHttpCacheHash` looks for `{{KEY}}` after it has percent-encoded the parameters of the
query, and neither it nor the hash of a query finds `{{ KEY }}`, which
`resolveAllReferences` resolves. So a text in `UsesEnv` and not in `Keyed` is run with the
variables and has the same row in every environment; the instance has one of
each. `CacheHonest` claims the variables only for the others, and
item 15 of section 3.2 is what happens to this one.

Abstracted: time (the debounce and the limit of a query), values of references to
other blocks (which are in no key), the position of the block, intermediate chunks, and the environment in
`compute_block_hash`, which comes from a table that the desktop does not change.

### 2.10 VaultConfig

A command makes one call of a store; a migration makes many, in the order
`run_migration` has (an environment before its variables, the preferences last). A
call reads (`ReadEnv`, `ReadDoc`, `ReadForCreate`), changes the keychain if it has to
(`EnsureKeychainRef`, `DeleteSecrets`) and writes (`PersistEnv`, `RemoveEnv`,
`PersistDoc`), each of which may fail, and `Crash` may come between any two. Reading
and writing are one step each, because a load returns what the files have
(`LoadIsCurrent` of `ConnectionsStore`) and a write is a rename. `legacy` are the old tables.
An environment maps a key to a plain value or to the reference of a secret. The name
of a variable is its address in the keychain.

A migration reads the secrets of the old tables from the keychain, and one that cannot be
read becomes the empty secret `Empty` (`row_to_variable`): `unread` are those of a
migration, chosen when it starts, and `LegacyValue` is what it takes each variable to be.
`MigrationCarriesAll` says that a migration that succeeds has written those values, for
every variable; that it may have written the empty value for a secret and reports success all the same is item 17
of section 3.2.

`acked` and `ackedDoc` are history: what a command that returned promised. They
become `Unknown` for what is truly in doubt, and only for that: a secret between the
change of the keychain and the write of the file, and what is in a file that was written from an older
read (`stale`). `alone` is history, too. The file `workspace.toml` counts as one
section.

## 3. Runs

| run | instance | checks |
|---|---|---|
| `sidecar` | 1 request, 2 generations, 1 event | `TypeOK`, `NoSilentLoss`, `RefinesChatRequests`, `StrandedRequestEnds` |
| `permission` | a tool of each kind (the allowed ones are never asked for), 2 sessions, 2 turns, 1 resend, 2 requests, 1 answer | `TypeOK`, `Consent`, `ComposerLocked`, `ReplyUnderWay` |
| `store` | 2 tasks, 2 writes | `CacheSound`, `LoadIsCurrent` |
| `pools` | 2 vaults, 2 connections, 1 call, 1 command, 2 writes | `OnlyRacesLeaveStale`, `IdlePoolEvicted` |
| `editor` | 2 notes, 2 texts, 2 changes, 1 pending call, answer or event (autosaves come on top), autosave on | `EditorTypeOK`, `SavesInOrder`, `ChangeIsWritten` |
| `tui_document` | 1 word, 2 headers, 2 texts on disk, 3 lines, 3 commands, undo stack of 2 | `TypeOK`, `Padded`, `UndoAllRestores`, `FieldsFollowRaw`, `UnsavedKept` |
| `tui_query` | 2 notes, 2 reads, 1 unscoped write, 1 request, 2 pages, 2 tasks, 1 change | `TypeOK`, `SlotIsTask`, `CacheHonest`, `PagesInOrder`, `SlotReleased`, `BlockSettles` |
| `tui_modes` | the keys of `TuiModes.cfg`, 1 build of the index | `TypeOK`, `ModeHasForm`, `FormKeepsMode`, `NoteKeptUnderModal`, `OperatorSpent`, `DropsOnlyUnderModal`, `SearchAnswered` |
| `block_panel` | 2 texts (the hash finds the variables of one), 2 environments, 2 tasks, 1 change | `TypeOK`, `CacheHonest`, `ConfirmedTextRuns`, `RunSettles` |
| `vault_config` | 1 environment, 2 variables, 1 plain and 1 secret value, 2 commands at a time, 3 in all, 1 secret that is not read | `AckedIsKept`, `NoSecretInFile`, `MigrationCarriesAll` |
| `sidecar_abort` | as `sidecar` | `AbortStopsQuery` fails |
| `tui_confirm` | as `tui_query` | `UnscopedIsConfirmed` fails |

Why the bounds are enough. One request and two generations are what it takes for a
reader of the lost process to meet the process that replaced it, for the health
check to kill a process it did not ping, and for a request to be written to a
process already dead. `SidecarTwo.cfg` is a larger instance kept beside the runs: two requests in one generation add the broadcast of the loss to several
channels. Two permission requests fill and overwrite the one slot, and two sessions
make events of an inactive one; two turns are one and a later, or a late, one, and an answer
in one turn may decide the request of the other. `ChatPermissionCalls.cfg` (two answers,
no resend) and `ChatPermissionOne.cfg` (two answers in one turn) are kept beside the
runs and pass; they have the banner and a diff tab answered at the same time. Two
calls of the store and two writes give a stat, a change, a read, a change and a
store of the cache in every order. Two connections are what it takes for the rewrite
of the file to revert a record of the other one, with an editor as the second writer;
`PoolManagerFile.cfg` has two commands on one file and `PoolManagerTwo.cfg` two calls and two
commands on one connection, both kept beside the runs. Two notes share the one timer; two changes are an
older and a newer one of a note, or one of each; two texts are equal or not, which is
all the code asks. Three commands are what it takes to break, enter and undo a block, or to edit, save and
reload; three lines hold a fence and a word before, in or after it, and two headers make
an edited header a different one; a stack of two is full with three commands. Two tasks
are an overlap of any two kinds, with the outcomes in either order; two pages are a
first and a next one; one change is an edit, a removal or a reload at any moment of
them, and a second note is where an outcome may land wrongly. Keys are not bounded in
number, as the keyboard has finitely many states; one build of the index may end, well
or not, at any moment of them.
Two tasks of a panel are a run with another run, an EXPLAIN or a further page in every overlap; of
the two texts one is dangerous or never cached and the other depends on the environment, and
the change is an edit, a switch of the environment or an unmount at any moment.
Two commands overlap in every order, and two variables of one environment meet in one
file; three commands are a migration, a crash and the migration again with an
update in between or meanwhile. Environments are files of their own and
interact in nothing but the active one.

The bounds on counters
(`MaxGen`, `MaxEvents`, `MaxTurns`, `MaxResend`, `MaxPerm`, `MaxUnread`, `MaxVersion`, `MaxRecord`,
`MaxChanges`, `MaxPending`, `MaxLines`, `MaxEdits`, `MaxPages`, `MaxTasks`, `MaxBuilds`, `MaxRequests`) are guards of the
actions that count. The proofs do not depend on their values.

Deadlock is not checked in `Sidecar` and `ChatPermission`: when the application is
down, or when the bounds are used up and everything is answered, there is nothing
left to do. It is not checked in `TuiDocument`, `TuiQuery`, `BlockPanel` and `VaultConfig`, where the bounds end every
behaviour, nor in `TuiModes`, where the keys that are pressed may leave nothing to do. The
other modules always have a step.

### 3.1 Fairness

`Sidecar` states weak fairness of `SendChat`, `ReceiveReply`, `ReadLine`,
`OnTerminated`, `HealthPing`, `HealthPong`, `HealthTimeout`, `SupervisorSpawn` and
`ShutdownKill`: tasks of the tokio runtime that are ready run, and its timers fire.
The Node process and the user get no fairness: `StrandedRequestEnds` must hold
though the process may hang and nobody clicks. `PoolManager` states weak fairness of the
two steps of the clean-up task, which main.rs runs in an endless loop. `EditorSession`
states weak fairness of `AutoSaveFires`, `WriteNote` and `ForceReloadFile`: timers
fire, and the main thread runs the commands called; typing, saving, the watcher and
other programs get none. `TuiQuery` states weak
fairness of `Finish` and `Handle` for each task: every query and request has a time
limit (`effective_timeout_ms`, 30 seconds by default; the same for the HTTP client), and
the main loop takes the events there are. `TuiModes` states weak fairness of `BuildEnded`
alone: the build is a task that ends, well or not. Keys, writes to the cache, cancels
and other programs get none. `BlockPanel` states weak fairness of `Front`, `Validate`
and `ExecutorReturns` for each task: promises that are settled are continued, and every
query and request has the same limit of time. Cancels get none, since a run must
settle without them, and neither does the user. `ChatPermission`,
`ConnectionsStore`, `TuiDocument` and `VaultConfig` state safety only.

### 3.2 What the runs show of the code that its documents say otherwise

The first two are runs that expect a violation, and PROJECT.json quotes the document.
The others are configurations of the same kind, kept beside the runs; run each with
`tlc -config <name>.cfg <module>`.

1. `sidecar_abort`. `abort_chat` sends an abort as soon as the request is known to
   the front end, but `handleAbort` finds the query only after `handleChat` has
   awaited its imports. An earlier abort is dropped and the query runs to its end.
2. `tui_confirm`. The next page of a block is loaded by running the query that the block holds
   now, without the question and without the read-only gate of a run. A block that
   shows the rows of a SELECT and has been edited into a DELETE without WHERE is executed
   by moving the cursor down near its last row.
3. `TuiDocumentMoves.cfg` (`MCTuiDocument`). The forms change the fields of a block, commands edit its raw, and the fields
   are what is saved. The next motion that swaps the block derives the fields from the raw, so what
   the form did disappears. Nor does a form mark the note as changed, although the
   comment says so.
4. `ChatPermissionShown.cfg` (`MCChatPermission`). The chat store has one slot. A second
   request overwrites the first, an answer to any request clears the slot, and the request of an
   inactive session is dropped: the Node process waits for an answer nobody can
   give except by stopping the turn.
5. `ChatPermissionSession.cfg` (`MCChatPermission`). A rule of scope "session" is stored with a NULL
   session, and `check_permission` compares with `=`, so it never applies.
6. `ConnectionsStoreAbsent.cfg` (`MCConnectionsStore`). An absent file has the time None whenever
   it is absent, so a file created while it is loaded and removed again leaves its content
   cached.
7. `PoolManagerRace.cfg` (`PoolManager`). A `get_pool` that looked up the old record before
   the update saved it inserts its pool after the invalidation; the stale pool is then
   returned until it has been idle for its time to live. (The property leaves out the pools
   that are stale because of a writer that invalidates nothing.)
8. `EditorSessionMark.cfg` (`EditorSession`). A save that returns clears the mark of its note, even
   if the note has been changed since its text was taken. If the autosave of that change
   does not come either, because a change of another note took the only timer, the active
   tab has text that is not in its file, that nothing will save, and no dirty dot.
9. `TuiModesModal.cfg` (`TuiModes`). Leaving a selection in the modal of an HTTP response (v,
   then Esc) goes to the normal mode with the modal still up, since `return_from_visual`
   looks for the modal of a row alone. app.rs says that modal and mode flip in lockstep.
   Then every key that `is_blocked_in_modal` keeps from a modal works on it.
10. `TuiDocumentCrash.cfg` (`MCTuiDocument`). A fence that is typed and not closed is a block
   whose end is beyond the last line, and leaving insert mode slices up to there: the
   editor panics. The same holds for opening, reloading or pasting such a text.
11. `TuiQueryCache.cfg` (`MCTuiQuery`). An EXPLAIN started while a query runs takes its place in the
   slot; whichever outcome comes next is saved under the key in the slot, so the rows of one
   query may be stored under the key of another one that was started after it.
12. `BlockPanelConfirm.cfg` (`BlockPanel`). The next page of a result runs the block as it
   is now, with neither the question nor the read-only gate, although the comment
   (DbFencedPanel.tsx:588-590) says it "uses the same query + bindings as the initial run".
13. `BlockPanelRows.cfg` (`BlockPanel`). A page that arrives after a new run is appended
   to the rows of that run.
14. `VaultConfigRerun.cfg` (`MCVaultConfig`). `migration.rs` treats "already exists" as a
   reason to skip a variable, but `set_var` never returns it. A second migration
   sets every variable back to what the old tables have, and the preferences as well. The
   banner invites to one: a migration does not create `.httui/`, which is what the comment in
   MigrationBannerHost.tsx:35 and the detection rely on.
15. `BlockPanelEnvironment.cfg` (`BlockPanel`). A variable in a parameter of a request is in the
   result and not in the hash, so that after a switch of the environment the panel shows
   the stored rows of the other one. The comments in hash.ts:51-53 and
   DbFencedPanel.tsx:351-352 say that a change of an environment variable invalidates
   the row.
16. `ChatPermissionTurns.cfg` (`MCChatPermission`). An edit or a regenerate awaits the
   deletion of messages while the composer is still open; a message sent meanwhile starts a turn,
   and the resend starts a second one. The end of either unlocks the composer under the
   other.
17. `VaultConfigUnread.cfg` (`MCVaultConfig`). A migration that cannot read a secret of
   the old tables from the keychain stores the empty one in its place and reports success.
18. `ChatPermissionBlock.cfg` (`MCChatPermission`). permissions.rs:47 says that block execution
   "always requires user confirmation". The tool arrives as
   `mcp__httui_notes__execute_block`, which the rule does not match, so after one "always" it runs
   unasked.

The models of the terminal have further behaviours that no document denies: the outcome of a
query is folded into the block at the same index of whatever note is active by then; a
confirmed run runs the block at its index, which a reload may have changed; a reload in
insert mode empties the undo stack of the insert; an operator on a selection across segments, a
paste or an undo from inside a block swaps back into whatever segment is at its index;
`dgt` leaves the delete armed in the next tab; `:q` on one of several panes asks the
document of a modal that is up whether the pane has unsaved text; a second opening of the search
while the index is being built starts a second build; a build that fails puts the keyboard
into the normal mode whatever form is in front.

So do those of the desktop panel: a cancel before the command has registered its token is
lost; the `finally` of a run clears the reference of a newer one, and a stored result that
is found late shows "success" over a run, so that nothing is left to cancel it by; ⌘↵
within 250 ms of an edit runs the older text; the panel of a query does not abort when it
goes, and the call of `cancel_block` with `db_<block>` names no execution. While writing
the model it was also noticed that a reference to an HTTP block looks its result up under
another hash than the one it is stored under (document.ts:44 and 81), and that the
values of references are in no key.

And of the configuration: the keychain is changed before the file, so a failure in between
leaves a reference without a secret or a new secret with the old acknowledgement; two commands on
one file lose the update of one of them, and a `set_var` that was overtaken by
`delete_env` brings the environment back; `delete_env` leaves the active environment
pointing at what is gone. Duplicating an
environment from the interface always fails, since it asks for a name that
`is_valid_env_name` refuses, and `list_env_variables` gives blocks the empty text for a
secret (`resolve_var` has no caller).

## 4. Proofs

All proofs are for arbitrary values of the constants; the assumptions are the named
ASSUMEs of the modules (bounds are natural numbers, the "none" values are not
members of the sets they are added to, the kinds of tools do not overlap).

* `Sidecar_proofs`. `TypeCorrect`. `NoSilentLossHolds` needs the strengthening
  `IInv`: a reachable (registered, running) request is in the map of senders
  (`Reachable`), the lock is held only for a registered request (`GuardOk`), a
  request was written to a generation that exists (`SentToSpawned`), and the child
  is not a generation whose reader is past clearing it (`ClearedBeforeEnd`). The
  last one is the point: when a request is written to a generation, the reader of
  that generation has not cleared the child yet, so it will still tell it. The
  lemmas `AppendKeeps` and `TailKeeps` say that a terminal message stays in the
  channel until it is received.
  `Refinement`: every step of `Sidecar` is a step of
  `ChatRequests` or leaves the status of every request alone. A step that ends a
  request is a step of the abstraction only if the outcome is one that it allows,
  so the invariant says where outcomes come from: a chat message is in an inbox at
  most once and only for a query that has not begun (`NotYetWritten`, `ChatOnce`),
  and a "done" in a pipe or a channel is that of an answered query (`DoneIsReal`).
* `Connections_proofs`. `TypeCorrect` of the store. `CacheSoundHolds` needs that every time
  in use is at most the clock (`Bounded`), so a new write never repeats a time, and
  that what a loading task has read agrees with the disk where its captured time
  does (`ReadSound`). `LoadIsCurrentHolds` adds that the versions now on disk are
  seen by every loading task (`SeenNow`) and that a captured time and a content
  read under it are among those seen (`BaseKnown`, `LocalKnown`).
  `PoolTypeCorrect`. `OnlyRacesLeaveStaleHolds` needs that a
  call that was not overtaken holds the record that is stored now (`CallFresh`), and that a
  pool in the cache between the invalidation of a delete and its write is marked
  (`SlippedIn`); only a create checks a name (`OnlyCreatesCheck`). Every write of the file is a `Rewrite` of the records that differ, whoever makes
  it: the lemma about it says that it keeps the invariant, except for pools of
  the connection that the command is on, and those are about to be invalidated or
  have slipped in. Nothing relates what a command has read to what is stored.
* `FrontEnd_proofs`. `TypeCorrect` of the permissions: the type invariant is not inductive alone,
  since an answer names the tool of the request it is for; `OnlyShowable` adds that
  every id under way was asked, and that what the user can answer is not a write
  outside the working directory. `ConsentHolds` follows the permission from its
  source: every rule in the table is an answer of the user (`RulesAreAnswers`), so
  is every call under way (`CallsAreAnswers`), and every "allow" on its way has
  consent (`AllowHasConsent`, with the lemma `BrokerConsents` for what the broker
  decides by itself). `ReplyUnderWayHolds` is inductive together with these.
  `ComposerLockedHolds` needs `OneTurn`: as long as no turn was late, at most one turn is short of
  its end, from the call of `sendMessage` to the event that the store handles, and
  meanwhile the composer is locked. A turn that is not late is sent when none is left;
  whatever unlocks the composer, the event of an end or the catch, belongs to that one turn
  (`EndsOfTurns`).
  `EditorTypeCorrect`. `SavesInOrderHolds` needs `Ordered`: the
  timer holds the text that is in the editor now (`TimerIsLatest`), which is why an
  autosave after a forced save is never older; no save or waiting write is newer than
  the editor (`NothingNewer`); no waiting write is older than the last one written
  (`NothingOlder`), nor than an earlier one of the same note (`QueueOrdered`).

* `TuiQuery_proofs`. `TypeCorrect`. `SlotIsTaskHolds` needs that the modal is not open
  while a task runs (`ModalAlone`), so that confirming starts one only when the slot is empty,
  and that the key of a task is one of its own query (`OwnKeys`). `CacheHonestHolds`
  follows: the key in the slot is that of the task whose outcome is saved, whatever
  has happened to the notes, so what is saved is the first page of the query of the key.
  `PagesInOrderHolds` needs that a page under way continues the rows of its block: while nothing
  has upset the notes there is one task, its block is the one at its index in the
  active note, with the same text, and for a further page the offset is the number of
  its rows. The lemmas are about what each kind of outcome leaves in a block
  (`LandedPaged`) and about replacing or removing an element of a sequence.

* `VaultConfig_proofs`. `TypeCorrect`. `NoSecretInFileHolds` needs that what a call has
  read and is about to write has no secret in it either (`Clean`). `AckedIsKeptHolds`
  needs that a call that was not overtaken has what the file still has: until it changes
  the keychain its snapshot is the file, and after that the snapshot has the given value
  of its variable and, of every other one, the value that was acknowledged
  (`FreshEnv`); the sections it has read are those on disk (`FreshDoc`).
  The type of a snapshot, the value of a variable through its reference, and what
  `Overtaken` marks are lemmas.

  `MigrationCarriesAllHolds` is about a whole migration, which makes its calls in any order
  between crashes, other commands and earlier attempts. The invariant is about a migration
  that runs alone: what it still has to do are calls of a migration (`Due`), each variable of
  the old tables has its value already or is still due (`Carried`), and a call
  under way has read the file that is there (`Knows`). The value of a variable is the one the migration
  has read, which for a secret the keychain did not give is the empty one. Creating an environment takes
  nothing away because it is only done where there is no file.

* `BlockPanel_proofs`. `TypeCorrect`. `CacheHonestHolds` needs that a task about to store its result has the
  hash of the text and the variables it was run with (`HashIsOfTask`), which it took when
  it was started (without the variables if the hash does not find them), and not of what the panel shows by then, and that a lookup past its
  first await has a hash (`LookupIsHashed`). `ConfirmedTextRunsHolds` looks at every step of a task:
  it starts with the text the question was about, or unasked with one that needs no
  question (`StartsAsAsked`), and no later step changes its text (`Advances`).

* `TuiModes_proofs`. The keyboard has some hundred keys in eighteen modes; what makes
  it provable is a lemma for each parser that says which actions it may return in which modes and
  what it leaves pending, and one for each kind of action that says what it does to mode, forms and
  anchor. The invariant is `TypeOK`, `ModeHasForm` and that an operator waits only where
  `parse_normal` reads the next key, or under the question before a run (`ArmedWhereRead`).
  The four action properties follow from it and from the same lemmas, step by step.

* `TuiDocument_proofs`. The note is rebuilt by cutting texts and splicing lists, so the proof
  begins with data: induction over the naturals (`SetInduction`, from the pigeonhole
  principle of `FiniteSetTheorems`), what `FlattenSeq` gives, where the blocks of a text
  are and that they do not overlap (`BlocksApart`, `BoundsInOrder`), that a text which is parsed and written
  again is the same text (`RoundTrip`), that parsing, padding, deleting and reparsing
  give notes that are padded, and that of exact blocks (whose fields are their raw, the
  text of one block) they make exact ones. The invariant then says of every document, the
  present one and those on both stacks, that it is well formed, padded unless "slot", and with
  fields that follow the raws unless "form" (`KindsKept`); that the oldest document has the
  text `base`, in exact blocks, and that nothing is typed before there is one on the
  stack (`BaseKept`); and that a clean note is what was saved (`CleanIsSaved`). TLC has
  checked the invariant on the instance of `tui_document`. `PaddedHolds`, `UndoAllRestoresHolds` and
  `FieldsFollowRawHolds` are conjuncts of it; `UnsavedKeptHolds` follows from the last one.

What is only model-checked: the liveness properties (`StrandedRequestEnds`,
`IdlePoolEvicted`, `ChangeIsWritten`, `SlotReleased`, `BlockSettles`, `SearchAnswered`,
`RunSettles`), which need fairness and ENABLED, out of the prover's reach. Every other
property of a passing run is proved. The
runs that expect a violation are counterexamples and prove nothing more than that.

## 5. Not modelled

PROJECT.json lists every component with its status and the reason. In short: pure
functions over text (parser, references, templates, code generation, explain),
calls of other programs (git, keychain, databases, HTTP servers), rendering, the MCP server
and the web site. SQL over the single connection of the local database is
modelled only where it takes part in a protocol (`tool_permissions`, the result cache).

Of the terminal, these are left out: counts, named registers and the dot of the keyboard;
offsets within a segment, hence what each motion and text object selects; the values of
references, which are not part of the key of the cache; the statements after the first
one of a query (a block `SELECT ...; UPDATE ...` counts as a read, is re-executed
for every page and is served from the cache, which `is_cacheable_query` and
`is_unscoped_destructive` decide by the first word alone); the other panes of a
tab; renaming and deleting files; drawing.

Of the chat, these are left out: the tools in `allowed_tools`, which the SDK runs unasked; messages, drafts,
titles and usage; the stop of an answer that has asked for nothing.

Of the configuration, these are left out: a second vault (the address of a variable in the keychain,
keychain.rs:136, is the name of its environment and its key, so environments of the
same name in two vaults share their secrets, and `delete_env` in one removes those of the
other; `AckedIsKept` is about one vault), the `.local` overlays of environments and of the workspace
(the overlay of the connections is in `ConnectionsStore`), references `{{...}}` given in
place of a secret, files edited by hand meanwhile, `duplicate_environment`, and the
connections in the migration. `TypeOK` of `ConnectionsStore` and
`VaultConfig` and `PoolTypeOK` of `PoolManager` are proved and not among the properties of their runs.

## 6. Plan

In order of importance:

1. `EditorSession`, continued: opening and reading notes, and the version of the file
   that the editor last saw. Properties: a write replaces no version that was not
   seen (ADR 0003 describes a check before each write that the code lacks), a text
   kept in a conflict is the user's, the last change of a burst is reported (a
   trailing debounce, as ADR 0003 has it, against the leading-edge one of the code).
2. `VaultStoreRegistry`: the race of `for_vault`; the migration of connections.
3. Panes of both front ends with the file operations of the trees, block caches and history trimming, the schema cache.
4. A composition of `Sidecar` and `ChatPermission`: permission ids restart with
   the process.
5. Proofs: that the events of `Sidecar` reach their request in order, with the
   composition of item 4; an operator on a selection
   across segments takes the selected lines and no others.
