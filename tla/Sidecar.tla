------------------------------ MODULE Sidecar ------------------------------
(***************************************************************************)
(* The chat sidecar of the desktop app: SidecarManager in Rust (process    *)
(* supervision, health check, multiplexing of requests over one stdio      *)
(* pipe), the tasks of send_chat_message that consume the replies, and the *)
(* line dispatcher and query loop of the Node process.                     *)
(*                                                                         *)
(* Every process that is spawned is a generation 1, 2, ...: the field      *)
(* `child` of the manager holds the current one or nothing (0), but the    *)
(* reader task of an older generation may still be running, because the    *)
(* Terminated event reaches it only when every copy of the process's       *)
(* output pipe is closed.                                                  *)
(***************************************************************************)
EXTENDS Naturals, Sequences

CONSTANTS Requests,    \* request ids (a uuid each)
          NoRequest,   \* nobody holds the SidecarState lock
          MaxGen,      \* bound: processes spawned in a behaviour
          MaxEvents    \* bound: stream events per request

ASSUME SidecarAssumption == /\ NoRequest \notin Requests
                            /\ MaxGen \in Nat
                            /\ MaxEvents \in Nat

Gen == 1..MaxGen

VARIABLES
  manager,    \* "none": SidecarState is None; "up"; "closing": in shutdown(); "down"
  child,      \* manager.child: the generation, or 0 for None
  spawned,    \* number of generations spawned so far
  proc,       \* proc[g]: "none", "alive", "hung" (answers nothing more), "dead"
  inbox,      \* inbox[g]: the lines on the process's stdin that it may still read
  outbox,     \* outbox[g]: the lines the process wrote and its reader has not read
  reader,     \* reader[g]: "none", "run", "notify" (child cleared, requests not yet told), "end"
  requests,   \* manager.requests: ids that have a sender in the map
  rx,         \* rx[r]: the unbounded channel of request r
  status,     \* "idle", "registered", "running", "rejected", "done", "error"
  sentTo,     \* generation the Chat line of r was written to, 0 before
  guard,      \* request whose command holds the SidecarState lock
  toAbort,    \* requests shutdown() still has to send an Abort for
  supervisor, \* "poll", "backoff", "spawning", "stopped"
  health,     \* "sleep", "waiting" (for a pong)
  pinged,     \* generation whose pong is awaited, 0 while asleep
  permit,     \* the permit pong_notify stores when nobody waits
  query,      \* query[r] in the Node process: "none", "starting", "active", "interrupted", or its end
  emitted,    \* stream events sent for r
  aborts      \* aborts[r]: "no", "sent", "handled" by the dispatcher

managerVars == <<manager, child, spawned, toAbort>>
pipeVars    == <<proc, inbox, outbox, reader>>
requestVars == <<requests, rx, status, sentTo, guard>>
taskVars    == <<supervisor, health, pinged, permit>>
nodeVars    == <<query, emitted, aborts>>
vars == <<managerVars, pipeVars, requestVars, taskVars, nodeVars>>

Terminal == {"done", "error"}
Line  == [kind : {"ping"}] \cup [kind : {"chat", "abort"}, req : Requests]
Event == [kind : {"pong"}] \cup [kind : {"event"} \cup Terminal, req : Requests]

TypeOK ==
  /\ manager \in {"none", "up", "closing", "down"}
  /\ child \in 0..MaxGen
  /\ spawned \in 0..MaxGen
  /\ proc \in [Gen -> {"none", "alive", "hung", "dead"}]
  /\ inbox \in [Gen -> Seq(Line)]
  /\ outbox \in [Gen -> Seq(Event)]
  /\ reader \in [Gen -> {"none", "run", "notify", "end"}]
  /\ requests \subseteq Requests
  /\ rx \in [Requests -> Seq({"event"} \cup Terminal)]
  /\ status \in [Requests -> {"idle", "registered", "running", "rejected"} \cup Terminal]
  /\ sentTo \in [Requests -> 0..MaxGen]
  /\ guard \in Requests \cup {NoRequest}
  /\ toAbort \subseteq Requests
  /\ supervisor \in {"poll", "backoff", "spawning", "stopped"}
  /\ health \in {"sleep", "waiting"}
  /\ pinged \in 0..MaxGen
  /\ permit \in BOOLEAN
  /\ query \in [Requests -> {"none", "starting", "active", "interrupted"} \cup Terminal]
  /\ emitted \in [Requests -> 0..MaxEvents]
  /\ aborts \in [Requests -> {"no", "sent", "handled"}]

Init ==
  /\ manager = "none"
  /\ child = 0
  /\ spawned = 0
  /\ proc = [g \in Gen |-> "none"]
  /\ inbox = [g \in Gen |-> <<>>]
  /\ outbox = [g \in Gen |-> <<>>]
  /\ reader = [g \in Gen |-> "none"]
  /\ requests = {}
  /\ rx = [r \in Requests |-> <<>>]
  /\ status = [r \in Requests |-> "idle"]
  /\ sentTo = [r \in Requests |-> 0]
  /\ guard = NoRequest
  /\ toAbort = {}
  /\ supervisor = "poll"
  /\ health = "sleep"
  /\ pinged = 0
  /\ permit = FALSE
  /\ query = [r \in Requests |-> "none"]
  /\ emitted = [r \in Requests |-> 0]
  /\ aborts = [r \in Requests |-> "no"]

-----------------------------------------------------------------------------
(* SidecarManager::spawn_process: the new process becomes the child and    *)
(* its reader task starts.                                                 *)
SpawnProcess ==
  /\ spawned < MaxGen
  /\ spawned' = spawned + 1
  /\ child' = spawned + 1
  /\ proc' = [proc EXCEPT ![spawned + 1] = "alive"]
  /\ reader' = [reader EXCEPT ![spawned + 1] = "run"]
  /\ UNCHANGED <<inbox, outbox>>

(* A line written to the child's stdin; a process that hangs never reads   *)
(* it.  A process that died but whose Terminated event is still under way  *)
(* loses the line, or the write fails; without a child it fails.           *)
Written(line) ==
  /\ child # 0
  /\ inbox' = IF proc[child] = "alive" THEN [inbox EXCEPT ![child] = Append(@, line)]
              ELSE inbox

NotWritten ==
  /\ child # 0 => proc[child] = "dead"
  /\ UNCHANGED inbox

(* The process is gone, and with it what it had not read.                  *)
Dies(g) ==
  /\ proc' = [proc EXCEPT ![g] = "dead"]
  /\ inbox' = [inbox EXCEPT ![g] = <<>>]

(* Mutant: the handle is dropped, the process is not killed.               *)
TakeOnly ==
  /\ child' = 0
  /\ UNCHANGED <<proc, inbox>>

(* guard.take().kill() on whatever child is current.                       *)
TakeAndKill ==
  /\ child' = 0
  /\ IF child = 0 THEN UNCHANGED <<proc, inbox>> ELSE Dies(child)

-----------------------------------------------------------------------------
(* send_chat_message and abort_chat.                                       *)

(* The lazy spawn on first use.  A failure returns before a request exists *)
(* and leaves SidecarState at None.                                        *)
StartManager ==
  /\ manager = "none"
  /\ guard = NoRequest
  /\ SpawnProcess
  /\ manager' = "up"
  /\ UNCHANGED <<toAbort, requestVars, taskVars, nodeVars>>

RegisterRequest(r) ==
  /\ manager = "up"
  /\ guard = NoRequest
  /\ status[r] = "idle"
  /\ guard' = r
  /\ requests' = requests \cup {r}
  /\ status' = [status EXCEPT ![r] = "registered"]
  /\ UNCHANGED <<managerVars, pipeVars, rx, sentTo, taskVars, nodeVars>>

(* `mgr.send(..).await?`: on success the receiving task is spawned; on     *)
(* failure the command returns and the map keeps the id.                   *)
SendChat(r) ==
  /\ guard = r
  /\ \/ /\ Written([kind |-> "chat", req |-> r])
        /\ status' = [status EXCEPT ![r] = "running"]
        /\ sentTo' = [sentTo EXCEPT ![r] = child]
     \/ /\ NotWritten
        /\ status' = [status EXCEPT ![r] = "rejected"]
        /\ UNCHANGED sentTo
  /\ guard' = NoRequest
  /\ UNCHANGED <<managerVars, proc, outbox, reader, requests, rx, taskVars, nodeVars>>

(* Mutant: every message ends the loop.                                    *)
ReceiveAnyReply(r) ==
  /\ status[r] = "running"
  /\ rx[r] # <<>>
  /\ rx' = [rx EXCEPT ![r] = Tail(@)]
  /\ status' = [status EXCEPT ![r] = Head(rx[r])]
  /\ UNCHANGED <<managerVars, pipeVars, requests, sentTo, guard, taskVars, nodeVars>>

(* The task of request r takes the next message; the loop breaks at the    *)
(* first Done or Error.                                                    *)
ReceiveReply(r) ==
  /\ status[r] = "running"
  /\ rx[r] # <<>>
  /\ rx' = [rx EXCEPT ![r] = Tail(@)]
  /\ status' = IF Head(rx[r]) \in Terminal
                 THEN [status EXCEPT ![r] = Head(rx[r])]
                 ELSE status
  /\ UNCHANGED <<managerVars, pipeVars, requests, sentTo, guard, taskVars, nodeVars>>

UnregisterRequest(r) ==
  /\ status[r] \in Terminal
  /\ r \in requests
  /\ guard = NoRequest
  /\ manager # "closing"
  /\ requests' = requests \ {r}
  /\ UNCHANGED <<managerVars, pipeVars, rx, status, sentTo, guard, taskVars, nodeVars>>

(* abort_chat, once per request.  The caller learns the id when            *)
(* send_chat_message has returned, and forgets it at the outcome.          *)
AbortChat(r) ==
  /\ manager = "up"
  /\ guard = NoRequest
  /\ status[r] = "running"
  /\ aborts[r] = "no"
  /\ Written([kind |-> "abort", req |-> r])
  /\ aborts' = [aborts EXCEPT ![r] = "sent"]
  /\ UNCHANGED <<managerVars, proc, outbox, reader, requestVars, taskVars, query, emitted>>

-----------------------------------------------------------------------------
(* read_events, one task per generation.                                   *)

ReadLine(g) ==
  /\ reader[g] = "run"
  /\ outbox[g] # <<>>
  /\ outbox' = [outbox EXCEPT ![g] = Tail(@)]
  /\ LET e == Head(outbox[g])
     IN IF e.kind = "pong"
          THEN permit' = TRUE /\ UNCHANGED rx
          ELSE /\ rx' = IF e.req \in requests
                          THEN [rx EXCEPT ![e.req] = Append(@, e.kind)]
                          ELSE rx
               /\ UNCHANGED permit
  /\ UNCHANGED <<managerVars, proc, inbox, reader, requests, status, sentTo, guard,
                 supervisor, health, pinged, nodeVars>>

(* Mutant: only one of the registered requests is told.                    *)
ToldOne(ids) ==
  [r \in Requests |-> IF r \in ids /\ r = CHOOSE q \in ids : TRUE
                        THEN Append(rx[r], "error") ELSE rx[r]]

(* The channels after an Error for each of the ids.                        *)
Told(ids) ==
  [r \in Requests |-> IF r \in ids THEN Append(rx[r], "error") ELSE rx[r]]

(* Mutant: the requests are notified before the child is cleared.          *)
OnTerminatedNotifyFirst(g) ==
  /\ proc[g] = "dead"
  /\ outbox[g] = <<>>
  /\ \/ /\ reader[g] = "run"
        /\ rx' = Told(requests)
        /\ reader' = [reader EXCEPT ![g] = "notify"]
        /\ UNCHANGED child
     \/ /\ reader[g] = "notify"
        /\ child' = 0
        /\ reader' = [reader EXCEPT ![g] = "end"]
        /\ UNCHANGED rx
  /\ UNCHANGED <<manager, spawned, toAbort, proc, inbox, outbox, requests, status, sentTo, guard,
                 taskVars, nodeVars>>

(* Mutant: a lost process is reported as the end of the answer.            *)
OnTerminatedAsDone(g) ==
  /\ proc[g] = "dead"
  /\ outbox[g] = <<>>
  /\ \/ /\ reader[g] = "run"
        /\ child' = 0
        /\ reader' = [reader EXCEPT ![g] = "notify"]
        /\ UNCHANGED rx
     \/ /\ reader[g] = "notify"
        /\ rx' = [r \in Requests |-> IF r \in requests THEN Append(rx[r], "done") ELSE rx[r]]
        /\ reader' = [reader EXCEPT ![g] = "end"]
        /\ UNCHANGED child
  /\ UNCHANGED <<manager, spawned, toAbort, proc, inbox, outbox, requests, status, sentTo, guard,
                 taskVars, nodeVars>>

(* CommandEvent::Terminated, after the last line: whatever child is        *)
(* current is cleared, then every registered request is sent an Error.     *)
OnTerminated(g) ==
  /\ proc[g] = "dead"
  /\ outbox[g] = <<>>
  /\ \/ /\ reader[g] = "run"
        /\ child' = 0
        /\ reader' = [reader EXCEPT ![g] = "notify"]
        /\ UNCHANGED rx
     \/ /\ reader[g] = "notify"
        /\ rx' = Told(requests)
        /\ reader' = [reader EXCEPT ![g] = "end"]
        /\ UNCHANGED child
  /\ UNCHANGED <<manager, spawned, toAbort, proc, inbox, outbox, requests, status, sentTo, guard,
                 taskVars, nodeVars>>

-----------------------------------------------------------------------------
(* The supervisor task.  The back-off delays only take time.               *)

SupervisorPoll ==
  /\ supervisor = "poll"
  /\ \/ manager = "closing" /\ supervisor' = "stopped"
     \/ manager = "up" /\ child = 0 /\ supervisor' = "backoff"
  /\ UNCHANGED <<managerVars, pipeVars, requestVars, health, pinged, permit, nodeVars>>

SupervisorCheck ==
  /\ supervisor = "backoff"
  /\ supervisor' = IF manager = "up" THEN "spawning" ELSE "stopped"
  /\ UNCHANGED <<managerVars, pipeVars, requestVars, health, pinged, permit, nodeVars>>

SupervisorSpawn ==
  /\ supervisor = "spawning"
  /\ supervisor' = "poll"
  /\ \/ SpawnProcess
     \/ UNCHANGED <<child, spawned, pipeVars>>   \* spawn_process returned Err
  /\ UNCHANGED <<manager, toAbort, requestVars, health, pinged, permit, nodeVars>>

-----------------------------------------------------------------------------
(* The health-check task.                                                  *)

HealthPing ==
  /\ manager = "up"
  /\ health = "sleep"
  /\ \/ /\ Written([kind |-> "ping"])
        /\ health' = "waiting"
        /\ pinged' = child
     \/ /\ NotWritten
        /\ UNCHANGED <<health, pinged>>
  /\ UNCHANGED <<managerVars, proc, outbox, reader, requestVars, supervisor, permit, nodeVars>>

HealthPong ==
  /\ health = "waiting"
  /\ permit
  /\ permit' = FALSE
  /\ health' = "sleep"
  /\ pinged' = 0
  /\ UNCHANGED <<managerVars, pipeVars, requestVars, supervisor, nodeVars>>

(* Nothing for HEALTH_CHECK_TIMEOUT: the current child is taken and killed. *)
HealthTimeout ==
  /\ health = "waiting"
  /\ ~permit
  /\ health' = "sleep"
  /\ pinged' = 0
  /\ TakeAndKill
  /\ UNCHANGED <<manager, spawned, toAbort, outbox, reader, requestVars, supervisor, permit,
                 nodeVars>>

-----------------------------------------------------------------------------
(* shutdown(), a task started when the window is asked to close, under the *)
(* SidecarState lock; the application may exit anywhere in it.  Between    *)
(* the aborts and the kill it sleeps two seconds, taken to be longer than  *)
(* a spawn that the supervisor had already begun.                          *)

ShutdownBegin ==
  /\ manager = "up"
  /\ guard = NoRequest
  /\ manager' = "closing"
  /\ toAbort' = requests
  /\ UNCHANGED <<child, spawned, pipeVars, requestVars, taskVars, nodeVars>>

ShutdownAbort(r) ==
  /\ r \in toAbort
  /\ Written([kind |-> "abort", req |-> r]) \/ NotWritten
  /\ toAbort' = toAbort \ {r}
  /\ UNCHANGED <<manager, child, spawned, proc, outbox, reader, requestVars, taskVars, nodeVars>>

ShutdownKill ==
  /\ manager = "closing"
  /\ toAbort = {}
  /\ supervisor # "spawning"
  /\ manager' = "down"
  /\ TakeAndKill
  /\ UNCHANGED <<spawned, toAbort, outbox, reader, requestVars, taskVars, nodeVars>>

-----------------------------------------------------------------------------
(* The Node process of generation g.                                       *)

(* rl.on("line"): handleChat runs up to its first await, handleAbort finds *)
(* a query only once it is in activeQueries, a ping is answered at once.   *)
HandleLine(g) ==
  /\ proc[g] = "alive"
  /\ inbox[g] # <<>>
  /\ inbox' = [inbox EXCEPT ![g] = Tail(@)]
  /\ LET l == Head(inbox[g])
     IN \/ /\ l.kind = "ping"
           /\ outbox' = [outbox EXCEPT ![g] = Append(@, [kind |-> "pong"])]
           /\ UNCHANGED <<query, aborts>>
        \/ /\ l.kind = "chat"
           /\ query' = [query EXCEPT ![l.req] = "starting"]
           /\ UNCHANGED <<outbox, aborts>>
        \/ /\ l.kind = "abort"
           /\ IF sentTo[l.req] = g
                THEN /\ aborts' = [aborts EXCEPT ![l.req] = "handled"]
                     /\ query' = IF query[l.req] = "active"
                                   THEN [query EXCEPT ![l.req] = "interrupted"]
                                   ELSE query
                ELSE UNCHANGED <<aborts, query>>
           /\ UNCHANGED outbox
  /\ UNCHANGED <<managerVars, proc, reader, requestVars, taskVars, emitted>>

(* activeQueries.set, after the imports handleChat awaits.                 *)
ActivateQuery(r) ==
  /\ query[r] = "starting"
  /\ proc[sentTo[r]] = "alive"
  /\ query' = [query EXCEPT ![r] = "active"]
  /\ UNCHANGED <<managerVars, pipeVars, requestVars, taskVars, emitted, aborts>>

(* A session, text_delta, tool_use, tool_result or permission_request.     *)
EmitEvent(r) ==
  /\ query[r] \in {"active", "interrupted"}
  /\ proc[sentTo[r]] = "alive"
  /\ emitted[r] < MaxEvents
  /\ emitted' = [emitted EXCEPT ![r] = @ + 1]
  /\ outbox' = [outbox EXCEPT ![sentTo[r]] = Append(@, [kind |-> "event", req |-> r])]
  /\ UNCHANGED <<managerVars, proc, inbox, reader, requestVars, taskVars, query, aborts>>

(* The query yields its result, or the try block throws.                   *)
FinishQuery(r) ==
  /\ query[r] \in {"starting", "active", "interrupted"}
  /\ proc[sentTo[r]] = "alive"
  /\ \E k \in IF query[r] = "starting" THEN {"error"} ELSE Terminal :
       /\ outbox' = [outbox EXCEPT ![sentTo[r]] = Append(@, [kind |-> k, req |-> r])]
       /\ query' = [query EXCEPT ![r] = k]
  /\ UNCHANGED <<managerVars, proc, inbox, reader, requestVars, taskVars, emitted, aborts>>

(* The process stops: a crash, or stdin was closed because the manager no  *)
(* longer holds its handle.                                                *)
ProcessExit(g) ==
  /\ proc[g] = "alive"
  /\ Dies(g)
  /\ UNCHANGED <<managerVars, outbox, reader, requestVars, taskVars, nodeVars>>

ProcessHang(g) ==
  /\ proc[g] = "alive"
  /\ proc' = [proc EXCEPT ![g] = "hung"]
  /\ inbox' = [inbox EXCEPT ![g] = <<>>]
  /\ UNCHANGED <<managerVars, outbox, reader, requestVars, taskVars, nodeVars>>

-----------------------------------------------------------------------------
Rust == \/ StartManager
        \/ \E r \in Requests : RegisterRequest(r) \/ SendChat(r) \/ ReceiveReply(r)
                               \/ UnregisterRequest(r) \/ AbortChat(r) \/ ShutdownAbort(r)
        \/ \E g \in Gen : ReadLine(g) \/ OnTerminated(g)
        \/ SupervisorPoll \/ SupervisorCheck \/ SupervisorSpawn
        \/ HealthPing \/ HealthPong \/ HealthTimeout
        \/ ShutdownBegin \/ ShutdownKill

Node == \/ \E g \in Gen : HandleLine(g) \/ ProcessExit(g) \/ ProcessHang(g)
        \/ \E r \in Requests : ActivateQuery(r) \/ EmitEvent(r) \/ FinishQuery(r)

Next == Rust \/ Node

Spec == Init /\ [][Next]_vars

(* The tokio runtime runs every ready task and timers fire; the Node       *)
(* process promises nothing.                                               *)
Fairness ==
  /\ \A r \in Requests : WF_vars(SendChat(r)) /\ WF_vars(ReceiveReply(r))
  /\ \A g \in Gen : WF_vars(ReadLine(g)) /\ WF_vars(OnTerminated(g))
  /\ WF_vars(HealthPing) /\ WF_vars(HealthPong) /\ WF_vars(HealthTimeout)
  /\ WF_vars(ShutdownKill) /\ WF_vars(SupervisorSpawn)

FairSpec == Spec /\ Fairness

-----------------------------------------------------------------------------
(* What a caller of the chat commands is promised.                         *)

(* A task that waits for a reply is never left behind by a process whose   *)
(* reader has ended: the terminal message is already in its channel.  This *)
(* is what registering before writing, and clearing the child before       *)
(* notifying, are for (send_chat_message, read_events).                    *)
NoSilentLoss ==
  \A r \in Requests :
    status[r] = "running" /\ reader[sentTo[r]] = "end"
      => \E i \in DOMAIN rx[r] : rx[r][i] \in Terminal

(* The terminal outcome "done" is a real one: it is reported only for a    *)
(* query that yielded its result, never in place of a lost process, and a  *)
(* request has one outcome (ChatRequests, refined by Sidecar).             *)
answered == {r \in Requests : query[r] = "done"}
phase == [r \in Requests |-> IF status[r] = "registered" THEN "idle" ELSE status[r]]

Promise == INSTANCE ChatRequests WITH phase <- phase, answered <- answered

RefinesChatRequests == Promise!Spec

(* A request whose process died or hangs does not wait for ever, as long   *)
(* as the application runs: the health check finds a hung process, its     *)
(* death reaches the reader, and the reader tells every request.           *)
Stranded(r) == status[r] = "running" /\ proc[sentTo[r]] \in {"hung", "dead"}

StrandedRequestEnds ==
  \A r \in Requests : Stranded(r) ~> (status[r] \in Terminal \/ manager # "up")

-----------------------------------------------------------------------------
(* What the documentation promises and the code does not keep.             *)

(* An abort the dispatcher has handled stopped the query.                  *)
AbortStopsQuery ==
  \A r \in Requests : aborts[r] = "handled" => query[r] \notin {"starting", "active"}
=============================================================================
