--------------------------- MODULE Sidecar_proofs ---------------------------
(***************************************************************************)
(* NoSilentLoss and the refinement of ChatRequests, for any number of      *)
(* requests, processes and events.                                         *)
(*                                                                         *)
(* NoSilentLoss is inductive together with three facts about the order of  *)
(* steps: a request is in the map before its Chat line is written          *)
(* (Reachable), the Chat line goes to a process that was spawned           *)
(* (SentToSpawned), and a reader that has left its loop has cleared its    *)
(* process from `child` (ClearedBeforeEnd), so nothing is written to it    *)
(* any more.                                                               *)
(***************************************************************************)
EXTENDS Sidecar, SequenceTheorems, TLAPS

-----------------------------------------------------------------------------
(* What a channel holds when a line is sent or taken.                      *)

(* Appending keeps every element and adds the new one.                     *)
LEMMA AppendKeeps ==
  ASSUME NEW T, NEW s \in Seq(T), NEW e \in T, NEW P,
         (e \in P) \/ (\E i \in DOMAIN s : s[i] \in P)
  PROVE  \E i \in DOMAIN Append(s, e) : Append(s, e)[i] \in P
<1>1. CASE e \in P
  BY <1>1, AppendProperties
<1>2. CASE \E i \in DOMAIN s : s[i] \in P
  BY <1>2, AppendProperties
<1>. QED  BY <1>1, <1>2

(* Taking the head away keeps every other element.                         *)
LEMMA TailKeeps ==
  ASSUME NEW T, NEW s \in Seq(T), s # <<>>, NEW P, Head(s) \notin P,
         \E i \in DOMAIN s : s[i] \in P
  PROVE  \E i \in DOMAIN Tail(s) : Tail(s)[i] \in P
<1>1. PICK i \in DOMAIN s : s[i] \in P
  OBVIOUS
<1>2. i # 1
  BY <1>1
<1>3. i - 1 \in DOMAIN Tail(s) /\ Tail(s)[i - 1] = s[i]
  BY <1>1, <1>2
<1>. QED  BY <1>1, <1>3

-----------------------------------------------------------------------------
(* Type correctness.                                                       *)

(* The initial states are well typed.                                      *)
LEMMA InitType == Init => TypeOK
<1> SUFFICES ASSUME Init
             PROVE  TypeOK
  OBVIOUS
<1>1. \A T : <<>> \in Seq(T)
  OBVIOUS
<1>2. 0 \in 0..MaxGen /\ 0 \in 0..MaxEvents
  BY SidecarAssumption
<1>3. inbox \in [Gen -> Seq(Line)] /\ outbox \in [Gen -> Seq(Event)]
  BY <1>1 DEF Init
<1>4. rx \in [Requests -> Seq({"event"} \cup Terminal)]
  BY <1>1 DEF Init
<1>5. permit \in BOOLEAN
  BY DEF Init
<1>6. /\ child \in 0..MaxGen /\ spawned \in 0..MaxGen /\ pinged \in 0..MaxGen
      /\ sentTo \in [Requests -> 0..MaxGen] /\ emitted \in [Requests -> 0..MaxEvents]
  BY <1>2 DEF Init
<1>. QED  BY <1>3, <1>4, <1>5, <1>6, Zenon DEF Init, TypeOK

(* Lines written and processes killed keep the pipes well typed.           *)
LEMMA WrittenType ==
  ASSUME TypeOK, NEW line \in Line, Written(line)
  PROVE  inbox' \in [Gen -> Seq(Line)] /\ child \in Gen
<1>1. child \in Gen
  BY SidecarAssumption DEF TypeOK, Written, Gen
<1>2. Append(inbox[child], line) \in Seq(Line)
  BY <1>1, AppendProperties DEF TypeOK
<1>. QED  BY <1>1, <1>2 DEF TypeOK, Written

(* A dying process leaves the pipes well typed.                            *)
LEMMA DiesType ==
  ASSUME TypeOK, NEW g \in Gen, Dies(g)
  PROVE  /\ proc' \in [Gen -> {"none", "alive", "hung", "dead"}]
         /\ inbox' \in [Gen -> Seq(Line)]
BY DEF TypeOK, Dies

(* Taking the current child and killing it does too.                       *)
LEMMA TakeAndKillType ==
  ASSUME TypeOK, TakeAndKill
  PROVE  /\ child' = 0
         /\ proc' \in [Gen -> {"none", "alive", "hung", "dead"}]
         /\ inbox' \in [Gen -> Seq(Line)]
<1>1. CASE child = 0
  BY <1>1 DEF TypeOK, TakeAndKill
<1>2. CASE child # 0
  <2>1. child \in Gen /\ Dies(child) /\ child' = 0
    BY <1>2, SidecarAssumption DEF TypeOK, TakeAndKill, Gen
  <2>. QED  BY <2>1, DiesType
<1>. QED  BY <1>1, <1>2

(* So does a spawn, which has a generation of its own.                     *)
LEMMA SpawnType ==
  ASSUME TypeOK, SpawnProcess
  PROVE  /\ child' \in 0..MaxGen /\ spawned' \in 0..MaxGen
         /\ proc' \in [Gen -> {"none", "alive", "hung", "dead"}]
         /\ reader' \in [Gen -> {"none", "run", "notify", "end"}]
         /\ inbox' = inbox /\ outbox' = outbox
BY SidecarAssumption DEF TypeOK, SpawnProcess, Gen

(* Every step keeps the types.                                             *)
LEMMA NextType == TypeOK /\ [Next]_vars => TypeOK'
<1> SUFFICES ASSUME TypeOK, [Next]_vars
             PROVE  TypeOK'
  OBVIOUS
<1> USE DEF managerVars, pipeVars, requestVars, taskVars, nodeVars
<1>1. CASE StartManager
  BY <1>1, SpawnType DEF TypeOK, StartManager
<1>2. ASSUME NEW r \in Requests, RegisterRequest(r)
      PROVE  TypeOK'
  BY <1>2 DEF TypeOK, RegisterRequest
<1>3. ASSUME NEW r \in Requests, SendChat(r)
      PROVE  TypeOK'
  <2> DEFINE line == [kind |-> "chat", req |-> r]
  <2>1. line \in Line
    BY DEF Line
  <2>2. CASE Written(line) /\ status' = [status EXCEPT ![r] = "running"]
             /\ sentTo' = [sentTo EXCEPT ![r] = child]
    BY <1>3, <2>1, <2>2, WrittenType DEF TypeOK, SendChat
  <2>3. CASE NotWritten /\ status' = [status EXCEPT ![r] = "rejected"] /\ UNCHANGED sentTo
    BY <1>3, <2>3 DEF TypeOK, SendChat, NotWritten
  <2>. QED  BY <1>3, <2>2, <2>3 DEF SendChat
<1>4. ASSUME NEW r \in Requests, ReceiveReply(r)
      PROVE  TypeOK'
  <2>1. Tail(rx[r]) \in Seq({"event"} \cup Terminal)
    BY <1>4, HeadTailProperties DEF TypeOK, ReceiveReply
  <2>. QED  BY <1>4, <2>1 DEF TypeOK, ReceiveReply
<1>5. ASSUME NEW r \in Requests, UnregisterRequest(r)
      PROVE  TypeOK'
  BY <1>5 DEF TypeOK, UnregisterRequest
<1>6. ASSUME NEW r \in Requests, AbortChat(r)
      PROVE  TypeOK'
  <2>1. [kind |-> "abort", req |-> r] \in Line
    BY DEF Line
  <2>. QED  BY <1>6, <2>1, WrittenType DEF TypeOK, AbortChat
<1>7. ASSUME NEW r \in Requests, ShutdownAbort(r)
      PROVE  TypeOK'
  <2>1. [kind |-> "abort", req |-> r] \in Line
    BY DEF Line
  <2>. QED  BY <1>7, <2>1, WrittenType DEF TypeOK, ShutdownAbort, NotWritten
<1>8. ASSUME NEW g \in Gen, ReadLine(g)
      PROVE  TypeOK'
  <2> DEFINE e == Head(outbox[g])
  <2>1. Tail(outbox[g]) \in Seq(Event) /\ e \in Event
    BY <1>8, HeadTailProperties DEF TypeOK, ReadLine
  <2>2. outbox' \in [Gen -> Seq(Event)]
    BY <1>8, <2>1 DEF TypeOK, ReadLine
  <2>3. CASE e.kind = "pong"
    BY <1>8, <2>2, <2>3 DEF TypeOK, ReadLine
  <2>4. CASE e.kind # "pong"
    <3>1. e.req \in Requests /\ e.kind \in {"event"} \cup Terminal
      BY <2>1, <2>4 DEF Event
    <3>2. Append(rx[e.req], e.kind) \in Seq({"event"} \cup Terminal)
      BY <3>1, AppendProperties DEF TypeOK
    <3>. QED  BY <1>8, <2>2, <2>4, <3>1, <3>2 DEF TypeOK, ReadLine
  <2>. QED  BY <2>3, <2>4
<1>9. ASSUME NEW g \in Gen, OnTerminated(g)
      PROVE  TypeOK'
  <2>1. CASE reader[g] = "run" /\ child' = 0 /\ reader' = [reader EXCEPT ![g] = "notify"]
             /\ UNCHANGED rx
    BY <1>9, <2>1, SidecarAssumption DEF TypeOK, OnTerminated
  <2>2. CASE /\ rx' = Told(requests)
             /\ reader' = [reader EXCEPT ![g] = "end"]
             /\ UNCHANGED child
    <3>1. \A r \in Requests : Append(rx[r], "error") \in Seq({"event"} \cup Terminal)
      BY AppendProperties DEF TypeOK, Terminal
    <3>2. rx' \in [Requests -> Seq({"event"} \cup Terminal)]
      BY <2>2, <3>1 DEF TypeOK, Told
    <3>. QED  BY <1>9, <2>2, <3>2 DEF TypeOK, OnTerminated
  <2>. QED  BY <1>9, <2>1, <2>2 DEF OnTerminated
<1>10. CASE SupervisorPoll
  BY <1>10 DEF TypeOK, SupervisorPoll
<1>11. CASE SupervisorCheck
  BY <1>11 DEF TypeOK, SupervisorCheck
<1>12. CASE SupervisorSpawn
  BY <1>12, SpawnType DEF TypeOK, SupervisorSpawn
<1>13. CASE HealthPing
  <2>1. [kind |-> "ping"] \in Line
    BY DEF Line
  <2>2. CASE Written([kind |-> "ping"]) /\ health' = "waiting" /\ pinged' = child
    BY <1>13, <2>1, <2>2, WrittenType DEF TypeOK, HealthPing
  <2>3. CASE NotWritten /\ UNCHANGED <<health, pinged>>
    BY <1>13, <2>3 DEF TypeOK, HealthPing, NotWritten
  <2>. QED  BY <1>13, <2>2, <2>3 DEF HealthPing
<1>14. CASE HealthPong
  <2>1. permit' \in BOOLEAN
    BY <1>14 DEF HealthPong
  <2>2. pinged' \in 0..MaxGen
    BY <1>14, SidecarAssumption DEF HealthPong
  <2>. QED  BY <1>14, <2>1, <2>2, Zenon DEF TypeOK, HealthPong
<1>15. CASE HealthTimeout
  BY <1>15, TakeAndKillType, SidecarAssumption DEF TypeOK, HealthTimeout
<1>16. CASE ShutdownBegin
  BY <1>16 DEF TypeOK, ShutdownBegin
<1>17. CASE ShutdownKill
  BY <1>17, TakeAndKillType, SidecarAssumption DEF TypeOK, ShutdownKill
<1>18. ASSUME NEW g \in Gen, HandleLine(g)
      PROVE  TypeOK'
  <2> DEFINE l == Head(inbox[g])
  <2>1. Tail(inbox[g]) \in Seq(Line) /\ l \in Line
    BY <1>18, HeadTailProperties DEF TypeOK, HandleLine
  <2>2. inbox' \in [Gen -> Seq(Line)]
    BY <1>18, <2>1 DEF TypeOK, HandleLine
  <2>3. CASE l.kind = "ping"
    <3>1. [kind |-> "pong"] \in Event
      BY DEF Event
    <3>2. Append(outbox[g], [kind |-> "pong"]) \in Seq(Event)
      BY <3>1, AppendProperties DEF TypeOK
    <3>. QED  BY <1>18, <2>2, <2>3, <3>2 DEF TypeOK, HandleLine
  <2>4. CASE l.kind = "chat"
    BY <1>18, <2>2, <2>4 DEF TypeOK, HandleLine
  <2>5. CASE l.kind = "abort"
    BY <1>18, <2>2, <2>5 DEF TypeOK, HandleLine
  <2>6. l.kind = "ping" \/ l.kind = "chat" \/ l.kind = "abort"
    BY <1>18 DEF HandleLine
  <2>. QED  BY <2>3, <2>4, <2>5, <2>6
<1>19. ASSUME NEW g \in Gen, ProcessExit(g)
      PROVE  TypeOK'
  BY <1>19, DiesType DEF TypeOK, ProcessExit
<1>20. ASSUME NEW g \in Gen, ProcessHang(g)
      PROVE  TypeOK'
  BY <1>20 DEF TypeOK, ProcessHang
<1>21. ASSUME NEW r \in Requests, ActivateQuery(r)
      PROVE  TypeOK'
  BY <1>21 DEF TypeOK, ActivateQuery
<1>22. ASSUME NEW r \in Requests, EmitEvent(r)
      PROVE  TypeOK'
  <2>1. [kind |-> "event", req |-> r] \in Event
    BY DEF Event
  <2>2. \A g \in Gen : Append(outbox[g], [kind |-> "event", req |-> r]) \in Seq(Event)
    BY <2>1, AppendProperties DEF TypeOK
  <2>3. outbox' \in [Gen -> Seq(Event)]
    BY <1>22, <2>2 DEF TypeOK, EmitEvent
  <2>4. emitted' \in [Requests -> 0..MaxEvents]
    BY <1>22, SidecarAssumption DEF TypeOK, EmitEvent
  <2>. QED  BY <1>22, <2>3, <2>4 DEF TypeOK, EmitEvent
<1>23. ASSUME NEW r \in Requests, FinishQuery(r)
      PROVE  TypeOK'
  <2>1. PICK k \in Terminal :
          /\ outbox' = [outbox EXCEPT ![sentTo[r]] = Append(@, [kind |-> k, req |-> r])]
          /\ query' = [query EXCEPT ![r] = k]
    BY <1>23 DEF FinishQuery, Terminal
  <2>2. [kind |-> k, req |-> r] \in Event
    BY DEF Event
  <2>3. \A g \in Gen : Append(outbox[g], [kind |-> k, req |-> r]) \in Seq(Event)
    BY <2>2, AppendProperties DEF TypeOK
  <2>4. outbox' \in [Gen -> Seq(Event)]
    BY <2>1, <2>3 DEF TypeOK
  <2>. QED  BY <1>23, <2>1, <2>4 DEF TypeOK, FinishQuery
<1>24. CASE UNCHANGED vars
  BY <1>24 DEF TypeOK, vars
<1>. QED
  BY <1>1, <1>2, <1>3, <1>4, <1>5, <1>6, <1>7, <1>8, <1>9, <1>10, <1>11, <1>12, <1>13, <1>14,
     <1>15, <1>16, <1>17, <1>18, <1>19, <1>20, <1>21, <1>22, <1>23, <1>24 DEF Next, Rust, Node

(* Every variable of the manager, the pipes and the Node process keeps its *)
(* type, for any number of requests and processes.                         *)
THEOREM TypeCorrect == Spec => []TypeOK
BY InitType, NextType, PTL DEF Spec

-----------------------------------------------------------------------------
(* The inductive invariant.                                                *)

Reachable ==
  \A r \in Requests : status[r] \in {"registered", "running"} => r \in requests

GuardOk == guard \in Requests => status[guard] = "registered"

SentToSpawned ==
  /\ child <= spawned
  /\ \A r \in Requests : status[r] = "running" => sentTo[r] \in 1..spawned
  /\ \A g \in Gen : g > spawned => reader[g] = "none"

ClearedBeforeEnd ==
  \A g \in Gen : reader[g] \in {"notify", "end"} => child # g

IInv == Reachable /\ GuardOk /\ SentToSpawned /\ ClearedBeforeEnd /\ NoSilentLoss

(* Most steps move none of the variables the invariant reads, or only end  *)
(* a request, which strengthens every conjunct's premise.                  *)
LEMMA FrameInv ==
  ASSUME TypeOK, IInv,
         UNCHANGED <<requests, rx, status, sentTo, guard, spawned, reader>>,
         child' \in {child, 0}
  PROVE  IInv'
BY SidecarAssumption DEF TypeOK, IInv, Reachable, GuardOk, SentToSpawned, ClearedBeforeEnd,
   NoSilentLoss, Gen

(* A spawn adds a generation nobody has written to.                        *)
LEMMA SpawnInv ==
  ASSUME TypeOK, IInv, SpawnProcess, UNCHANGED requestVars
  PROVE  IInv'
<1>1. spawned + 1 \in Gen /\ reader'[spawned + 1] = "run" /\ child' = spawned + 1
      /\ spawned' = spawned + 1
  BY SidecarAssumption DEF TypeOK, SpawnProcess, Gen
<1>2. \A g \in Gen : g # spawned + 1 => reader'[g] = reader[g]
  BY DEF TypeOK, SpawnProcess, Gen
<1>3. UNCHANGED <<requests, rx, status, sentTo, guard>>
  BY DEF requestVars
<1>4. Reachable' /\ GuardOk'
  BY <1>3 DEF IInv, Reachable, GuardOk
<1>5. SentToSpawned'
  BY <1>1, <1>2, <1>3, SidecarAssumption DEF TypeOK, IInv, SentToSpawned, Gen
<1>6. ClearedBeforeEnd'
  BY <1>1, <1>2, SidecarAssumption DEF TypeOK, IInv, SentToSpawned, ClearedBeforeEnd, Gen
<1>7. NoSilentLoss'
  <2>1. \A r \in Requests : status[r] = "running" => sentTo[r] \in Gen /\ sentTo[r] # spawned + 1
    BY SidecarAssumption DEF TypeOK, IInv, SentToSpawned, Gen
  <2>. QED  BY <1>2, <1>3, <2>1 DEF IInv, NoSilentLoss
<1>. QED  BY <1>4, <1>5, <1>6, <1>7 DEF IInv

(* Registering a request preserves the invariant.                          *)
LEMMA RegisterInv ==
  ASSUME TypeOK, IInv, NEW r \in Requests, RegisterRequest(r)
  PROVE  IInv'
BY DEF TypeOK, IInv, Reachable, GuardOk, SentToSpawned, ClearedBeforeEnd, NoSilentLoss,
   RegisterRequest, managerVars, pipeVars

(* A Chat line goes to the current child, whose reader has not ended.      *)
LEMMA SendChatInv ==
  ASSUME TypeOK, IInv, NEW r \in Requests, SendChat(r)
  PROVE  IInv'
<1>1. /\ UNCHANGED <<requests, rx, reader, child, spawned>>
      /\ guard' = NoRequest
      /\ status[r] = "registered"
      /\ r \in requests
  BY DEF SendChat, managerVars, IInv, GuardOk, Reachable
<1>2. CASE Written([kind |-> "chat", req |-> r]) /\ status' = [status EXCEPT ![r] = "running"]
           /\ sentTo' = [sentTo EXCEPT ![r] = child]
  <2>1. child \in Gen /\ child \in 1..spawned
    BY <1>2, SidecarAssumption DEF Written, TypeOK, IInv, SentToSpawned, Gen
  <2>2. reader[child] # "end"
    BY <2>1 DEF IInv, ClearedBeforeEnd
  <2>3. Reachable' /\ GuardOk' /\ ClearedBeforeEnd'
    BY <1>1, <1>2, SidecarAssumption DEF TypeOK, IInv, Reachable, GuardOk, ClearedBeforeEnd
  <2>4. SentToSpawned'
    BY <1>1, <1>2, <2>1 DEF TypeOK, IInv, SentToSpawned
  <2>5. NoSilentLoss'
    BY <1>1, <1>2, <2>2 DEF TypeOK, IInv, NoSilentLoss
  <2>. QED  BY <2>3, <2>4, <2>5 DEF IInv
<1>3. CASE status' = [status EXCEPT ![r] = "rejected"] /\ UNCHANGED sentTo
  BY <1>1, <1>3, SidecarAssumption DEF TypeOK, IInv, Reachable, GuardOk, SentToSpawned,
     ClearedBeforeEnd, NoSilentLoss
<1>. QED  BY <1>2, <1>3 DEF SendChat

(* A task leaves the loop when it takes its terminal message, so what a    *)
(* running task leaves in the channel still has it.                        *)
LEMMA ReceiveInv ==
  ASSUME TypeOK, IInv, NEW r \in Requests, ReceiveReply(r)
  PROVE  IInv'
<1>1. /\ UNCHANGED <<requests, reader, child, spawned, sentTo, guard>>
      /\ rx' = [rx EXCEPT ![r] = Tail(@)]
      /\ status[r] = "running" /\ rx[r] # <<>>
  BY DEF ReceiveReply, managerVars, pipeVars
<1>2. CASE Head(rx[r]) \in Terminal /\ status' = [status EXCEPT ![r] = Head(rx[r])]
  BY <1>1, <1>2 DEF TypeOK, IInv, Reachable, GuardOk, SentToSpawned, ClearedBeforeEnd,
     NoSilentLoss, Terminal
<1>3. CASE Head(rx[r]) \notin Terminal /\ status' = status
  <2>1. Reachable' /\ GuardOk' /\ SentToSpawned' /\ ClearedBeforeEnd'
    BY <1>1, <1>3 DEF IInv, Reachable, GuardOk, SentToSpawned, ClearedBeforeEnd
  <2>2. reader[sentTo[r]] = "end" => \E i \in DOMAIN Tail(rx[r]) : Tail(rx[r])[i] \in Terminal
    BY <1>1, <1>3, TailKeeps DEF TypeOK, IInv, NoSilentLoss
  <2>3. NoSilentLoss'
    BY <1>1, <1>3, <2>2 DEF TypeOK, IInv, NoSilentLoss
  <2>. QED  BY <2>1, <2>3 DEF IInv
<1>. QED  BY <1>2, <1>3 DEF ReceiveReply

(* Only a request with its outcome is unregistered.                        *)
LEMMA UnregisterInv ==
  ASSUME TypeOK, IInv, NEW r \in Requests, UnregisterRequest(r)
  PROVE  IInv'
BY DEF TypeOK, IInv, Reachable, GuardOk, SentToSpawned, ClearedBeforeEnd, NoSilentLoss,
   UnregisterRequest, managerVars, pipeVars, Terminal

(* The reader only appends to channels.                                    *)
LEMMA ReadLineInv ==
  ASSUME TypeOK, IInv, NEW g \in Gen, ReadLine(g)
  PROVE  IInv'
<1> DEFINE e == Head(outbox[g])
<1>1. UNCHANGED <<requests, status, sentTo, guard, child, spawned, reader>>
  BY DEF ReadLine, managerVars
<1>2. CASE UNCHANGED rx
  BY <1>1, <1>2, FrameInv
<1>3. CASE e.req \in requests /\ e.kind # "pong" /\ rx' = [rx EXCEPT ![e.req] = Append(@, e.kind)]
  <2>1. e \in Event
    BY HeadTailProperties DEF TypeOK, ReadLine
  <2>2. e.req \in Requests /\ e.kind \in {"event"} \cup Terminal
    BY <2>1, <1>3 DEF Event
  <2>3. ASSUME NEW r \in Requests, \E i \in DOMAIN rx[r] : rx[r][i] \in Terminal
        PROVE  \E i \in DOMAIN rx'[r] : rx'[r][i] \in Terminal
    <3>1. CASE r # e.req
      BY <1>3, <2>3, <3>1 DEF TypeOK
    <3>2. CASE r = e.req
      <4>1. rx'[r] = Append(rx[r], e.kind)
        BY <1>3, <3>2 DEF TypeOK
      <4>2. rx[r] \in Seq({"event"} \cup Terminal)
        BY DEF TypeOK
      <4> HIDE DEF e
      <4>3. \E i \in DOMAIN Append(rx[r], e.kind) : Append(rx[r], e.kind)[i] \in Terminal
        BY <2>2, <2>3, <4>2, AppendKeeps
      <4>. QED  BY <4>1, <4>3
    <3>. QED  BY <3>1, <3>2
  <2>4. NoSilentLoss'
    BY <1>1, <2>3 DEF IInv, NoSilentLoss
  <2>. QED  BY <1>1, <2>4 DEF IInv, Reachable, GuardOk, SentToSpawned, ClearedBeforeEnd
<1>. QED  BY <1>2, <1>3 DEF ReadLine

(* The ending reader tells every registered request, hence each that       *)
(* runs.                                                                   *)
LEMMA OnTerminatedInv ==
  ASSUME TypeOK, IInv, NEW g \in Gen, OnTerminated(g)
  PROVE  IInv'
<1>1. UNCHANGED <<requests, status, sentTo, guard, spawned>>
  BY DEF OnTerminated
<1>2. CASE reader[g] = "run" /\ child' = 0 /\ reader' = [reader EXCEPT ![g] = "notify"]
           /\ UNCHANGED rx
  <2>1. Reachable' /\ GuardOk' /\ NoSilentLoss'
    BY <1>1, <1>2 DEF TypeOK, IInv, Reachable, GuardOk, NoSilentLoss
  <2>2. SentToSpawned' /\ ClearedBeforeEnd'
    BY <1>1, <1>2, SidecarAssumption DEF TypeOK, IInv, SentToSpawned, ClearedBeforeEnd, Gen
  <2>. QED  BY <2>1, <2>2 DEF IInv
<1>3. CASE /\ reader[g] = "notify"
           /\ rx' = Told(requests)
           /\ reader' = [reader EXCEPT ![g] = "end"]
           /\ UNCHANGED child
  <2>1. Reachable' /\ GuardOk' /\ SentToSpawned' /\ ClearedBeforeEnd'
    BY <1>1, <1>3 DEF TypeOK, IInv, Reachable, GuardOk, SentToSpawned, ClearedBeforeEnd
  <2>2. ASSUME NEW r \in Requests, status[r] = "running"
        PROVE  \E i \in DOMAIN rx'[r] : rx'[r][i] \in Terminal
    <3>1. rx'[r] = Append(rx[r], "error")
      BY <1>3, <2>2 DEF IInv, Reachable, Told
    <3>2. "error" \in Terminal /\ "error" \in {"event"} \cup Terminal
      BY DEF Terminal
    <3>3. rx[r] \in Seq({"event"} \cup Terminal)
      BY DEF TypeOK
    <3>4. \E i \in DOMAIN Append(rx[r], "error") : Append(rx[r], "error")[i] \in Terminal
      BY <3>2, <3>3, AppendKeeps
    <3>. QED  BY <3>1, <3>4
  <2>3. NoSilentLoss'
    BY <1>1, <2>2 DEF NoSilentLoss
  <2>. QED  BY <2>1, <2>3 DEF IInv
<1>. QED  BY <1>2, <1>3 DEF OnTerminated

(* The initial states satisfy the invariant.                               *)
LEMMA InitInv == Init => IInv
BY SidecarAssumption DEF Init, IInv, Reachable, GuardOk, SentToSpawned, ClearedBeforeEnd,
   NoSilentLoss

(* Every step preserves the invariant.                                     *)
LEMMA NextInv == TypeOK /\ IInv /\ [Next]_vars => IInv'
<1> SUFFICES ASSUME TypeOK, IInv, [Next]_vars
             PROVE  IInv'
  OBVIOUS
<1> USE DEF managerVars, pipeVars, requestVars, taskVars, nodeVars
<1>1. CASE StartManager
  BY <1>1, SpawnInv DEF StartManager
<1>2. ASSUME NEW r \in Requests,
             \/ RegisterRequest(r) \/ SendChat(r) \/ ReceiveReply(r) \/ UnregisterRequest(r)
             \/ AbortChat(r) \/ ShutdownAbort(r) \/ ActivateQuery(r) \/ EmitEvent(r)
             \/ FinishQuery(r)
      PROVE  IInv'
  <2>1. CASE AbortChat(r) \/ ShutdownAbort(r) \/ ActivateQuery(r) \/ EmitEvent(r) \/ FinishQuery(r)
    BY <2>1, FrameInv DEF AbortChat, ShutdownAbort, ActivateQuery, EmitEvent, FinishQuery
  <2>. QED  BY <1>2, <2>1, RegisterInv, SendChatInv, ReceiveInv, UnregisterInv
<1>3. ASSUME NEW g \in Gen,
             \/ ReadLine(g) \/ OnTerminated(g) \/ HandleLine(g) \/ ProcessExit(g) \/ ProcessHang(g)
      PROVE  IInv'
  <2>1. CASE HandleLine(g) \/ ProcessExit(g) \/ ProcessHang(g)
    BY <2>1, FrameInv DEF HandleLine, ProcessExit, ProcessHang
  <2>. QED  BY <1>3, <2>1, ReadLineInv, OnTerminatedInv
<1>4. CASE SupervisorPoll \/ SupervisorCheck
  BY <1>4, FrameInv DEF SupervisorPoll, SupervisorCheck
<1>5. CASE SupervisorSpawn
  BY <1>5, FrameInv, SpawnInv DEF SupervisorSpawn
<1>6. CASE HealthPing \/ HealthPong
  BY <1>6, FrameInv DEF HealthPing, HealthPong
<1>7. CASE HealthTimeout \/ ShutdownKill
  BY <1>7, FrameInv DEF HealthTimeout, ShutdownKill, TakeAndKill
<1>8. CASE ShutdownBegin
  BY <1>8, FrameInv DEF ShutdownBegin
<1>9. CASE UNCHANGED vars
  BY <1>9, FrameInv DEF vars
<1>. QED  BY <1>1, <1>2, <1>3, <1>4, <1>5, <1>6, <1>7, <1>8, <1>9 DEF Next, Rust, Node

(* No request of send_chat_message is left waiting on a process whose      *)
(* reader has ended without a terminal message in its channel, however     *)
(* registration, writing, respawn and termination interleave.              *)
THEOREM NoSilentLossHolds == Spec => []NoSilentLoss
<1>1. Spec => [](TypeOK /\ IInv)
  BY InitType, NextType, InitInv, NextInv, PTL DEF Spec
<1>2. IInv => NoSilentLoss
  BY DEF IInv
<1>. QED  BY <1>1, <1>2, PTL

-----------------------------------------------------------------------------
(* Sidecar implements ChatRequests, for any number of requests, processes  *)
(* and events: a request is rejected or gets exactly one outcome, and the  *)
(* outcome is "done" only if the query was answered.                       *)
(*                                                                         *)
(* A Chat line is written once and starts the query once (ChatOnce), so a  *)
(* query that has ended stays ended; and a "done" anywhere between the     *)
(* process and the task that waits for it was sent by a query that yielded *)
(* its result (DoneIsReal): nobody makes one up for a lost process.        *)

Chat(r) == [kind |-> "chat", req |-> r]

(* Before the Chat line of a request is written there is no trace of it.   *)
NotYetWritten ==
  \A r \in Requests :
    status[r] \in {"idle", "registered"} =>
      /\ query[r] = "none"
      /\ \A g \in Gen : \A i \in DOMAIN inbox[g] : inbox[g][i] # Chat(r)

(* While it has not been read, there is one copy of it and no query.       *)
ChatOnce ==
  \A r \in Requests, g \in Gen : \A i \in DOMAIN inbox[g] :
    inbox[g][i] = Chat(r) =>
      /\ query[r] = "none"
      /\ \A h \in Gen : \A j \in DOMAIN inbox[h] : inbox[h][j] = Chat(r) => h = g /\ j = i

DoneIsReal ==
  /\ \A r \in Requests : \A i \in DOMAIN rx[r] : rx[r][i] = "done" => query[r] = "done"
  /\ \A g \in Gen : \A i \in DOMAIN outbox[g] :
       outbox[g][i].kind = "done" => query[outbox[g][i].req] = "done"

RInv == NotYetWritten /\ ChatOnce /\ DoneIsReal

-----------------------------------------------------------------------------
(* The lines on the way to the processes.                                  *)

(* Every line in the pipes after the step was there before.                *)
NoNewLine ==
  \A g \in Gen : \/ inbox'[g] = inbox[g] \/ inbox'[g] = <<>>
                 \/ inbox[g] # <<>> /\ inbox'[g] = Tail(inbox[g])

(* No request goes back to where it has not been written, no query that    *)
(* was not there appears, and an answered query stays answered.            *)
GoesOn ==
  \A r \in Requests :
    /\ status'[r] \in {"idle", "registered"} => status[r] \in {"idle", "registered"}
    /\ query[r] = "none" => query'[r] = "none"
    /\ query[r] = "done" => query'[r] = "done"

(* When lines are taken away, a Chat line that is left was there before,   *)
(* and there is still one copy of it.                                      *)
LEMMA FewerLines ==
  ASSUME TypeOK, ChatOnce, NoNewLine, NEW r \in Requests,
         NEW g \in Gen, NEW i \in DOMAIN inbox'[g], inbox'[g][i] = Chat(r)
  PROVE  /\ \E j \in DOMAIN inbox[g] : inbox[g][j] = Chat(r)
         /\ \A h \in Gen : \A j \in DOMAIN inbox'[h] : inbox'[h][j] = Chat(r) => h = g /\ j = i
<1> DEFINE k(h) == IF inbox'[h] = inbox[h] THEN 0 ELSE 1
<1>1. \A h \in Gen : \A j \in DOMAIN inbox'[h] :
        j + k(h) \in DOMAIN inbox[h] /\ inbox'[h][j] = inbox[h][j + k(h)] /\ j \in Nat
  <2>1. SUFFICES ASSUME NEW h \in Gen, NEW j \in DOMAIN inbox'[h]
                 PROVE  j + k(h) \in DOMAIN inbox[h] /\ inbox'[h][j] = inbox[h][j + k(h)] /\ j \in Nat
    OBVIOUS
  <2>2. inbox[h] \in Seq(Line)
    BY DEF TypeOK
  <2>3. CASE inbox'[h] = inbox[h]
    BY <2>1, <2>2, <2>3
  <2>4. CASE inbox'[h] # inbox[h]
    <3>1. inbox[h] # <<>> /\ inbox'[h] = Tail(inbox[h])
      BY <2>1, <2>4 DEF NoNewLine
    <3>. QED  BY <2>1, <2>2, <2>4, <3>1, HeadTailProperties
  <2>. QED  BY <2>3, <2>4
<1>2. \A h \in Gen : k(h) \in {0, 1}
  OBVIOUS
<1> HIDE DEF k
<1>3. i + k(g) \in DOMAIN inbox[g] /\ inbox[g][i + k(g)] = Chat(r) /\ i \in Nat
  BY <1>1
<1>4. ASSUME NEW h \in Gen, NEW j \in DOMAIN inbox'[h], inbox'[h][j] = Chat(r)
      PROVE  h = g /\ j = i
  <2>1. j + k(h) \in DOMAIN inbox[h] /\ inbox[h][j + k(h)] = Chat(r) /\ j \in Nat
    BY <1>1, <1>4
  <2>2. h = g /\ j + k(h) = i + k(g)
    BY <1>3, <2>1 DEF ChatOnce
  <2>. QED  BY <1>2, <1>3, <2>1, <2>2
<1>. QED  BY <1>3, <1>4

(* Taking lines away keeps what is said of Chat lines.                     *)
LEMMA FewerKept ==
  ASSUME TypeOK, NotYetWritten, ChatOnce, NoNewLine, GoesOn
  PROVE  NotYetWritten' /\ ChatOnce'
<1>1. NotYetWritten'
  BY FewerLines DEF NotYetWritten, GoesOn, Chat
<1>2. ASSUME NEW r \in Requests, NEW g \in Gen, NEW i \in DOMAIN inbox'[g],
             inbox'[g][i] = Chat(r)
      PROVE  /\ query'[r] = "none"
             /\ \A h \in Gen : \A j \in DOMAIN inbox'[h] : inbox'[h][j] = Chat(r) => h = g /\ j = i
  <2>1. /\ \E j \in DOMAIN inbox[g] : inbox[g][j] = Chat(r)
        /\ \A h \in Gen : \A j \in DOMAIN inbox'[h] : inbox'[h][j] = Chat(r) => h = g /\ j = i
    BY <1>2, FewerLines
  <2>. QED  BY <2>1 DEF ChatOnce, GoesOn
<1>. QED  BY <1>1, <1>2 DEF ChatOnce, Chat

(* Writing a ping or an abort keeps it too.                                *)
LEMMA OtherLine ==
  ASSUME TypeOK, NotYetWritten, ChatOnce, GoesOn,
         NEW line \in Line, line.kind # "chat", Written(line)
  PROVE  NotYetWritten' /\ ChatOnce'
<1>1. CASE inbox' = inbox
  BY <1>1, FewerKept DEF NoNewLine
<1>2. CASE inbox' = [inbox EXCEPT ![child] = Append(@, line)] /\ child \in Gen
  <2>1. \A g \in Gen : \A i \in DOMAIN inbox'[g] :
          (i \in DOMAIN inbox[g] /\ inbox'[g][i] = inbox[g][i]) \/ inbox'[g][i] = line
    BY <1>2, AppendProperties DEF TypeOK
  <2>2. \A r \in Requests : line # Chat(r)
    BY DEF Chat
  <2>. QED  BY <2>1, <2>2 DEF NotYetWritten, ChatOnce, GoesOn, Chat
<1>3. child # 0 => child \in Gen
  BY SidecarAssumption DEF TypeOK, Gen
<1>. QED  BY <1>1, <1>2, <1>3 DEF Written

(* A line with kind "chat" is the Chat line of its request.                *)
LEMMA ChatLine ==
  ASSUME NEW line \in Line, line.kind = "chat"
  PROVE  line.req \in Requests /\ line = Chat(line.req)
BY DEF Line, Chat

(* A step that adds no line and no event.                                  *)
LEMMA QuietStep ==
  ASSUME TypeOK, RInv, NoNewLine, GoesOn, outbox' = outbox, rx' = rx
  PROVE  RInv'
<1>1. NotYetWritten' /\ ChatOnce'
  BY FewerKept DEF RInv
<1>2. \A r \in Requests : \A i \in DOMAIN rx'[r] : rx'[r][i] = "done" => query'[r] = "done"
  BY DEF RInv, DoneIsReal, GoesOn
<1>3. \A g \in Gen : \A i \in DOMAIN outbox[g] :
        outbox[g][i].kind = "done" => outbox[g][i].req \in Requests
  BY DEF TypeOK, Event
<1>4. \A g \in Gen : \A i \in DOMAIN outbox'[g] :
        outbox'[g][i].kind = "done" => query'[outbox'[g][i].req] = "done"
  BY <1>3 DEF RInv, DoneIsReal, GoesOn
<1>. QED  BY <1>1, <1>2, <1>4 DEF RInv, DoneIsReal

(* A step that writes a ping or an abort.                                  *)
LEMMA WritingStep ==
  ASSUME TypeOK, RInv, GoesOn, outbox' = outbox, rx' = rx, query' = query,
         NEW line \in Line, line.kind # "chat", Written(line)
  PROVE  RInv'
BY OtherLine DEF RInv, DoneIsReal

(* Appending an event to the output of the process keeps DoneIsReal if it  *)
(* is not a "done" or its query has yielded its result.                    *)
LEMMA EventStep ==
  ASSUME TypeOK, DoneIsReal, GoesOn, rx' = rx, NEW g \in Nat, NEW e \in Event,
         outbox' = [outbox EXCEPT ![g] = Append(@, e)],
         e.kind = "done" => query'[e.req] = "done"
  PROVE  DoneIsReal'
<1>1. \A r \in Requests : \A i \in DOMAIN rx'[r] : rx'[r][i] = "done" => query'[r] = "done"
  BY DEF DoneIsReal, GoesOn
<1>2. ASSUME NEW h \in Gen, NEW i \in DOMAIN outbox'[h], outbox'[h][i].kind = "done"
      PROVE  query'[outbox'[h][i].req] = "done"
  <2>1. outbox[h] \in Seq(Event)
    BY DEF TypeOK
  <2>2. (i \in DOMAIN outbox[h] /\ outbox'[h][i] = outbox[h][i]) \/ outbox'[h][i] = e
    BY <1>2, <2>1, AppendProperties DEF TypeOK
  <2>3. CASE i \in DOMAIN outbox[h] /\ outbox'[h][i] = outbox[h][i]
    <3>1. outbox[h][i] \in Event
      BY <2>1, <2>3
    <3>2. outbox[h][i].req \in Requests
      BY <1>2, <2>3, <3>1 DEF Event
    <3>. QED  BY <1>2, <2>3, <3>2 DEF DoneIsReal, GoesOn
  <2>4. CASE outbox'[h][i] = e
    BY <1>2, <2>4
  <2>. QED  BY <2>2, <2>3, <2>4
<1>. QED  BY <1>1, <1>2 DEF DoneIsReal

-----------------------------------------------------------------------------
(* The invariant is inductive.                                             *)

(* The Chat line is written: the only trace of its request so far.         *)
LEMMA SendStep ==
  ASSUME TypeOK, IInv, RInv, NEW r \in Requests, SendChat(r)
  PROVE  RInv'
<1>0. /\ NotYetWritten /\ ChatOnce /\ DoneIsReal
      /\ outbox' = outbox /\ rx' = rx /\ query' = query
  BY DEF RInv, SendChat, nodeVars
<1>1. status[r] = "registered"
  BY DEF SendChat, IInv, GuardOk
<1>2. DoneIsReal'
  BY <1>0 DEF DoneIsReal
<1>3. \A x \in Requests : status'[x] \in {"idle", "registered"}
                            => x # r /\ status[x] \in {"idle", "registered"}
  BY DEF SendChat, TypeOK
<1>4. CASE NoNewLine
  <2>1. GoesOn
    BY <1>0, <1>3 DEF GoesOn
  <2>. QED  BY <1>0, <1>2, <1>4, <2>1, FewerKept DEF RInv
<1>5. CASE child \in Gen /\ inbox' = [inbox EXCEPT ![child] = Append(@, Chat(r))]
  <2> DEFINE n == Len(inbox[child]) + 1
  <2>1. Chat(r) \in Line /\ inbox[child] \in Seq(Line)
    BY <1>5 DEF Chat, Line, TypeOK
  <2>2. /\ \A g \in Gen : \A i \in DOMAIN inbox'[g] :
             \/ i \in DOMAIN inbox[g] /\ inbox'[g][i] = inbox[g][i]
             \/ g = child /\ i = n /\ inbox'[g][i] = Chat(r)
    BY <1>5, <2>1, AppendProperties DEF TypeOK
  <2>3. \A x \in Requests : Chat(x) = Chat(r) => x = r
    BY DEF Chat
  <2>4. \A g \in Gen : \A i \in DOMAIN inbox[g] : inbox[g][i] # Chat(r)
    BY <1>0, <1>1 DEF NotYetWritten
  <2> HIDE DEF n
  <2>5. NotYetWritten'
    BY <1>0, <1>3, <2>2, <2>3 DEF NotYetWritten, Chat
  <2>6. ASSUME NEW x \in Requests, NEW g \in Gen, NEW i \in DOMAIN inbox'[g],
               inbox'[g][i] = Chat(x)
        PROVE  /\ query'[x] = "none"
               /\ \A h \in Gen : \A j \in DOMAIN inbox'[h] : inbox'[h][j] = Chat(x) => h = g /\ j = i
    <3>1. CASE x = r
      <4>1. \A h \in Gen : \A j \in DOMAIN inbox'[h] :
              inbox'[h][j] = Chat(r) => h = child /\ j = n
        BY <2>2, <2>4
      <4>2. query[r] = "none"
        BY <1>0, <1>1 DEF NotYetWritten
      <4>. QED  BY <1>0, <2>6, <3>1, <4>1, <4>2
    <3>2. CASE x # r
      <4>1. \A h \in Gen : \A j \in DOMAIN inbox'[h] :
              inbox'[h][j] = Chat(x) => j \in DOMAIN inbox[h] /\ inbox[h][j] = Chat(x)
        BY <2>2, <2>3, <3>2
      <4>. QED  BY <1>0, <2>6, <4>1 DEF ChatOnce
    <3>. QED  BY <3>1, <3>2
  <2>. QED  BY <1>2, <2>5, <2>6 DEF RInv, ChatOnce, Chat
<1>6. child # 0 => child \in Gen
  BY SidecarAssumption DEF TypeOK, Gen
<1>. QED  BY <1>4, <1>5, <1>6 DEF SendChat, Written, NotWritten, NoNewLine, Chat

(* The dispatcher reads a line: a Chat line starts its query.              *)
LEMMA DispatchStep ==
  ASSUME TypeOK, RInv, NEW g \in Gen, HandleLine(g)
  PROVE  /\ RInv'
         /\ \A r \in Requests : (query'[r] = "done" <=> query[r] = "done")
<1> DEFINE l == Head(inbox[g])
<1>0. NotYetWritten /\ ChatOnce /\ DoneIsReal
  BY DEF RInv
<1>1. /\ l \in Line /\ 1 \in DOMAIN inbox[g] /\ l = inbox[g][1]
      /\ inbox[g] # <<>> /\ inbox' = [inbox EXCEPT ![g] = Tail(@)]
      /\ rx' = rx /\ status' = status
  BY HeadTailProperties DEF TypeOK, HandleLine, requestVars
<1>2. NoNewLine
  BY <1>1 DEF NoNewLine, TypeOK
<1>3. CASE l.kind = "ping"
  <2>1. /\ query' = query
        /\ outbox' = [outbox EXCEPT ![g] = Append(@, [kind |-> "pong"])]
    BY <1>3 DEF HandleLine
  <2>2. [kind |-> "pong"] \in Event /\ [kind |-> "pong"].kind # "done" /\ g \in Nat
    BY DEF Event, Gen
  <2>3. GoesOn
    BY <1>1, <2>1 DEF GoesOn
  <2>4. DoneIsReal'
    BY <1>0, <1>1, <2>1, <2>2, <2>3, EventStep
  <2>. QED  BY <1>0, <1>2, <2>1, <2>3, <2>4, FewerKept DEF RInv
<1>4. CASE l.kind = "chat"
  <2>1. PICK r \in Requests : l = Chat(r) /\ l.req = r
    BY <1>1, <1>4, ChatLine
  <2>2. outbox' = outbox /\ query' = [query EXCEPT ![r] = "starting"]
    BY <1>4, <2>1 DEF HandleLine
  <2>3. /\ query[r] = "none" /\ status[r] \notin {"idle", "registered"}
        /\ \A h \in Gen : \A j \in DOMAIN inbox[h] : inbox[h][j] = Chat(r) => h = g /\ j = 1
    BY <1>0, <1>1, <2>1 DEF ChatOnce, NotYetWritten
  <2>4. \A h \in Gen : \A j \in DOMAIN inbox'[h] : inbox'[h][j] # Chat(r)
    <3>1. SUFFICES ASSUME NEW h \in Gen, NEW j \in DOMAIN inbox'[h], inbox'[h][j] = Chat(r)
                   PROVE  FALSE
      OBVIOUS
    <3>2. CASE h = g
      <4>1. inbox'[g] = Tail(inbox[g])
        BY <1>1 DEF TypeOK
      <4>2. j + 1 \in DOMAIN inbox[g] /\ j + 1 # 1 /\ inbox[g][j + 1] = Chat(r)
        BY <1>1, <3>1, <3>2, <4>1, HeadTailProperties DEF TypeOK
      <4>. QED  BY <2>3, <4>2
    <3>3. CASE h # g
      BY <1>1, <2>3, <3>1, <3>3 DEF TypeOK
    <3>. QED  BY <3>2, <3>3
  <2>5. \A x \in Requests : query'[x] = IF x = r THEN "starting" ELSE query[x]
    BY <2>2 DEF TypeOK
  <2>6. NotYetWritten' /\ ChatOnce'
    <3>1. ASSUME NEW x \in Requests, NEW h \in Gen, NEW i \in DOMAIN inbox'[h],
                 inbox'[h][i] = Chat(x)
          PROVE  query'[x] = "none" /\ status'[x] \notin {"idle", "registered"}
      <4>1. x # r
        BY <2>4, <3>1
      <4>2. \E j \in DOMAIN inbox[h] : inbox[h][j] = Chat(x)
        BY <1>0, <1>2, <3>1, FewerLines
      <4>3. query[x] = "none" /\ status[x] \notin {"idle", "registered"}
        BY <1>0, <4>2 DEF ChatOnce, NotYetWritten
      <4>. QED  BY <1>1, <2>5, <4>1, <4>3
    <3>2. \A x \in Requests : status'[x] \in {"idle", "registered"} => query'[x] = "none"
      BY <1>0, <1>1, <2>3, <2>5 DEF NotYetWritten
    <3>3. NotYetWritten'
      BY <3>1, <3>2 DEF NotYetWritten, Chat
    <3>4. ASSUME NEW x \in Requests, NEW h \in Gen, NEW i \in DOMAIN inbox'[h],
                 inbox'[h][i] = Chat(x)
          PROVE  \A m \in Gen : \A j \in DOMAIN inbox'[m] : inbox'[m][j] = Chat(x) => m = h /\ j = i
      BY <1>0, <1>2, <3>4, FewerLines
    <3>. QED  BY <3>1, <3>3, <3>4 DEF ChatOnce, Chat
  <2>7. \A x \in Requests : (query'[x] = "done" <=> query[x] = "done")
    BY <2>3, <2>5
  <2>8. DoneIsReal'
    <3>1. \A h \in Gen : \A i \in DOMAIN outbox[h] :
            outbox[h][i].kind = "done" => outbox[h][i].req \in Requests
      BY DEF TypeOK, Event
    <3>. QED  BY <1>0, <1>1, <2>2, <2>7, <3>1 DEF DoneIsReal
  <2>. QED  BY <2>6, <2>7, <2>8 DEF RInv
<1>5. CASE l.kind = "abort"
  <2>1. l.req \in Requests
    BY <1>1, <1>5 DEF Line
  <2>2. /\ outbox' = outbox
        /\ query' = query \/ (query[l.req] = "active"
                              /\ query' = [query EXCEPT ![l.req] = "interrupted"])
    BY <1>5 DEF HandleLine
  <2>3. \A r \in Requests : /\ (query'[r] = "done" <=> query[r] = "done")
                             /\ (query'[r] = "none" <=> query[r] = "none")
    BY <2>1, <2>2 DEF TypeOK
  <2>4. GoesOn
    BY <1>1, <2>3 DEF GoesOn
  <2>. QED  BY <1>1, <1>2, <2>2, <2>3, <2>4, QuietStep
<1>. QED  BY <1>1, <1>3, <1>4, <1>5 DEF Line

(* The reader moves an event from the pipe to its channel.                 *)
LEMMA ReadStep ==
  ASSUME TypeOK, RInv, NEW g \in Gen, ReadLine(g)
  PROVE  RInv'
<1> DEFINE e == Head(outbox[g])
<1>0. /\ inbox' = inbox /\ status' = status /\ query' = query
      /\ outbox[g] # <<>> /\ outbox' = [outbox EXCEPT ![g] = Tail(@)]
  BY DEF ReadLine, nodeVars
<1>1. e \in Event /\ 1 \in DOMAIN outbox[g] /\ e = outbox[g][1] /\ outbox[g] \in Seq(Event)
  BY <1>0, HeadTailProperties DEF TypeOK
<1>2. NotYetWritten' /\ ChatOnce'
  BY <1>0 DEF RInv, NotYetWritten, ChatOnce, Chat
<1>3. ASSUME NEW h \in Gen, NEW i \in DOMAIN outbox'[h], outbox'[h][i].kind = "done"
      PROVE  query'[outbox'[h][i].req] = "done"
  <2>1. CASE h = g
    <3>1. i + 1 \in DOMAIN outbox[g] /\ outbox'[g][i] = outbox[g][i + 1]
      BY <1>0, <1>1, <1>3, <2>1, HeadTailProperties DEF TypeOK
    <3>. QED  BY <1>0, <1>3, <2>1, <3>1 DEF RInv, DoneIsReal
  <2>2. CASE h # g
    BY <1>0, <1>3, <2>2 DEF RInv, DoneIsReal, TypeOK
  <2>. QED  BY <2>1, <2>2
<1>4. ASSUME NEW r \in Requests, NEW i \in DOMAIN rx'[r], rx'[r][i] = "done"
      PROVE  query'[r] = "done"
  <2>1. CASE rx'[r] = rx[r]
    BY <1>0, <1>4, <2>1 DEF RInv, DoneIsReal
  <2>2. CASE rx'[r] # rx[r]
    <3>1. e.kind # "pong" /\ e.req = r /\ rx' = [rx EXCEPT ![r] = Append(@, e.kind)]
      BY <2>2 DEF ReadLine, TypeOK
    <3>2. e.kind \in {"event"} \cup Terminal /\ rx[r] \in Seq({"event"} \cup Terminal)
      BY <1>1, <3>1 DEF Event, TypeOK
    <3>3. (i \in DOMAIN rx[r] /\ rx'[r][i] = rx[r][i]) \/ rx'[r][i] = e.kind
      BY <1>4, <3>1, <3>2, AppendProperties DEF TypeOK
    <3>. QED  BY <1>0, <1>1, <1>4, <3>1, <3>3 DEF RInv, DoneIsReal
  <2>. QED  BY <2>1, <2>2
<1>. QED  BY <1>2, <1>3, <1>4 DEF RInv, DoneIsReal

(* Every step keeps the invariant.                                         *)
LEMMA NextRInv ==
  ASSUME TypeOK, IInv, RInv, [Next]_vars
  PROVE  RInv'
<1> USE DEF managerVars, pipeVars, requestVars, taskVars, nodeVars
<1>1. CASE /\ GoesOn /\ outbox' = outbox /\ rx' = rx
           /\ \A g \in Gen : inbox'[g] = inbox[g] \/ inbox'[g] = <<>>
  BY <1>1, QuietStep DEF NoNewLine
<1>2. CASE query' = query /\ status' = status /\ outbox' = outbox /\ rx' = rx
           /\ \A g \in Gen : inbox'[g] = inbox[g] \/ inbox'[g] = <<>>
  BY <1>1, <1>2 DEF GoesOn
<1>3. CASE query' = query /\ status' = status /\ outbox' = outbox /\ rx' = rx
           /\ \E line \in Line : line.kind # "chat" /\ Written(line)
  BY <1>3, WritingStep DEF GoesOn
<1>4. ASSUME NEW r \in Requests, RegisterRequest(r)
      PROVE  RInv'
  <2>1. GoesOn
    BY <1>4 DEF RegisterRequest, GoesOn, TypeOK
  <2>. QED  BY <1>1, <1>4, <2>1 DEF RegisterRequest
<1>5. ASSUME NEW r \in Requests, SendChat(r)
      PROVE  RInv'
  BY <1>5, SendStep
<1>6. ASSUME NEW r \in Requests, ReceiveReply(r)
      PROVE  RInv'
  <2>1. /\ inbox' = inbox /\ outbox' = outbox /\ query' = query
        /\ rx[r] # <<>> /\ rx' = [rx EXCEPT ![r] = Tail(@)]
    BY <1>6 DEF ReceiveReply
  <2>2. \A x \in Requests : status'[x] = status[x] \/ status'[x] \in Terminal
    BY <1>6 DEF ReceiveReply, TypeOK
  <2>3. NotYetWritten' /\ ChatOnce'
    BY <2>1, <2>2 DEF RInv, NotYetWritten, ChatOnce, Chat, Terminal
  <2>4. ASSUME NEW x \in Requests, NEW i \in DOMAIN rx'[x], rx'[x][i] = "done"
        PROVE  query[x] = "done"
    <3>1. CASE x = r
      <4>1. i + 1 \in DOMAIN rx[r] /\ rx'[r][i] = rx[r][i + 1]
        BY <2>1, <2>4, <3>1, HeadTailProperties DEF TypeOK
      <4>. QED  BY <2>4, <3>1, <4>1 DEF RInv, DoneIsReal
    <3>2. CASE x # r
      BY <2>1, <2>4, <3>2 DEF RInv, DoneIsReal, TypeOK
    <3>. QED  BY <3>1, <3>2
  <2>. QED  BY <2>1, <2>3, <2>4 DEF RInv, DoneIsReal
<1>7. ASSUME NEW r \in Requests, UnregisterRequest(r)
      PROVE  RInv'
  BY <1>2, <1>7 DEF UnregisterRequest
<1>8. ASSUME NEW r \in Requests, AbortChat(r)
      PROVE  RInv'
  <2>1. [kind |-> "abort", req |-> r] \in Line /\ [kind |-> "abort", req |-> r].kind # "chat"
    BY DEF Line
  <2>. QED  BY <1>3, <1>8, <2>1 DEF AbortChat
<1>9. ASSUME NEW r \in Requests, ShutdownAbort(r)
      PROVE  RInv'
  <2>1. [kind |-> "abort", req |-> r] \in Line /\ [kind |-> "abort", req |-> r].kind # "chat"
    BY DEF Line
  <2>. QED  BY <1>2, <1>3, <1>9, <2>1 DEF ShutdownAbort, NotWritten
<1>10. ASSUME NEW g \in Gen, ReadLine(g)
       PROVE  RInv'
  BY <1>10, ReadStep
<1>11. ASSUME NEW g \in Gen, OnTerminated(g)
       PROVE  RInv'
  <2>1. inbox' = inbox /\ outbox' = outbox /\ query' = query /\ status' = status
    BY <1>11 DEF OnTerminated
  <2>2. ASSUME NEW r \in Requests, NEW i \in DOMAIN rx'[r], rx'[r][i] = "done"
        PROVE  query[r] = "done"
    <3>1. rx[r] \in Seq({"event"} \cup Terminal) /\ "error" \in {"event"} \cup Terminal
      BY DEF TypeOK, Terminal
    <3>2. rx'[r] = rx[r] \/ rx'[r] = Append(rx[r], "error")
      BY <1>11 DEF OnTerminated, Told
    <3>3. i \in DOMAIN rx[r] /\ rx'[r][i] = rx[r][i]
      BY <2>2, <3>1, <3>2, AppendProperties
    <3>. QED  BY <2>2, <3>3 DEF RInv, DoneIsReal
  <2>. QED  BY <2>1, <2>2 DEF RInv, NotYetWritten, ChatOnce, DoneIsReal, Chat
<1>12. CASE HealthPing
  <2>1. [kind |-> "ping"] \in Line /\ [kind |-> "ping"].kind # "chat"
    BY DEF Line
  <2>. QED  BY <1>2, <1>3, <1>12, <2>1 DEF HealthPing, NotWritten
<1>13. CASE HealthTimeout \/ ShutdownKill
  BY <1>2, <1>13 DEF HealthTimeout, ShutdownKill, TakeAndKill, Dies, TypeOK
<1>14. ASSUME NEW g \in Gen, HandleLine(g)
       PROVE  RInv'
  BY <1>14, DispatchStep
<1>15. ASSUME NEW g \in Gen, ProcessExit(g) \/ ProcessHang(g)
       PROVE  RInv'
  BY <1>2, <1>15 DEF ProcessExit, ProcessHang, Dies, TypeOK
<1>16. ASSUME NEW r \in Requests, ActivateQuery(r)
       PROVE  RInv'
  <2>1. GoesOn
    BY <1>16 DEF ActivateQuery, GoesOn, TypeOK
  <2>. QED  BY <1>1, <1>16, <2>1 DEF ActivateQuery
<1>17. ASSUME NEW r \in Requests, EmitEvent(r)
       PROVE  RInv'
  <2> DEFINE e == [kind |-> "event", req |-> r]
  <2>1. e \in Event /\ e.kind # "done" /\ sentTo[r] \in Nat
    BY SidecarAssumption DEF Event, TypeOK
  <2>2. /\ inbox' = inbox /\ status' = status /\ query' = query /\ rx' = rx
        /\ outbox' = [outbox EXCEPT ![sentTo[r]] = Append(@, e)]
    BY <1>17 DEF EmitEvent
  <2>3. GoesOn
    BY <2>2 DEF GoesOn
  <2>4. DoneIsReal'
    BY <2>1, <2>2, <2>3, EventStep DEF RInv
  <2>. QED  BY <2>2, <2>4 DEF RInv, NotYetWritten, ChatOnce, Chat
<1>18. ASSUME NEW r \in Requests, FinishQuery(r)
       PROVE  RInv'
  <2>1. PICK k \in Terminal :
          /\ outbox' = [outbox EXCEPT ![sentTo[r]] = Append(@, [kind |-> k, req |-> r])]
          /\ query' = [query EXCEPT ![r] = k]
    BY <1>18 DEF FinishQuery, Terminal
  <2>2. inbox' = inbox /\ status' = status /\ rx' = rx
        /\ query[r] \in {"starting", "active", "interrupted"}
    BY <1>18 DEF FinishQuery
  <2>3. GoesOn /\ query'[r] = k
    BY <2>1, <2>2 DEF GoesOn, TypeOK
  <2>4. [kind |-> k, req |-> r] \in Event /\ sentTo[r] \in Nat
    BY SidecarAssumption DEF Event, TypeOK
  <2>5. DoneIsReal'
    BY <2>1, <2>2, <2>3, <2>4, EventStep DEF RInv
  <2>6. NotYetWritten' /\ ChatOnce'
    BY <2>2, <2>3, FewerKept DEF RInv, NoNewLine
  <2>. QED  BY <2>5, <2>6 DEF RInv
<1>. QED
  BY <1>2, <1>4, <1>5, <1>6, <1>7, <1>8, <1>9, <1>10, <1>11, <1>12, <1>13, <1>14, <1>15, <1>16,
     <1>17, <1>18
  DEF Next, Rust, Node, vars, StartManager, SpawnProcess, SupervisorPoll, SupervisorCheck,
      SupervisorSpawn, HealthPong, ShutdownBegin

-----------------------------------------------------------------------------
(* Every step of Sidecar is a step of ChatRequests or changes nothing.     *)

(* A request enters the abstract phase when its Chat line is written.      *)
LEMMA AcceptStep ==
  ASSUME TypeOK, IInv, NEW r \in Requests, SendChat(r)
  PROVE  Promise!Accept(r)
<1>1. status[r] = "registered" /\ query' = query
  BY DEF SendChat, IInv, GuardOk, nodeVars
<1>2. PICK p \in {"running", "rejected"} : status' = [status EXCEPT ![r] = p]
  BY DEF SendChat
<1>3. phase[r] = "idle" /\ phase' = [phase EXCEPT ![r] = p]
  BY <1>1, <1>2 DEF phase, TypeOK
<1>4. answered' = answered
  BY <1>1 DEF answered
<1>. QED  BY <1>3, <1>4 DEF Promise!Accept

(* The task of a request breaks its loop at the outcome.                   *)
LEMMA CloseStep ==
  ASSUME TypeOK, RInv, NEW r \in Requests, ReceiveReply(r)
  PROVE  Promise!Close(r) \/ UNCHANGED <<phase, answered>>
<1>1. /\ status[r] = "running" /\ rx[r] # <<>> /\ query' = query
      /\ status' = IF Head(rx[r]) \in Terminal
                     THEN [status EXCEPT ![r] = Head(rx[r])] ELSE status
  BY DEF ReceiveReply, nodeVars
<1>2. answered' = answered
  BY <1>1 DEF answered
<1>3. CASE Head(rx[r]) \notin Terminal
  BY <1>1, <1>2, <1>3 DEF phase
<1>4. CASE Head(rx[r]) \in Terminal
  <2>1. phase[r] = "running" /\ phase' = [phase EXCEPT ![r] = Head(rx[r])]
    BY <1>1, <1>4 DEF phase, TypeOK, Terminal
  <2>2. 1 \in DOMAIN rx[r] /\ Head(rx[r]) = rx[r][1]
    BY <1>1, HeadTailProperties DEF TypeOK
  <2>3. Head(rx[r]) = "done" => r \in answered
    BY <2>2 DEF RInv, DoneIsReal, answered
  <2>. QED  BY <1>2, <1>4, <2>1, <2>3 DEF Promise!Close, Terminal
<1>. QED  BY <1>3, <1>4

(* A query yields its result, or an error that closes nothing yet.         *)
LEMMA AnswerStep ==
  ASSUME TypeOK, RInv, NEW r \in Requests, FinishQuery(r)
  PROVE  Promise!Answer(r) \/ UNCHANGED <<phase, answered>>
<1>1. PICK k \in Terminal : query' = [query EXCEPT ![r] = k]
  BY DEF FinishQuery, Terminal
<1>2. status' = status /\ query[r] \in {"starting", "active", "interrupted"}
  BY DEF FinishQuery, requestVars
<1>3. phase' = phase /\ phase[r] # "idle"
  BY <1>2 DEF phase, RInv, NotYetWritten, TypeOK
<1>4. answered' = IF k = "done" THEN answered \cup {r} ELSE answered
  BY <1>1, <1>2 DEF answered, TypeOK, Terminal
<1>. QED  BY <1>3, <1>4 DEF Promise!Answer

(* A step that moves no request and ends no query changes nothing.         *)
LEMMA StutterStep ==
  ASSUME \A r \in Requests :
           /\ status'[r] = status[r] \/ (status[r] = "idle" /\ status'[r] = "registered")
           /\ query'[r] = "done" <=> query[r] = "done"
  PROVE  UNCHANGED <<phase, answered>>
<1>1. phase' = phase
  BY DEF phase
<1>2. answered' = answered
  BY DEF answered
<1>. QED  BY <1>1, <1>2

(* Every step is a step of ChatRequests, or changes nothing it sees.       *)
LEMMA NextRefines ==
  ASSUME TypeOK, IInv, RInv, [Next]_vars
  PROVE  [Promise!Next]_<<phase, answered>>
<1> USE DEF managerVars, pipeVars, requestVars, taskVars, nodeVars
<1>1. CASE status' = status /\ query' = query
  BY <1>1, StutterStep
<1>2. ASSUME NEW r \in Requests, RegisterRequest(r)
      PROVE  UNCHANGED <<phase, answered>>
  BY <1>2, StutterStep DEF RegisterRequest, TypeOK
<1>3. ASSUME NEW r \in Requests, SendChat(r)
      PROVE  Promise!Next
  BY <1>3, AcceptStep DEF Promise!Next
<1>4. ASSUME NEW r \in Requests, ReceiveReply(r)
      PROVE  [Promise!Next]_<<phase, answered>>
  BY <1>4, CloseStep DEF Promise!Next
<1>5. ASSUME NEW g \in Gen, HandleLine(g)
      PROVE  UNCHANGED <<phase, answered>>
  <2>1. status' = status
    BY <1>5 DEF HandleLine
  <2>. QED  BY <1>5, <2>1, DispatchStep, StutterStep
<1>6. ASSUME NEW r \in Requests, ActivateQuery(r)
      PROVE  UNCHANGED <<phase, answered>>
  BY <1>6, StutterStep DEF ActivateQuery, TypeOK
<1>7. ASSUME NEW r \in Requests, FinishQuery(r)
      PROVE  [Promise!Next]_<<phase, answered>>
  BY <1>7, AnswerStep DEF Promise!Next
<1>. QED
  BY <1>1, <1>2, <1>3, <1>4, <1>5, <1>6, <1>7
  DEF Next, Rust, Node, vars, StartManager, SpawnProcess, UnregisterRequest, AbortChat,
      ShutdownAbort, ReadLine, OnTerminated, SupervisorPoll, SupervisorCheck, SupervisorSpawn,
      HealthPing, HealthPong, HealthTimeout, ShutdownBegin, ShutdownKill, ProcessExit,
      ProcessHang, EmitEvent

(* The chat commands keep their promise, whatever happens to the process:  *)
(* RefinesChatRequests, for any number of requests and processes.          *)
THEOREM Refinement == Spec => RefinesChatRequests
<1>1. Init => RInv /\ Promise!Init
  <2>1. Init => RInv
    BY DEF Init, RInv, NotYetWritten, ChatOnce, DoneIsReal
  <2>2. Init => phase = [r \in Requests |-> "idle"] /\ answered = {}
    BY DEF Init, phase, answered
  <2>. QED  BY <2>1, <2>2 DEF Promise!Init
<1>2. TypeOK /\ IInv /\ RInv /\ [Next]_vars => (TypeOK /\ IInv /\ RInv)'
  BY NextType, NextInv, NextRInv
<1>3. TypeOK /\ IInv /\ RInv /\ [Next]_vars => [Promise!Next]_<<phase, answered>>
  BY NextRefines
<1>. QED
  BY <1>1, <1>2, <1>3, InitType, InitInv, PTL
  DEF Spec, RefinesChatRequests, Promise!Spec
=============================================================================
