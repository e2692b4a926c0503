--------------------------- MODULE ChatPermission ---------------------------
(***************************************************************************)
(* The permission round trip of the chat: canUseTool in the Node process   *)
(* asks, the task of send_chat_message lets the PermissionBroker decide or *)
(* forwards the question to the user interface, the user answers from the  *)
(* banner or from a diff tab, respond_chat_permission stores a rule and    *)
(* sends the decision back.                                                *)
(*                                                                         *)
(* A turn is one call of sendMessage.  The composer and the buttons of the *)
(* messages are disabled while isStreaming, but sendMessage itself looks   *)
(* at nothing, and edit, regenerate and reset call it after awaits.        *)
(*                                                                         *)
(* The module covers one life of the Node process (Sidecar models its      *)
(* restarts): the permission counter only grows and ids are 1, 2, ...      *)
(***************************************************************************)
EXTENDS Naturals, Sequences

CONSTANTS AskTools,     \* Bash: the broker decides it by no rule
          WriteTools,   \* Edit, Write
          ReadTools,    \* Read, Glob, Grep
          BlockTools,   \* mcp__httui_notes__execute_block
          NoteTools,    \* mcp__httui_notes__update_note: the banner offers a diff tab
          AllowedTools, \* allowed_tools of a turn: the SDK runs them without canUseTool
          NoTool,       \* toolName is undefined
          Sessions,
          NoSession,    \* the column session_id is NULL
          Calls,        \* calls of respondPermission
          MaxTurns,     \* bound: calls of sendMessage in a behaviour
          MaxResend,    \* bound: concurrent calls of edit, regenerate and reset
          MaxPerm       \* bound: permission requests in a behaviour

Tools == AskTools \cup WriteTools \cup ReadTools \cup BlockTools \cup NoteTools

ASSUME PermissionAssumption ==
  /\ NoTool \notin Tools
  /\ NoSession \notin Sessions
  /\ (AskTools \cap (WriteTools \cup ReadTools)) = {}
  /\ (WriteTools \cap ReadTools) = {}
  /\ AllowedTools \subseteq Tools
  /\ MaxTurns \in Nat
  /\ MaxResend \in Nat
  /\ MaxPerm \in Nat

Turns == 1..MaxTurns
Ids   == 1..MaxPerm

VARIABLES
  \* the chat store and the pane store
  active,      \* activeSessionId
  streaming,   \* isStreaming
  resending,   \* calls of edit, regenerate and reset that have not sent yet
  turn,        \* turn[i]: the i-th call of sendMessage
  slot,        \* pendingPermission: the id it shows, 0 for null
  diffTabs,    \* permission ids that have a diff tab open
  inflight,    \* calls of respondPermission that have not returned
  \* the Rust side
  toRust,      \* toRust[i]: permission requests the task of turn i has not read
  toUI,        \* events emitted and not yet delivered to the listeners
  rules,       \* table tool_permissions
  verdict,     \* verdict[u]: what the broker decided, "none" before
  \* the Node process
  asked,       \* asked[u]: the tool, place and turn of request u
  pending,     \* pendingPermissions
  decided,     \* decided[u]: what canUseTool returned, "none" before
  toNode,      \* permission_response lines not yet dispatched
  answers      \* history: every answer the user gave

turnVars == <<active, streaming, resending, turn>>
uiVars   == <<turnVars, slot, diffTabs, inflight, answers>>
rustVars == <<toRust, toUI, rules, verdict>>
nodeVars == <<asked, pending, decided, toNode>>
vars == <<uiVars, rustVars, nodeVars>>

(* sending: sendChatMessage has not returned; running: the query runs;     *)
(* ended: it does not, and its task has still to say so; closed: the event *)
(* has been emitted; over: it has been delivered, or sending has failed.   *)
(* late is history: isStreaming was set when sendMessage was called.       *)
Turn == [session : Sessions, stage : {"sending", "running", "ended", "closed", "over"},
         late : BOOLEAN]

(* "inside" and "outside": whether the path of the input lies within the   *)
(* working directory.  Without a working directory, or without a path,     *)
(* the two fixed checks do not apply: that is a read "outside" and a       *)
(* write "inside", which the broker treats alike.                          *)
Request == [tool : Tools, place : {"inside"}, turn : Turns]
           \cup [tool : WriteTools \cup ReadTools, place : {"outside"}, turn : Turns]
Choice  == {<<"deny", "once">>, <<"allow", "once">>,
            <<"allow", "session">>, <<"allow", "always">>}
Answer  == [call : Calls, id : Ids, choice : Choice, tool : Tools \cup {NoTool}]
Rule    == [tool : Tools, scope : {"session", "always"}, behavior : {"allow", "deny"},
            session : Sessions \cup {NoSession}]
Event   == [kind : {"ask"}, id : Ids] \cup [kind : {"closed"}, turn : Turns]

TypeOK ==
  /\ active \in Sessions
  /\ streaming \in BOOLEAN
  /\ resending \in 0..MaxResend
  /\ turn \in Seq(Turn) /\ Len(turn) <= MaxTurns
  /\ slot \in 0..MaxPerm
  /\ diffTabs \subseteq Ids
  /\ inflight \subseteq [answer : Answer, stage : {"clicked", "persisted", "sent"}]
  /\ answers \subseteq Answer
  /\ toRust \in [Turns -> Seq(Ids)]
  /\ toUI \in Seq(Event)
  /\ rules \subseteq Rule
  /\ verdict \in [Ids -> {"none", "allow", "deny", "ask"}]
  /\ asked \in Seq(Request) /\ Len(asked) <= MaxPerm
  /\ \A u \in 1..Len(asked) : asked[u].turn \in 1..Len(turn)
  /\ pending \subseteq 1..Len(asked)
  /\ decided \in [Ids -> {"none", "allow", "deny", "aborted"}]
  /\ toNode \in Seq([id : Ids, behavior : {"allow", "deny"}])

Init ==
  /\ active \in Sessions
  /\ streaming = FALSE
  /\ resending = 0
  /\ turn = <<>>
  /\ slot = 0
  /\ diffTabs = {}
  /\ inflight = {}
  /\ answers = {}
  /\ toRust = [i \in Turns |-> <<>>]
  /\ toUI = <<>>
  /\ rules = {}
  /\ verdict = [u \in Ids |-> "none"]
  /\ asked = <<>>
  /\ pending = {}
  /\ decided = [u \in Ids |-> "none"]
  /\ toNode = <<>>

SessionOf(u) == turn[asked[u].turn].session

-----------------------------------------------------------------------------
(* The chat store, the banner and the diff tabs.                           *)

(* Every change of pendingPermission runs the effect of the diff tabs on   *)
(* screen: a tab of another request closes.  A diff tab behind another tab *)
(* is not mounted and stays.                                               *)
SlotBecomes(u, tabs) ==
  /\ slot' = u
  /\ diffTabs' \in {t \in SUBSET tabs : tabs \cap {u} \subseteq t}

(* Mutant: a change of session starts with a fresh composer.               *)
SelectSessionFresh(s) ==
  /\ s # active
  /\ active' = s
  /\ streaming' = FALSE
  /\ UNCHANGED <<resending, turn, slot, diffTabs, inflight, answers, rustVars, nodeVars>>

(* selectSession and the session watcher leave the streaming flag and the  *)
(* permission slot alone.                                                  *)
SelectSession(s) ==
  /\ s # active
  /\ active' = s
  /\ UNCHANGED <<streaming, resending, turn, slot, diffTabs, inflight, answers,
                 rustVars, nodeVars>>

(* sendMessage, up to its await: in the session that is active, whatever   *)
(* isStreaming says.                                                       *)
SendMessage ==
  /\ Len(turn) < MaxTurns
  /\ turn' = Append(turn, [session |-> active, stage |-> "sending", late |-> streaming])
  /\ streaming' = TRUE
  /\ UNCHANGED <<active, slot, diffTabs, inflight, answers, rustVars, nodeVars>>

(* The composer sends at once ...                                          *)
Compose ==
  /\ ~streaming
  /\ SendMessage
  /\ UNCHANGED resending

(* ... the buttons of a message and the one of a session that cannot be    *)
(* resumed first delete messages or clear the id of the session.           *)
BeginResend ==
  /\ ~streaming
  /\ resending < MaxResend
  /\ resending' = resending + 1
  /\ UNCHANGED <<active, streaming, turn, slot, diffTabs, inflight, answers,
                 rustVars, nodeVars>>

Resend ==
  /\ resending > 0
  /\ resending' = resending - 1
  /\ SendMessage

(* The deletion fails, or there is no message to send again.               *)
GiveUpResend ==
  /\ resending > 0
  /\ resending' = resending - 1
  /\ UNCHANGED <<active, streaming, turn, slot, diffTabs, inflight, answers,
                 rustVars, nodeVars>>

StageBecomes(i, from, to) ==
  /\ turn[i].stage = from
  /\ turn' = [turn EXCEPT ![i].stage = to]

(* send_chat_message has handed the turn to the Node process.              *)
StartTurn(i) ==
  /\ StageBecomes(i, "sending", "running")
  /\ UNCHANGED <<active, streaming, resending, slot, diffTabs, inflight, answers,
                 rustVars, nodeVars>>

(* sendChatMessage fails: the catch of sendMessage unlocks the composer.   *)
SendFails(i) ==
  /\ StageBecomes(i, "sending", "over")
  /\ streaming' = FALSE
  /\ UNCHANGED <<active, resending, slot, diffTabs, inflight, answers, rustVars, nodeVars>>

(* Listeners of chat:permission_request and of chat:done / chat:error: an  *)
(* event of a session that is not active is dropped.                       *)
Deliver ==
  /\ toUI # <<>>
  /\ toUI' = Tail(toUI)
  /\ LET m == Head(toUI)
     IN \/ /\ m.kind = "ask"
           /\ IF SessionOf(m.id) = active THEN SlotBecomes(m.id, diffTabs)
              ELSE UNCHANGED <<slot, diffTabs>>
           /\ UNCHANGED <<streaming, turn>>
        \/ /\ m.kind = "closed"
           /\ StageBecomes(m.turn, "closed", "over")
           /\ IF turn[m.turn].session = active
                THEN SlotBecomes(0, diffTabs) /\ streaming' = FALSE
                ELSE UNCHANGED <<slot, diffTabs, streaming>>
  /\ UNCHANGED <<active, resending, inflight, answers, toRust, rules, verdict, nodeVars>>

ViewDiff ==
  /\ slot # 0
  /\ asked[slot].tool \in NoteTools
  /\ slot \notin diffTabs
  /\ diffTabs' = diffTabs \cup {slot}
  /\ UNCHANGED <<turnVars, slot, inflight, answers, rustVars, nodeVars>>

(* respondPermission, up to its await.  The answer is for the id of the    *)
(* banner or of the diff tab, the tool name is the one in the slot.        *)
Respond(k, u, choice) ==
  /\ \A a \in answers : a.call # k
  /\ u \in ({slot} \ {0}) \cup diffTabs
  /\ LET a == [call |-> k, id |-> u, choice |-> choice,
               tool |-> IF slot = 0 THEN NoTool ELSE asked[slot].tool]
     IN /\ inflight' = inflight \cup {[answer |-> a, stage |-> "clicked"]}
        /\ answers' = answers \cup {a}
  /\ UNCHANGED <<turnVars, slot, diffTabs, rustVars, nodeVars>>

(* respondPermission returns: whatever is in the slot is cleared, the diff *)
(* tab of the id is closed.                                                *)
Responded(c) ==
  /\ c \in inflight
  /\ c.stage = "sent"
  /\ inflight' = inflight \ {c}
  /\ SlotBecomes(0, diffTabs \ {c.answer.id})
  /\ UNCHANGED <<turnVars, answers, rustVars, nodeVars>>

-----------------------------------------------------------------------------
(* respond_chat_permission.                                                *)

AtStage(c, stage) == inflight' = (inflight \ {c}) \cup {[c EXCEPT !.stage = stage]}

(* Mutant: an insert that fails returns from the command.                  *)
PersistRuleOrReturn(c) ==
  /\ c \in inflight
  /\ c.stage = "clicked"
  /\ LET a == c.answer
         r == [tool |-> a.tool, scope |-> a.choice[2], behavior |-> a.choice[1],
               session |-> NoSession]
     IN IF a.choice[2] \in {"session", "always"} /\ a.tool # NoTool
          THEN \/ AtStage(c, "persisted") /\ rules' = rules \cup {r}
               \/ inflight' = inflight \ {c} /\ UNCHANGED rules
          ELSE AtStage(c, "persisted") /\ UNCHANGED rules
  /\ UNCHANGED <<turnVars, slot, diffTabs, answers, toRust, toUI, verdict, nodeVars>>

(* Mutant: a rule is stored whether or not the tool is known.              *)
PersistAnyRule(c) ==
  /\ c \in inflight
  /\ c.stage = "clicked"
  /\ AtStage(c, "persisted")
  /\ LET a == c.answer
         r == [tool |-> a.tool, scope |-> a.choice[2], behavior |-> a.choice[1],
               session |-> NoSession]
     IN IF a.choice[2] \in {"session", "always"}
          THEN rules' \in {rules, rules \cup {r}}
          ELSE UNCHANGED rules
  /\ UNCHANGED <<turnVars, slot, diffTabs, answers, toRust, toUI, verdict, nodeVars>>

(* A scope of session or always stores a rule, for no session in           *)
(* particular; an insert that fails is ignored.                            *)
PersistRule(c) ==
  /\ c \in inflight
  /\ c.stage = "clicked"
  /\ AtStage(c, "persisted")
  /\ LET a == c.answer
         r == [tool |-> a.tool, scope |-> a.choice[2], behavior |-> a.choice[1],
               session |-> NoSession]
     IN IF a.choice[2] \in {"session", "always"} /\ a.tool # NoTool
          THEN rules' \in {rules, rules \cup {r}}
          ELSE UNCHANGED rules
  /\ UNCHANGED <<turnVars, slot, diffTabs, answers, toRust, toUI, verdict, nodeVars>>

SendResponse(c) ==
  /\ c \in inflight
  /\ c.stage = "persisted"
  /\ AtStage(c, "sent")
  /\ toNode' = Append(toNode, [id |-> c.answer.id, behavior |-> c.answer.choice[1]])
  /\ UNCHANGED <<turnVars, slot, diffTabs, answers, rustVars, asked, pending, decided>>

DeleteRule(r) ==
  /\ r \in rules
  /\ rules' = rules \ {r}
  /\ UNCHANGED <<uiVars, toRust, toUI, verdict, nodeVars>>

-----------------------------------------------------------------------------
(* The task of send_chat_message.                                          *)

(* Mutant: the rules of a session are taken for every session.             *)
MatchingRulesOfAny(q) ==
  LET always == {r \in rules : r.tool = q.tool /\ r.scope = "always"}
  IN IF always # {} THEN always
     ELSE {r \in rules : r.tool = q.tool /\ r.scope = "session"}

(* chat::check_permission: an always rule if there is one, else a rule of  *)
(* this session; of several, any.                                          *)
MatchingRules(q) ==
  LET always == {r \in rules : r.tool = q.tool /\ r.scope = "always"}
  IN IF always # {} THEN always
     ELSE {r \in rules : /\ r.tool = q.tool /\ r.scope = "session"
                         /\ r.session = turn[q.turn].session}

(* PermissionBroker::check, in its order of precedence.  The name of the   *)
(* rule for execute_block is not the one that MCP tools arrive with.       *)
Verdicts(q) ==
  IF q.tool \in AskTools THEN {"ask"}
  ELSE IF q.tool \in WriteTools /\ q.place = "outside" THEN {"deny"}
  ELSE IF q.tool \in ReadTools /\ q.place = "inside" THEN {"allow"}
  ELSE IF MatchingRules(q) = {} THEN {"ask"}
  ELSE {r.behavior : r \in MatchingRules(q)}

(* The task of turn i reads a permission request.                          *)
TakeRequest(i) ==
  /\ toRust[i] # <<>>
  /\ toRust' = [toRust EXCEPT ![i] = Tail(@)]
  /\ LET u == Head(toRust[i])
     IN \E v \in Verdicts(asked[u]) :
          /\ verdict' = [verdict EXCEPT ![u] = v]
          /\ IF v = "ask"
               THEN toUI' = Append(toUI, [kind |-> "ask", id |-> u]) /\ UNCHANGED toNode
               ELSE /\ toNode' = Append(toNode, [id |-> u, behavior |-> v])
                    /\ UNCHANGED toUI
  /\ UNCHANGED <<uiVars, rules, asked, pending, decided>>

(* ... and, last, the end of the answer or an error: chat:done, chat:error.*)
CloseTurn(i) ==
  /\ toRust[i] = <<>>
  /\ StageBecomes(i, "ended", "closed")
  /\ toUI' = Append(toUI, [kind |-> "closed", turn |-> i])
  /\ UNCHANGED <<active, streaming, resending, slot, diffTabs, inflight, answers,
                 toRust, rules, verdict, nodeVars>>

-----------------------------------------------------------------------------
(* The Node process.                                                       *)

(* canUseTool up to its await; several calls of a turn may be pending.     *)
(* The SDK runs the allowed tools without it.                              *)
CanUseTool(q) ==
  /\ q.turn \in 1..Len(turn) /\ turn[q.turn].stage = "running"
  /\ q.tool \notin AllowedTools
  /\ Len(asked) < MaxPerm
  /\ asked' = Append(asked, q)
  /\ pending' = pending \cup {Len(asked) + 1}
  /\ toRust' = [toRust EXCEPT ![q.turn] = Append(@, Len(asked) + 1)]
  /\ UNCHANGED <<uiVars, toUI, rules, verdict, decided, toNode>>

(* handlePermissionResponse: the promise resolves, canUseTool returns.  An *)
(* id that is not pending is ignored.                                      *)
HandlePermissionResponse ==
  /\ toNode # <<>>
  /\ toNode' = Tail(toNode)
  /\ LET d == Head(toNode)
     IN IF d.id \in pending
          THEN /\ pending' = pending \ {d.id}
               /\ decided' = [decided EXCEPT ![d.id] = d.behavior]
          ELSE UNCHANGED <<pending, decided>>
  /\ UNCHANGED <<uiVars, rustVars, asked>>

PendingOf(i) == {u \in pending : asked[u].turn = i}

(* The user stops the turn of activeRequestId, which may be any that runs: *)
(* the signal of every pending call aborts.                                *)
Interrupt(i) ==
  /\ turn[i].stage = "running"
  /\ PendingOf(i) # {}
  /\ pending' = pending \ PendingOf(i)
  /\ decided' = [u \in Ids |-> IF u \in PendingOf(i) THEN "aborted" ELSE decided[u]]
  /\ UNCHANGED <<uiVars, rustVars, asked, toNode>>

(* The query ends, with a result or an error.                              *)
FinishTurn(i) ==
  /\ PendingOf(i) = {}
  /\ StageBecomes(i, "running", "ended")
  /\ UNCHANGED <<active, streaming, resending, slot, diffTabs, inflight, answers,
                 rustVars, nodeVars>>

-----------------------------------------------------------------------------
Next ==
  \/ \E s \in Sessions : SelectSession(s)
  \/ Compose \/ BeginResend \/ Resend \/ GiveUpResend
  \/ \E i \in 1..Len(turn) : \/ StartTurn(i) \/ SendFails(i) \/ TakeRequest(i) \/ CloseTurn(i)
                             \/ Interrupt(i) \/ FinishTurn(i)
  \/ Deliver \/ ViewDiff \/ HandlePermissionResponse
  \/ \E k \in Calls, u \in Ids, choice \in Choice : Respond(k, u, choice)
  \/ \E c \in inflight : PersistRule(c) \/ SendResponse(c) \/ Responded(c)
  \/ \E r \in rules : DeleteRule(r)
  \/ \E q \in Request : CanUseTool(q)

Spec == Init /\ [][Next]_vars

-----------------------------------------------------------------------------
(* What the permission system promises.                                    *)

(* What canUseTool lets run has consent: the user allowed that very        *)
(* request, or the tool only reads inside the working directory, or the    *)
(* user chose "always", or in the same session "session", for a request    *)
(* while this tool was on the banner.  A tool of AskTools always needs an  *)
(* answer of its own, and a write outside the working directory is never   *)
(* let run (PermissionBroker::check).  Tools of allowed_tools run without  *)
(* canUseTool, and of those this says nothing.                             *)
Consent ==
  \A u \in 1..Len(asked) :
    decided[u] = "allow" =>
      /\ ~ (asked[u].tool \in WriteTools /\ asked[u].place = "outside")
      /\ \/ \E a \in answers : a.id = u /\ a.choice[1] = "allow"
         \/ asked[u].tool \in ReadTools /\ asked[u].place = "inside"
         \/ /\ asked[u].tool \notin AskTools
            /\ \E a \in answers :
                 /\ a.tool = asked[u].tool
                 /\ \/ a.choice = <<"allow", "always">>
                    \/ a.choice = <<"allow", "session">> /\ SessionOf(a.id) = SessionOf(u)

UnderWay == {i \in 1..Len(turn) : turn[i].stage \in {"sending", "running"}}

(* As long as no turn was sent late, one turn is under way at a time and   *)
(* the composer is locked meanwhile, although sessions are switched,       *)
(* events of other sessions are dropped and sending may fail: what a turn  *)
(* leaves in the channels never unlocks the composer of a later one.  Only *)
(* a resend that began before another turn did is late.                    *)
ComposerLocked ==
  (\A i \in 1..Len(turn) : ~turn[i].late) =>
    /\ \A i, j \in UnderWay : i = j
    /\ UnderWay # {} => streaming

(* No decision is lost: while a request that the broker decided, or that   *)
(* the user answered, is still pending, its reply is on the way to the     *)
(* Node process (the arms of send_chat_message, respond_chat_permission).  *)
ReplyUnderWay ==
  \A u \in pending :
    verdict[u] \in {"allow", "deny"} \/ (\E a \in answers : a.id = u)
      => \/ \E i \in DOMAIN toNode : toNode[i].id = u
         \/ \E c \in inflight : c.answer.id = u /\ c.stage # "sent"

-----------------------------------------------------------------------------
(* What the documentation promises and the code does not keep.             *)

(* A request that fell through to the user is on the banner of its session *)
(* until it is answered.                                                   *)
AskedIsShown ==
  \A u \in pending :
    /\ verdict[u] = "ask"
    /\ SessionOf(u) = active
    /\ \A i \in DOMAIN toUI : toUI[i] # [kind |-> "ask", id |-> u]
    /\ \A a \in answers : a.id # u
    => slot = u

(* Block execution always requires user confirmation.  The rule compares   *)
(* with execute_block, and the tool arrives as                             *)
(* mcp__httui_notes__execute_block: one "always" is enough.                *)
BlockAlwaysAsked ==
  \A u \in 1..Len(asked) :
    asked[u].tool \in BlockTools /\ decided[u] = "allow"
      => \E a \in answers : a.id = u /\ a.choice[1] = "allow"

(* isStreaming disables whatever sends a message, so that turns do not     *)
(* overlap.                                                                *)
TurnsDoNotOverlap == \A i, j \in UnderWay : i = j

(* After an answer with scope session has been stored, a later request for *)
(* the same tool in the same session is not asked again.                   *)
SessionScopeHonoured ==
  [][\A u \in 1..Len(asked) :
       /\ verdict[u] = "none" /\ verdict'[u] = "ask"
       /\ asked[u].tool \notin AskTools
       => ~ \E a \in answers :
              /\ a.choice = <<"allow", "session">>
              /\ a.tool = asked[u].tool
              /\ SessionOf(a.id) = SessionOf(u)
              /\ \E r \in rules : r.tool = a.tool /\ r.scope = "session"]_vars
=============================================================================
