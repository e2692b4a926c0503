--------------------------- MODULE FrontEnd_proofs ---------------------------
(***************************************************************************)
(* Proofs about the two components whose front end has state of its own    *)
(* between the user and the back end: ChatPermission, and EditorSession    *)
(* (whose Init, Next, Spec and TypeOK have names that begin with Editor).  *)
(*                                                                         *)
(* The first part is Consent, ReplyUnderWay and ComposerLocked for any     *)
(* tools, sessions and numbers of requests and answers.                    *)
(*                                                                         *)
(* Consent: whatever the user can answer is a request that may run if the  *)
(* user allows it (Showable), because the broker refuses a write outside   *)
(* before it asks; an always rule that allows goes back to an answer for   *)
(* its tool (RulesAreAnswers); so an allow on its way to the Node process  *)
(* has a consent (AllowHasConsent).                                        *)
(*                                                                         *)
(* ComposerLocked: a turn that is not late is sent when the composer is    *)
(* open, and then no other turn is short of its end (OneTurn); so whatever *)
(* opens the composer, the end or a failure to send, belongs to it.        *)
(*                                                                         *)
(* The second part is that autosave and forced saves of a note are written *)
(* in the order of the changes, for any notes, texts, changes and pending  *)
(* calls, with autosave on or off.                                         *)
(***************************************************************************)
EXTENDS ChatPermission, EditorSession, SequenceTheorems, TLAPS

-----------------------------------------------------------------------------
(* Type correctness.                                                       *)

(* The parts of a choice.                                                  *)
LEMMA ChoiceType ==
  ASSUME NEW ch \in Choice
  PROVE  /\ ch[1] \in {"allow", "deny"}
         /\ ch[2] \in {"once", "session", "always"}
         /\ ch[1] = "deny" => ch[2] = "once"
BY DEF Choice

(* The parts of a request.                                                 *)
LEMMA RequestType ==
  ASSUME NEW q \in Request
  PROVE  q.tool \in Tools /\ q.turn \in Turns
BY DEF Request, Tools

(* The request of an id that has been asked, and its session.              *)
LEMMA AskedType ==
  ASSUME TypeOK, NEW u \in 1..Len(asked)
  PROVE  /\ asked[u] \in Request /\ asked[u].tool \in Tools
         /\ turn[asked[u].turn].session \in Sessions
         /\ u \in Ids
<1>1. asked \in Seq(Request) /\ Len(asked) <= MaxPerm
  BY DEF TypeOK
<1>2. asked[u] \in Request
  BY <1>1
<1>3. u \in Ids
  BY <1>1, PermissionAssumption DEF Ids
<1>4. turn[asked[u].turn] \in Turn
  BY DEF TypeOK
<1>5. turn[asked[u].turn].session \in Sessions
  BY <1>4 DEF Turn
<1>. QED  BY <1>2, <1>3, <1>5, RequestType

(* The initial states are well typed.                                      *)
LEMMA InitType == Init => TypeOK
<1> SUFFICES ASSUME Init
             PROVE  TypeOK
  OBVIOUS
<1>1. MaxPerm \in Nat /\ 0 \in 0..MaxPerm /\ MaxTurns \in Nat /\ 0 \in 0..MaxResend
  BY PermissionAssumption
<1>2. /\ asked \in Seq(Request) /\ Len(asked) = 0
      /\ turn \in Seq(Turn) /\ Len(turn) = 0
  BY <1>1 DEF Init
<1>3. toUI \in Seq(Event) /\ toNode \in Seq([id : Ids, behavior : {"allow", "deny"}])
  BY DEF Init
<1>4. toRust \in [Turns -> Seq(Ids)]
  BY DEF Init
<1>5. \A u \in 1..Len(asked) : asked[u].turn \in 1..Len(turn)
  BY <1>2
<1>6. Len(asked) <= MaxPerm /\ Len(turn) <= MaxTurns
  BY <1>1, <1>2
<1>. QED  BY <1>1, <1>2, <1>3, <1>4, <1>5, <1>6 DEF Init, TypeOK

(* A turn moves on to another stage.                                       *)
LEMMA StageOfTurn ==
  ASSUME TypeOK, NEW i, NEW from,
         NEW to \in {"sending", "running", "ended", "closed", "over"}, StageBecomes(i, from, to)
  PROVE  /\ turn' \in Seq(Turn) /\ Len(turn') = Len(turn)
         /\ \A j \in 1..Len(turn) : /\ turn'[j].session = turn[j].session
                                   /\ turn'[j].late = turn[j].late
                                   /\ turn'[j].stage = IF j = i THEN to ELSE turn[j].stage
<1>1. turn \in Seq(Turn) /\ turn' = [turn EXCEPT ![i].stage = to]
  BY DEF TypeOK, StageBecomes
<1>2. \A j \in 1..Len(turn) : turn[j] \in Turn
  BY <1>1
<1>3. \A j \in 1..Len(turn) : [turn[j] EXCEPT !.stage = to] \in Turn
  BY <1>2 DEF Turn
<1>4. \A j \in 1..Len(turn) :
        turn'[j] = IF j = i THEN [turn[j] EXCEPT !.stage = to] ELSE turn[j]
  BY <1>1
<1>5. turn' \in Seq(Turn) /\ Len(turn') = Len(turn)
  <2>1. Len(turn) \in Nat /\ DOMAIN turn' = 1..Len(turn)
    BY <1>1
  <2>2. turn' \in [1..Len(turn) -> Turn]
    BY <1>1, <1>2, <1>3, <1>4, <2>1
  <2>. QED  BY <2>1, <2>2
<1>6. \A j \in 1..Len(turn) : /\ turn'[j].session = turn[j].session
                              /\ turn'[j].late = turn[j].late
                              /\ turn'[j].stage = IF j = i THEN to ELSE turn[j].stage
  BY <1>2, <1>4 DEF Turn
<1>. QED  BY <1>5, <1>6

(* A call of sendMessage adds a turn.                                      *)
LEMMA SendTurn ==
  ASSUME TypeOK, SendMessage
  PROVE  /\ turn' \in Seq(Turn) /\ Len(turn') = Len(turn) + 1 /\ Len(turn') <= MaxTurns
         /\ \A j \in 1..Len(turn) : turn'[j] = turn[j]
         /\ turn'[Len(turn) + 1] = [session |-> active, stage |-> "sending", late |-> streaming]
<1>1. [session |-> active, stage |-> "sending", late |-> streaming] \in Turn
  BY DEF TypeOK, Turn
<1>2. turn \in Seq(Turn) /\ Len(turn) < MaxTurns
      /\ turn' = Append(turn, [session |-> active, stage |-> "sending", late |-> streaming])
  BY DEF TypeOK, SendMessage
<1>3. Len(turn') = Len(turn) + 1 => Len(turn') <= MaxTurns
  BY <1>2, PermissionAssumption
<1>. QED  BY <1>1, <1>2, <1>3, AppendProperties

(* The slot and the diff tabs keep their types.                            *)
LEMMA SlotType ==
  ASSUME NEW u \in 0..MaxPerm, NEW tabs \in SUBSET Ids, SlotBecomes(u, tabs)
  PROVE  slot' \in 0..MaxPerm /\ diffTabs' \subseteq Ids
BY DEF SlotBecomes

(* A call of respond_chat_permission moves on to its next stage.           *)
LEMMA StageType ==
  ASSUME TypeOK, NEW c \in inflight, NEW stage \in {"clicked", "persisted", "sent"},
         AtStage(c, stage)
  PROVE  inflight' \subseteq [answer : Answer, stage : {"clicked", "persisted", "sent"}]
BY DEF TypeOK, AtStage

(* A request that may run if the user allows it.                           *)
Showable(u) ==
  /\ u \in 1..Len(asked)
  /\ ~ (asked[u].tool \in WriteTools /\ asked[u].place = "outside")

(* Every id under way has been asked, and one that the user can answer, or *)
(* has answered, is Showable.                                              *)
OnlyShowable ==
  /\ slot # 0 => Showable(slot)
  /\ \A u \in diffTabs : Showable(u)
  /\ \A a \in answers : Showable(a.id)
  /\ \A i \in DOMAIN toUI : toUI[i].kind = "ask" => Showable(toUI[i].id)
  /\ \A i \in Turns : \A n \in DOMAIN toRust[i] : toRust[i][n] \in 1..Len(asked)
  /\ \A u \in Ids : verdict[u] # "none" => u \in 1..Len(asked)

(* Every step keeps the types.                                             *)
LEMMA NextType == TypeOK /\ OnlyShowable /\ [Next]_vars => TypeOK'
<1> SUFFICES ASSUME TypeOK, OnlyShowable, [Next]_vars
             PROVE  TypeOK'
  OBVIOUS
<1> USE DEF turnVars, uiVars, rustVars, nodeVars
<1>1. ASSUME NEW s \in Sessions, SelectSession(s)
      PROVE  TypeOK'
  BY <1>1 DEF TypeOK, SelectSession
<1>2. ASSUME NEW i \in 1..Len(turn), Interrupt(i)
      PROVE  TypeOK'
  <2>1. pending' \subseteq 1..Len(asked')
    BY <1>2 DEF TypeOK, Interrupt
  <2>2. decided' \in [Ids -> {"none", "allow", "deny", "aborted"}]
    BY <1>2 DEF TypeOK, Interrupt
  <2>. QED  BY <1>2, <2>1, <2>2 DEF TypeOK, Interrupt
<1>3. ASSUME NEW i \in 1..Len(turn), FinishTurn(i)
      PROVE  TypeOK'
  <2>1. turn' \in Seq(Turn) /\ Len(turn') = Len(turn)
    BY <1>3, StageOfTurn DEF FinishTurn
  <2>. QED  BY <1>3, <2>1 DEF TypeOK, FinishTurn
<1>4. ASSUME SendMessage, resending' \in 0..MaxResend
      PROVE  TypeOK'
  <2>1. turn' \in Seq(Turn) /\ Len(turn') = Len(turn) + 1 /\ Len(turn') <= MaxTurns
    BY <1>4, SendTurn
  <2>2. asked' = asked /\ Len(turn) \in Nat
    BY <1>4 DEF TypeOK, SendMessage
  <2>3. \A n \in 1..Len(turn) : n \in 1..Len(turn')
    BY <2>1, <2>2
  <2>4. \A u \in 1..Len(asked') : asked'[u].turn \in 1..Len(turn')
    BY <2>2, <2>3 DEF TypeOK
  <2>. QED  BY <1>4, <2>1, <2>4 DEF TypeOK, SendMessage
<1>16. CASE Compose
  <2>1. resending' = resending /\ SendMessage
    BY <1>16 DEF Compose
  <2>2. resending' \in 0..MaxResend
    BY <2>1 DEF TypeOK
  <2>. QED  BY <1>4, <2>1, <2>2
<1>17. CASE BeginResend
  <2>1. resending' \in 0..MaxResend
    BY <1>17, PermissionAssumption DEF TypeOK, BeginResend
  <2>. QED  BY <1>17, <2>1 DEF TypeOK, BeginResend
<1>18. CASE Resend
  <2>1. resending' \in 0..MaxResend
    BY <1>18, PermissionAssumption DEF TypeOK, Resend
  <2>2. SendMessage
    BY <1>18 DEF Resend
  <2>. QED  BY <1>4, <2>1, <2>2
<1>19. CASE GiveUpResend
  <2>1. resending' \in 0..MaxResend
    BY <1>19, PermissionAssumption DEF TypeOK, GiveUpResend
  <2>. QED  BY <1>19, <2>1 DEF TypeOK, GiveUpResend
<1>20. ASSUME NEW i \in 1..Len(turn), StartTurn(i)
       PROVE  TypeOK'
  <2>1. turn' \in Seq(Turn) /\ Len(turn') = Len(turn)
    BY <1>20, StageOfTurn DEF StartTurn
  <2>. QED  BY <1>20, <2>1 DEF TypeOK, StartTurn
<1>21. ASSUME NEW i \in 1..Len(turn), SendFails(i)
       PROVE  TypeOK'
  <2>1. turn' \in Seq(Turn) /\ Len(turn') = Len(turn)
    BY <1>21, StageOfTurn DEF SendFails
  <2>. QED  BY <1>21, <2>1 DEF TypeOK, SendFails
<1>22. ASSUME NEW i \in 1..Len(turn), CloseTurn(i)
       PROVE  TypeOK'
  <2>1. turn' \in Seq(Turn) /\ Len(turn') = Len(turn)
    BY <1>22, StageOfTurn DEF CloseTurn
  <2>2. [kind |-> "closed", turn |-> i] \in Event
    BY PermissionAssumption DEF Event, Turns, TypeOK
  <2>3. toUI' \in Seq(Event)
    BY <1>22, <2>2, AppendProperties DEF TypeOK, CloseTurn
  <2>. QED  BY <1>22, <2>1, <2>3 DEF TypeOK, CloseTurn
<1>5. CASE Deliver
  <2>1. Tail(toUI) \in Seq(Event) /\ Head(toUI) \in Event
    BY <1>5, HeadTailProperties DEF TypeOK, Deliver
  <2>2. toUI' \in Seq(Event) /\ streaming' \in BOOLEAN
    BY <1>5, <2>1 DEF TypeOK, Deliver
  <2>3. slot' \in 0..MaxPerm /\ diffTabs' \subseteq Ids
    <3>1. CASE Head(toUI).kind = "ask"
      <4>1. Head(toUI).id \in 0..MaxPerm
        BY <2>1, <3>1, PermissionAssumption DEF Event, Ids
      <4>. QED  BY <1>5, <3>1, <4>1, SlotType DEF TypeOK, Deliver
    <3>2. CASE Head(toUI).kind = "closed"
      <4>1. 0 \in 0..MaxPerm
        BY PermissionAssumption
      <4>. QED  BY <1>5, <3>2, <4>1, SlotType DEF TypeOK, Deliver
    <3>. QED  BY <1>5, <3>1, <3>2 DEF Deliver
  <2>4. turn' \in Seq(Turn) /\ Len(turn') = Len(turn)
    <3>1. turn' = turn \/ StageBecomes(Head(toUI).turn, "closed", "over")
      BY <1>5 DEF Deliver
    <3>. QED  BY <3>1, StageOfTurn DEF TypeOK
  <2>. QED  BY <1>5, <2>2, <2>3, <2>4 DEF TypeOK, Deliver
<1>6. CASE ViewDiff
  <2>1. slot \in Ids
    BY <1>6, PermissionAssumption DEF TypeOK, ViewDiff, Ids
  <2>. QED  BY <1>6, <2>1 DEF TypeOK, ViewDiff
<1>7. ASSUME NEW i \in 1..Len(turn), TakeRequest(i)
      PROVE  TypeOK'
  <2> DEFINE u == Head(toRust[i])
  <2>1. i \in Turns /\ toRust[i] \in Seq(Ids)
    BY PermissionAssumption DEF TypeOK, Turns
  <2>2. Tail(toRust[i]) \in Seq(Ids) /\ u \in Ids
    BY <1>7, <2>1, HeadTailProperties DEF TakeRequest
  <2>3. toRust' \in [Turns -> Seq(Ids)]
    BY <1>7, <2>1, <2>2 DEF TakeRequest, TypeOK
  <2>4. PICK v \in Verdicts(asked[u]) :
          /\ verdict' = [verdict EXCEPT ![u] = v]
          /\ IF v = "ask"
               THEN toUI' = Append(toUI, [kind |-> "ask", id |-> u]) /\ UNCHANGED toNode
               ELSE /\ toNode' = Append(toNode, [id |-> u, behavior |-> v])
                    /\ UNCHANGED toUI
    BY <1>7 DEF TakeRequest
  <2>5. v \in {"allow", "deny", "ask"}
    BY <2>4 DEF Verdicts, MatchingRules, TypeOK, Rule
  <2>6. v # "ask" => [id |-> u, behavior |-> v] \in [id : Ids, behavior : {"allow", "deny"}]
    BY <2>2, <2>5
  <2>7. toNode' \in Seq([id : Ids, behavior : {"allow", "deny"}])
    <3>1. toNode \in Seq([id : Ids, behavior : {"allow", "deny"}])
      BY DEF TypeOK
    <3>2. v # "ask" => Append(toNode, [id |-> u, behavior |-> v])
                         \in Seq([id : Ids, behavior : {"allow", "deny"}])
      BY <2>6, <3>1, AppendProperties
    <3>. QED  BY <2>4, <3>1, <3>2
  <2>8. toUI' \in Seq(Event)
    <3>1. toUI \in Seq(Event) /\ [kind |-> "ask", id |-> u] \in Event
      BY <2>2 DEF TypeOK, Event
    <3>2. Append(toUI, [kind |-> "ask", id |-> u]) \in Seq(Event)
      BY <3>1, AppendProperties
    <3>. QED  BY <2>4, <3>1, <3>2
  <2>9. verdict' \in [Ids -> {"none", "allow", "deny", "ask"}]
    BY <2>4, <2>5 DEF TypeOK
  <2>. QED  BY <1>7, <2>3, <2>7, <2>8, <2>9 DEF TypeOK, TakeRequest
<1>8. CASE HandlePermissionResponse
  <2>1. /\ toNode' \in Seq([id : Ids, behavior : {"allow", "deny"}])
        /\ Head(toNode) \in [id : Ids, behavior : {"allow", "deny"}]
    BY <1>8, HeadTailProperties DEF TypeOK, HandlePermissionResponse
  <2>2. decided' \in [Ids -> {"none", "allow", "deny", "aborted"}]
    BY <1>8, <2>1 DEF TypeOK, HandlePermissionResponse
  <2>3. pending' \subseteq 1..Len(asked')
    BY <1>8 DEF TypeOK, HandlePermissionResponse
  <2>. QED  BY <1>8, <2>1, <2>2, <2>3 DEF TypeOK, HandlePermissionResponse
<1>9. ASSUME NEW k \in Calls, NEW u \in Ids, NEW choice \in Choice, Respond(k, u, choice)
      PROVE  TypeOK'
  <2> DEFINE tool == IF slot = 0 THEN NoTool ELSE asked[slot].tool
  <2> DEFINE a == [call |-> k, id |-> u, choice |-> choice, tool |-> tool]
  <2>1. tool \in Tools \cup {NoTool}
    <3>1. slot = 0 \/ slot \in 1..Len(asked)
      BY DEF OnlyShowable, Showable
    <3>. QED  BY <3>1, AskedType
  <2>2. a \in Answer
    BY <2>1 DEF Answer
  <2>3. [answer |-> a, stage |-> "clicked"]
          \in [answer : Answer, stage : {"clicked", "persisted", "sent"}]
    BY <2>2
  <2>. QED  BY <1>9, <2>2, <2>3 DEF TypeOK, Respond
<1>10. ASSUME NEW c \in inflight, PersistRule(c)
       PROVE  TypeOK'
  <2> DEFINE a == c.answer
  <2> DEFINE r == [tool |-> a.tool, scope |-> a.choice[2], behavior |-> a.choice[1],
                   session |-> NoSession]
  <2>1. a \in Answer /\ a.choice \in Choice /\ a.tool \in Tools \cup {NoTool}
    BY DEF TypeOK, Answer
  <2>2. a.choice[2] \in {"session", "always"} /\ a.tool # NoTool => r \in Rule
    BY <2>1, ChoiceType DEF Rule
  <2>3. rules' \subseteq Rule
    BY <1>10, <2>2 DEF TypeOK, PersistRule
  <2>4. inflight' \subseteq [answer : Answer, stage : {"clicked", "persisted", "sent"}]
    BY <1>10, StageType DEF PersistRule
  <2>. QED  BY <1>10, <2>3, <2>4 DEF TypeOK, PersistRule
<1>11. ASSUME NEW c \in inflight, SendResponse(c)
       PROVE  TypeOK'
  <2>1. inflight' \subseteq [answer : Answer, stage : {"clicked", "persisted", "sent"}]
    BY <1>11, StageType DEF SendResponse
  <2>2. c.answer \in Answer /\ c.answer.choice \in Choice /\ c.answer.id \in Ids
    BY DEF TypeOK, Answer
  <2>3. [id |-> c.answer.id, behavior |-> c.answer.choice[1]]
          \in [id : Ids, behavior : {"allow", "deny"}]
    BY <2>2, ChoiceType
  <2>4. toNode' \in Seq([id : Ids, behavior : {"allow", "deny"}])
    BY <1>11, <2>3, AppendProperties DEF TypeOK, SendResponse
  <2>. QED  BY <1>11, <2>1, <2>4 DEF TypeOK, SendResponse
<1>12. ASSUME NEW c \in inflight, Responded(c)
       PROVE  TypeOK'
  <2>1. 0 \in 0..MaxPerm /\ diffTabs \ {c.answer.id} \in SUBSET Ids
    BY PermissionAssumption DEF TypeOK
  <2>. QED  BY <1>12, <2>1, SlotType DEF TypeOK, Responded
<1>13. ASSUME NEW r \in rules, DeleteRule(r)
       PROVE  TypeOK'
  BY <1>13 DEF TypeOK, DeleteRule
<1>14. ASSUME NEW q \in Request, CanUseTool(q)
       PROVE  TypeOK'
  <2>1. asked' \in Seq(Request) /\ Len(asked') = Len(asked) + 1 /\ Len(asked') <= MaxPerm
    BY <1>14, PermissionAssumption, AppendProperties DEF TypeOK, CanUseTool
  <2>2. pending' \subseteq 1..Len(asked')
    <3>1. Len(asked) \in Nat /\ pending \subseteq 1..Len(asked)
      BY DEF TypeOK
    <3>2. pending' = pending \cup {Len(asked) + 1}
      BY <1>14 DEF CanUseTool
    <3>3. \A n \in Nat : \A P \in SUBSET (1..n) : P \cup {n + 1} \subseteq 1..(n + 1)
      OBVIOUS
    <3>4. pending \cup {Len(asked) + 1} \subseteq 1..(Len(asked) + 1)
      BY <3>1, <3>3
    <3>. QED  BY <2>1, <3>2, <3>4
  <2>3. Len(asked) + 1 \in Ids /\ q.turn \in Turns /\ toRust[q.turn] \in Seq(Ids)
    BY <2>1, PermissionAssumption, RequestType DEF Ids, TypeOK
  <2>4. toRust' \in [Turns -> Seq(Ids)]
    <3>1. Append(toRust[q.turn], Len(asked) + 1) \in Seq(Ids)
      BY <2>3, AppendProperties
    <3>. QED  BY <1>14, <2>3, <3>1 DEF TypeOK, CanUseTool
  <2>5. UNCHANGED <<uiVars, toUI, rules, verdict, decided, toNode>>
    BY <1>14 DEF CanUseTool
  <2>6. \A u \in 1..Len(asked') : asked'[u].turn \in 1..Len(turn')
    <3>1. asked \in Seq(Request) /\ asked' = Append(asked, q) /\ q.turn \in 1..Len(turn)
          /\ turn' = turn
      BY <1>14 DEF TypeOK, CanUseTool, turnVars
    <3>2. \A u \in 1..Len(asked') : u \in 1..Len(asked) \/ u = Len(asked) + 1
      BY <2>1, <3>1
    <3>3. /\ \A u \in 1..Len(asked) : asked'[u] = asked[u]
          /\ asked'[Len(asked) + 1] = q
      BY <3>1, AppendProperties
    <3>. QED  BY <3>1, <3>2, <3>3 DEF TypeOK
  <2>. QED  BY <2>1, <2>2, <2>4, <2>5, <2>6 DEF TypeOK, turnVars
<1>15. CASE UNCHANGED vars
  BY <1>15 DEF TypeOK, vars
<1>. QED
  BY <1>1, <1>2, <1>3, <1>5, <1>6, <1>7, <1>8, <1>9, <1>10, <1>11, <1>12, <1>13, <1>14,
     <1>15, <1>16, <1>17, <1>18, <1>19, <1>20, <1>21, <1>22 DEF Next

-----------------------------------------------------------------------------
(* Consent.                                                                *)

(* What Consent demands of a request that is allowed.                      *)
Allowed(u) ==
  /\ Showable(u)
  /\ \/ \E a \in answers : a.id = u /\ a.choice[1] = "allow"
     \/ asked[u].tool \in ReadTools /\ asked[u].place = "inside"
     \/ /\ asked[u].tool \notin AskTools
        /\ \E a \in answers : a.choice = <<"allow", "always">> /\ a.tool = asked[u].tool

(* A stored rule that can match and allows goes back to an answer.         *)
RulesAreAnswers ==
  \A r \in rules :
    /\ r.behavior = "allow" /\ r.scope = "always"
         => \E a \in answers : a.choice = <<"allow", "always">> /\ a.tool = r.tool
    /\ r.scope = "session" => r.session = NoSession

CallsAreAnswers == \A c \in inflight : c.answer \in answers

AllowHasConsent ==
  /\ \A i \in DOMAIN toNode : toNode[i].behavior = "allow" => Allowed(toNode[i].id)
  /\ \A u \in Ids : decided[u] = "allow" => Allowed(u)

CInv == OnlyShowable /\ RulesAreAnswers /\ CallsAreAnswers /\ AllowHasConsent

(* What the broker allows has consent, and what it leaves to the user is   *)
(* Showable: the refusals come before the rules and the question.          *)
LEMMA BrokerConsents ==
  ASSUME TypeOK, RulesAreAnswers, NEW u \in 1..Len(asked), NEW v \in Verdicts(asked[u])
  PROVE  /\ v = "allow" => Allowed(u)
         /\ v = "ask" => Showable(u)
<1> DEFINE q == asked[u]
<1>1. q \in Request /\ turn[q.turn].session \in Sessions
  BY AskedType
<1>2. CASE q.tool \in AskTools
  BY <1>2, PermissionAssumption DEF Verdicts, Showable
<1>3. CASE q.tool \notin AskTools /\ q.tool \in WriteTools /\ q.place = "outside"
  BY <1>3 DEF Verdicts
<1>4. CASE q.tool \notin AskTools /\ ~ (q.tool \in WriteTools /\ q.place = "outside")
  <2>1. Showable(u)
    BY <1>4 DEF Showable
  <2>2. CASE q.tool \in ReadTools /\ q.place = "inside"
    BY <2>1, <2>2 DEF Allowed
  <2>3. CASE ~ (q.tool \in ReadTools /\ q.place = "inside")
    <3>1. SUFFICES ASSUME v = "allow"
                   PROVE  Allowed(u)
      BY <2>1
    <3>2. PICK r \in MatchingRules(q) : r.behavior = "allow"
      BY <1>4, <2>3, <3>1 DEF Verdicts
    <3>3. r \in rules /\ r.tool = q.tool /\ r.scope = "always"
      BY <1>1, <3>2, PermissionAssumption DEF MatchingRules, RulesAreAnswers
    <3>4. \E a \in answers : a.choice = <<"allow", "always">> /\ a.tool = q.tool
      BY <3>2, <3>3 DEF RulesAreAnswers
    <3>. QED  BY <1>4, <2>1, <3>4 DEF Allowed
  <2>. QED  BY <2>2, <2>3
<1>. QED  BY <1>2, <1>3, <1>4

(* Asking again and answering more never take a consent away.              *)
LEMMA ConsentGrows ==
  ASSUME TypeOK, answers \subseteq answers',
         asked' = asked \/ \E q \in Request : asked' = Append(asked, q),
         NEW u
  PROVE  /\ Showable(u) => Showable(u)'
         /\ Allowed(u) => Allowed(u)'
<1>1. ASSUME u \in 1..Len(asked)
      PROVE  u \in 1..Len(asked') /\ asked'[u] = asked[u]
  <2>1. asked \in Seq(Request)
    BY DEF TypeOK
  <2>2. ASSUME NEW q \in Request, asked' = Append(asked, q)
        PROVE  u \in 1..Len(asked') /\ asked'[u] = asked[u]
    BY <1>1, <2>1, <2>2
  <2>. QED  BY <1>1, <2>2
<1>. QED  BY <1>1 DEF Showable, Allowed

(* Most steps do not touch what the user can answer.                       *)
LEMMA ShowableFrame ==
  ASSUME TypeOK, OnlyShowable,
         asked' = asked \/ \E q \in Request : asked' = Append(asked, q),
         answers' = answers,
         slot' # 0 => Showable(slot'),
         \A u \in diffTabs' : Showable(u),
         \A i \in DOMAIN toUI' : toUI'[i].kind = "ask" => Showable(toUI'[i].id),
         \A i \in Turns : \A n \in DOMAIN toRust'[i] : toRust'[i][n] \in 1..Len(asked'),
         \A u \in Ids : verdict'[u] # "none" => u \in 1..Len(asked)
  PROVE  OnlyShowable'
<1>1. \A u : Showable(u) => Showable(u)'
  BY ConsentGrows
<1>2. Len(asked) \in Nat /\ Len(asked') \in Nat /\ Len(asked) <= Len(asked')
  BY DEF TypeOK
<1>3. \A u \in Ids : verdict'[u] # "none" => u \in 1..Len(asked')
  BY <1>2
<1>. QED  BY <1>1, <1>3 DEF OnlyShowable

(* Every step keeps the answers and the requests.                          *)
LEMMA StepGrows ==
  ASSUME [Next]_vars
  PROVE  /\ answers \subseteq answers'
         /\ asked' = asked \/ \E q \in Request : asked' = Append(asked, q)
BY DEF Next, vars, turnVars, uiVars, rustVars, nodeVars, SelectSession, Compose, BeginResend,
       Resend, GiveUpResend, SendMessage, StartTurn, SendFails, TakeRequest, CloseTurn,
       Interrupt, FinishTurn, Deliver, ViewDiff, HandlePermissionResponse, Respond,
       PersistRule, SendResponse, Responded, DeleteRule, CanUseTool

(* The slot and the diff tabs stay within what the user may be shown.      *)
LEMMA NextShowable == TypeOK /\ CInv /\ [Next]_vars => OnlyShowable'
<1> SUFFICES ASSUME TypeOK, CInv, [Next]_vars
             PROVE  OnlyShowable'
  OBVIOUS
<1> USE DEF turnVars, uiVars, rustVars, nodeVars
<1>0. /\ OnlyShowable
      /\ asked' = asked \/ \E q \in Request : asked' = Append(asked, q)
  BY StepGrows DEF CInv
<1>1. ASSUME NEW s \in Sessions, SelectSession(s)
      PROVE  OnlyShowable'
  BY <1>0, <1>1 DEF OnlyShowable, Showable, SelectSession
<1>2. ASSUME NEW i \in 1..Len(turn), Interrupt(i)
      PROVE  OnlyShowable'
  BY <1>0, <1>2 DEF OnlyShowable, Showable, Interrupt
<1>3. ASSUME UNCHANGED <<slot, diffTabs, answers, toRust, toUI, verdict, asked>>
      PROVE  OnlyShowable'
  BY <1>0, <1>3 DEF OnlyShowable, Showable
<1>4. ASSUME NEW i \in 1..Len(turn), CloseTurn(i)
      PROVE  OnlyShowable'
  <2>1. toUI \in Seq(Event) /\ [kind |-> "closed", turn |-> i] \in Event
    BY PermissionAssumption DEF TypeOK, Event, Turns
  <2>2. \A n \in DOMAIN toUI' : toUI'[n].kind = "ask" => Showable(toUI'[n].id)
    BY <1>0, <1>4, <2>1, AppendProperties DEF OnlyShowable, CloseTurn
  <2>. QED  BY <1>0, <1>4, <2>2, ShowableFrame DEF OnlyShowable, CloseTurn
<1>5. CASE Deliver
  <2>1. /\ 1 \in DOMAIN toUI /\ Head(toUI) = toUI[1]
        /\ \A i \in DOMAIN toUI' : i + 1 \in DOMAIN toUI /\ toUI'[i] = toUI[i + 1]
    BY <1>5, HeadTailProperties DEF TypeOK, Deliver
  <2>2. \A i \in DOMAIN toUI' : toUI'[i].kind = "ask" => Showable(toUI'[i].id)
    BY <1>0, <2>1 DEF OnlyShowable
  <2>3. (slot' # 0 => Showable(slot')) /\ (\A u \in diffTabs' : Showable(u))
    BY <1>0, <1>5, <2>1 DEF OnlyShowable, Deliver, SlotBecomes
  <2>. QED  BY <1>0, <1>5, <2>2, <2>3, ShowableFrame DEF OnlyShowable, Deliver
<1>6. CASE ViewDiff
  BY <1>0, <1>6 DEF OnlyShowable, Showable, ViewDiff
<1>7. ASSUME NEW i \in 1..Len(turn), TakeRequest(i)
      PROVE  OnlyShowable'
  <2>0. PICK u : u = Head(toRust[i])
    OBVIOUS
  <2>1. i \in Turns /\ toRust[i] \in Seq(Ids) /\ toRust \in [Turns -> Seq(Ids)]
    <3>1. i \in Turns
      BY PermissionAssumption DEF TypeOK, Turns
    <3>. QED  BY <3>1 DEF TypeOK
  <2>2. /\ 1 \in DOMAIN toRust[i] /\ u = toRust[i][1] /\ u \in Ids
        /\ \A n \in DOMAIN Tail(toRust[i]) :
             n + 1 \in DOMAIN toRust[i] /\ Tail(toRust[i])[n] = toRust[i][n + 1]
    BY <1>7, <2>0, <2>1, HeadTailProperties DEF TakeRequest
  <2>3. \A j \in Turns : \A n \in DOMAIN toRust'[j] : toRust'[j][n] \in 1..Len(asked)
    <3>1. \A j \in Turns : toRust'[j] = IF j = i THEN Tail(toRust[i]) ELSE toRust[j]
      BY <1>7, <2>1 DEF TakeRequest
    <3>2. \A n \in DOMAIN Tail(toRust[i]) : Tail(toRust[i])[n] \in 1..Len(asked)
      BY <1>0, <2>1, <2>2 DEF OnlyShowable
    <3>. QED  BY <1>0, <3>1, <3>2 DEF OnlyShowable
  <2>4. u \in 1..Len(asked)
    BY <1>0, <2>1, <2>2 DEF OnlyShowable
  <2>5. PICK v \in Verdicts(asked[u]) :
          /\ verdict' = [verdict EXCEPT ![u] = v]
          /\ toUI' = toUI \/ (v = "ask" /\ toUI' = Append(toUI, [kind |-> "ask", id |-> u]))
    BY <1>7, <2>0 DEF TakeRequest
  <2>6. v = "ask" => Showable(u)
    BY <2>4, BrokerConsents DEF CInv
  <2>7. \A w \in Ids : verdict'[w] # "none" => w \in 1..Len(asked)
    BY <1>0, <2>4, <2>5 DEF OnlyShowable, TypeOK
  <2>8. \A n \in DOMAIN toUI' : toUI'[n].kind = "ask" => Showable(toUI'[n].id)
    <3> DEFINE e == [kind |-> "ask", id |-> u]
    <3>1. toUI \in Seq(Event) /\ e \in Event /\ e.id = u
      BY <2>2 DEF TypeOK, Event
    <3> HIDE DEF e
    <3>2. \A n \in DOMAIN Append(toUI, e) :
            (n \in DOMAIN toUI /\ Append(toUI, e)[n] = toUI[n]) \/ Append(toUI, e)[n] = e
      BY <3>1, AppendProperties
    <3>3. toUI' = toUI \/ (v = "ask" /\ toUI' = Append(toUI, e))
      BY <2>5 DEF e
    <3>. QED  BY <1>0, <2>6, <3>1, <3>2, <3>3 DEF OnlyShowable
  <2>. QED  BY <1>0, <1>7, <2>3, <2>7, <2>8, ShowableFrame DEF OnlyShowable, TakeRequest
<1>8. CASE HandlePermissionResponse
  BY <1>0, <1>8 DEF OnlyShowable, Showable, HandlePermissionResponse
<1>9. ASSUME NEW k \in Calls, NEW u \in Ids, NEW choice \in Choice, Respond(k, u, choice)
      PROVE  OnlyShowable'
  <2>1. Showable(u)
    BY <1>0, <1>9 DEF OnlyShowable, Respond
  <2>2. \A a \in answers' : a \in answers \/ a.id = u
    BY <1>9 DEF Respond
  <2>. QED  BY <1>0, <1>9, <2>1, <2>2 DEF OnlyShowable, Showable, Respond
<1>10. ASSUME NEW c \in inflight, PersistRule(c)
       PROVE  OnlyShowable'
  BY <1>0, <1>10 DEF OnlyShowable, Showable, PersistRule
<1>11. ASSUME NEW c \in inflight, SendResponse(c)
       PROVE  OnlyShowable'
  BY <1>0, <1>11 DEF OnlyShowable, Showable, SendResponse
<1>12. ASSUME NEW c \in inflight, Responded(c)
       PROVE  OnlyShowable'
  BY <1>0, <1>12 DEF OnlyShowable, Showable, Responded, SlotBecomes
<1>13. ASSUME NEW r \in rules, DeleteRule(r)
       PROVE  OnlyShowable'
  BY <1>0, <1>13 DEF OnlyShowable, Showable, DeleteRule
<1>14. ASSUME NEW q \in Request, CanUseTool(q)
       PROVE  OnlyShowable'
  <2>1. Len(asked) \in Nat /\ Len(asked') = Len(asked) + 1 /\ Len(asked') <= MaxPerm
    BY <1>14, PermissionAssumption DEF TypeOK, CanUseTool
  <2>2. Len(asked) + 1 \in Ids /\ q.turn \in Turns /\ toRust \in [Turns -> Seq(Ids)]
    BY <2>1, PermissionAssumption, RequestType DEF Ids, TypeOK
  <2>3. \A i \in Turns : \A n \in DOMAIN toRust'[i] : toRust'[i][n] \in 1..Len(asked')
    <3>1. \A i \in Turns :
            toRust'[i] = IF i = q.turn THEN Append(toRust[i], Len(asked) + 1) ELSE toRust[i]
      BY <1>14, <2>2 DEF CanUseTool
    <3>2. ASSUME NEW i \in Turns, NEW n \in DOMAIN toRust'[i]
          PROVE  \/ n \in DOMAIN toRust[i] /\ toRust'[i][n] = toRust[i][n]
                 \/ toRust'[i][n] = Len(asked) + 1
      <4>1. toRust[i] \in Seq(Ids)
        BY <2>2
      <4>2. CASE i = q.turn
        <5>1. toRust'[i] = Append(toRust[i], Len(asked) + 1)
          BY <3>1, <4>2
        <5>. QED  BY <2>2, <3>2, <4>1, <5>1, AppendProperties
      <4>3. CASE i # q.turn
        BY <3>1, <3>2, <4>3
      <4>. QED  BY <4>2, <4>3
    <3>3. \A n \in 1..Len(asked) : n \in 1..Len(asked')
      BY <2>1
    <3>4. Len(asked) + 1 \in 1..Len(asked')
      BY <2>1
    <3>. QED  BY <1>0, <3>2, <3>3, <3>4 DEF OnlyShowable
  <2>. QED  BY <1>0, <1>14, <2>3, ShowableFrame DEF OnlyShowable, CanUseTool
<1>15. CASE UNCHANGED vars
  BY <1>0, <1>15 DEF OnlyShowable, Showable, vars
<1>. QED
  BY <1>1, <1>2, <1>3, <1>4, <1>5, <1>6, <1>7, <1>8, <1>9, <1>10, <1>11, <1>12, <1>13, <1>14,
     <1>15
  DEF Next, Compose, BeginResend, Resend, GiveUpResend, SendMessage, StartTurn, SendFails,
      FinishTurn

(* Every allowing rule goes back to an answer, and so does every call.     *)
LEMMA NextRules ==
  ASSUME TypeOK, CInv, [Next]_vars
  PROVE  RulesAreAnswers' /\ CallsAreAnswers'
<1> USE DEF turnVars, uiVars, rustVars, nodeVars
<1>0. /\ RulesAreAnswers /\ CallsAreAnswers
      /\ answers \subseteq answers'
  BY StepGrows DEF CInv
<1>1. CASE rules' \subseteq rules /\ \A c \in inflight' : c.answer \in answers'
  BY <1>0, <1>1 DEF RulesAreAnswers, CallsAreAnswers
<1>2. ASSUME NEW c \in inflight, PersistRule(c)
      PROVE  RulesAreAnswers' /\ CallsAreAnswers'
  <2> DEFINE a == c.answer
  <2> DEFINE r == [tool |-> a.tool, scope |-> a.choice[2], behavior |-> a.choice[1],
                   session |-> NoSession]
  <2>1. a \in answers /\ a.choice \in Choice
    BY <1>0 DEF TypeOK, Answer, CallsAreAnswers
  <2>2. \A x \in inflight' : x.answer \in answers'
    <3>1. c \in [answer : Answer, stage : {"clicked", "persisted", "sent"}]
      BY DEF TypeOK
    <3>2. [c EXCEPT !.stage = "persisted"].answer = a
      BY <3>1
    <3>. QED  BY <1>0, <1>2, <2>1, <3>2 DEF PersistRule, AtStage, CallsAreAnswers
  <2>3. r.behavior = "allow" /\ r.scope = "always" => a.choice = <<"allow", "always">>
    BY <2>1 DEF Choice
  <2>4. rules' \subseteq rules \cup {r}
    BY <1>2 DEF PersistRule
  <2>5. RulesAreAnswers'
    BY <1>0, <2>1, <2>3, <2>4 DEF RulesAreAnswers
  <2>. QED  BY <2>2, <2>5 DEF CallsAreAnswers
<1>3. ASSUME NEW c \in inflight, SendResponse(c)
      PROVE  RulesAreAnswers' /\ CallsAreAnswers'
  <2>1. c \in [answer : Answer, stage : {"clicked", "persisted", "sent"}]
    BY DEF TypeOK
  <2>2. [c EXCEPT !.stage = "sent"].answer = c.answer
    BY <2>1
  <2>. QED  BY <1>0, <1>1, <1>3, <2>2 DEF SendResponse, AtStage, CallsAreAnswers
<1>4. ASSUME NEW k \in Calls, NEW u \in Ids, NEW choice \in Choice, Respond(k, u, choice)
      PROVE  RulesAreAnswers' /\ CallsAreAnswers'
  BY <1>0, <1>1, <1>4 DEF Respond, CallsAreAnswers
<1>5. CASE rules' \subseteq rules /\ inflight' \subseteq inflight
  BY <1>0, <1>1, <1>5 DEF CallsAreAnswers
<1>. QED
  BY <1>2, <1>3, <1>4, <1>5
  DEF Next, vars, SelectSession, Compose, BeginResend, Resend, GiveUpResend, SendMessage,
      StartTurn, SendFails, TakeRequest, CloseTurn, Interrupt, FinishTurn, Deliver, ViewDiff,
      HandlePermissionResponse, Responded, DeleteRule, CanUseTool

(* Every allow on its way to the Node process, and every allow that        *)
(* arrived, has consent.                                                   *)
LEMMA NextAllow ==
  ASSUME TypeOK, CInv, [Next]_vars
  PROVE  AllowHasConsent'
<1> USE DEF turnVars, uiVars, rustVars, nodeVars
<1>0. AllowHasConsent /\ \A u : Allowed(u) => Allowed(u)'
  BY StepGrows, ConsentGrows DEF CInv
<1>1. CASE toNode' = toNode /\ decided' = decided
  BY <1>0, <1>1 DEF AllowHasConsent
<1>2. ASSUME NEW i \in 1..Len(turn), TakeRequest(i)
      PROVE  AllowHasConsent'
  <2>0. PICK u : u = Head(toRust[i])
    OBVIOUS
  <2>1. i \in Turns /\ toRust[i] \in Seq(Ids)
    BY PermissionAssumption DEF TypeOK, Turns
  <2>2. 1 \in DOMAIN toRust[i] /\ u = toRust[i][1] /\ u \in Ids
    BY <1>2, <2>0, <2>1, HeadTailProperties DEF TakeRequest
  <2>3. u \in 1..Len(asked)
    BY <2>1, <2>2 DEF CInv, OnlyShowable
  <2>4. PICK v \in Verdicts(asked[u]) :
          \/ toNode' = toNode
          \/ v # "ask" /\ toNode' = Append(toNode, [id |-> u, behavior |-> v])
    BY <1>2, <2>0 DEF TakeRequest
  <2>5. v = "allow" => Allowed(u)
    BY <2>3, BrokerConsents DEF CInv
  <2>6. v \in {"allow", "deny", "ask"}
    BY DEF Verdicts, MatchingRules, TypeOK, Rule
  <2>7. decided' = decided
    BY <1>2 DEF TakeRequest
  <2>8. CASE toNode' = toNode
    BY <1>1, <2>7, <2>8
  <2>9. CASE v # "ask" /\ toNode' = Append(toNode, [id |-> u, behavior |-> v])
    <3> DEFINE d == [id |-> u, behavior |-> v]
    <3>1. d \in [id : Ids, behavior : {"allow", "deny"}]
      BY <2>2, <2>6, <2>9
    <3>2. \A n \in DOMAIN toNode' : (n \in DOMAIN toNode /\ toNode'[n] = toNode[n]) \/ toNode'[n] = d
      BY <2>9, <3>1, AppendProperties DEF TypeOK
    <3>3. \A n \in DOMAIN toNode' : toNode'[n].behavior = "allow" => Allowed(toNode'[n].id)
      BY <1>0, <2>5, <3>2 DEF AllowHasConsent
    <3>. QED  BY <1>0, <2>7, <3>3 DEF AllowHasConsent
  <2>. QED  BY <2>4, <2>8, <2>9
<1>3. CASE HandlePermissionResponse
  <2>1. /\ 1 \in DOMAIN toNode /\ Head(toNode) = toNode[1]
        /\ \A i \in DOMAIN toNode' : i + 1 \in DOMAIN toNode /\ toNode'[i] = toNode[i + 1]
    BY <1>3, HeadTailProperties DEF TypeOK, HandlePermissionResponse
  <2>2. \A i \in DOMAIN toNode' : toNode'[i].behavior = "allow" => Allowed(toNode'[i].id)
    BY <1>0, <2>1 DEF AllowHasConsent
  <2>3. \A u \in Ids : decided'[u] = "allow" => Allowed(u)
    BY <1>0, <1>3, <2>1 DEF AllowHasConsent, HandlePermissionResponse, TypeOK
  <2>. QED  BY <1>0, <2>2, <2>3 DEF AllowHasConsent
<1>4. ASSUME NEW i \in 1..Len(turn), Interrupt(i)
      PROVE  AllowHasConsent'
  <2>1. \A u \in Ids : decided'[u] = "allow" => decided[u] = "allow"
    BY <1>4 DEF Interrupt
  <2>. QED  BY <1>0, <1>4, <2>1 DEF AllowHasConsent, Interrupt
<1>5. ASSUME NEW c \in inflight, SendResponse(c)
      PROVE  AllowHasConsent'
  <2> DEFINE d == [id |-> c.answer.id, behavior |-> c.answer.choice[1]]
  <2>1. c.answer \in answers /\ c.answer \in Answer /\ c.answer.choice \in Choice
    BY DEF TypeOK, Answer, CInv, CallsAreAnswers
  <2>2. d \in [id : Ids, behavior : {"allow", "deny"}]
    BY <2>1, ChoiceType DEF Answer
  <2>3. Showable(c.answer.id)
    BY <2>1 DEF CInv, OnlyShowable
  <2>4. d.behavior = "allow" => Allowed(d.id)
    BY <2>1, <2>3 DEF Allowed
  <2>5. \A i \in DOMAIN toNode' : (i \in DOMAIN toNode /\ toNode'[i] = toNode[i]) \/ toNode'[i] = d
    BY <1>5, <2>2, AppendProperties DEF TypeOK, SendResponse
  <2>6. \A i \in DOMAIN toNode' : toNode'[i].behavior = "allow" => Allowed(toNode'[i].id)
    BY <1>0, <2>4, <2>5 DEF AllowHasConsent
  <2>. QED  BY <1>0, <1>5, <2>6 DEF AllowHasConsent, SendResponse
<1>. QED
  BY <1>1, <1>2, <1>3, <1>4, <1>5
  DEF Next, vars, SelectSession, Compose, BeginResend, Resend, GiveUpResend, SendMessage,
      StartTurn, SendFails, CloseTurn, FinishTurn, Deliver, ViewDiff, Respond, PersistRule,
      Responded, DeleteRule, CanUseTool

(* Nothing has been asked, answered or decided at the start.               *)
LEMMA InitInv == Init => CInv
BY DEF Init, CInv, OnlyShowable, RulesAreAnswers, CallsAreAnswers, AllowHasConsent

(* The inductive invariant of Consent.                                     *)
LEMMA NextInv == TypeOK /\ CInv /\ [Next]_vars => TypeOK' /\ CInv'
BY NextType, NextShowable, NextRules, NextAllow DEF CInv

(* Every variable keeps its type: in particular the answer to a request    *)
(* names the tool of a request that was asked (respondPermission).         *)
THEOREM TypeCorrect == Spec => []TypeOK
<1>1. TypeOK /\ CInv /\ [Next]_vars => (TypeOK /\ CInv)'
  BY NextInv
<1>. QED  BY <1>1, InitType, InitInv, PTL DEF Spec

(* A tool runs only with consent, for any tools, sessions and numbers of   *)
(* requests, answers and rules (PermissionBroker::check).                  *)
THEOREM ConsentHolds == Spec => []Consent
<1>1. TypeOK /\ CInv /\ [Next]_vars => (TypeOK /\ CInv)'
  BY NextInv
<1>2. TypeOK /\ CInv => Consent
  <2>1. SUFFICES ASSUME TypeOK, CInv, NEW u \in 1..Len(asked), decided[u] = "allow"
                 PROVE  Allowed(u)
    BY DEF Consent, Allowed, Showable
  <2>. QED  BY <2>1, AskedType DEF CInv, AllowHasConsent
<1>. QED  BY <1>1, <1>2, InitType, InitInv, PTL DEF Spec

-----------------------------------------------------------------------------
(* ReplyUnderWay.                                                          *)

(* The reply to request u is in the channel, or a call will send it.       *)
Replying(u) ==
  \/ \E i \in DOMAIN toNode : toNode[i].id = u
  \/ \E c \in inflight : c.answer.id = u /\ c.stage # "sent"

Resolved(u) == verdict[u] \in {"allow", "deny"} \/ \E a \in answers : a.id = u

(* A step that decides nothing, answers nothing and takes no reply away.   *)
LEMMA ReplyFrame ==
  ASSUME ReplyUnderWay, pending' \subseteq pending, verdict' = verdict, answers' = answers,
         \A u \in pending' : Replying(u) => Replying(u)'
  PROVE  ReplyUnderWay'
BY DEF ReplyUnderWay, Replying

(* No step loses a decision.                                               *)
LEMMA NextReply ==
  ASSUME TypeOK, CInv, ReplyUnderWay, [Next]_vars
  PROVE  ReplyUnderWay'
<1> USE DEF turnVars, uiVars, rustVars, nodeVars
<1>1. CASE /\ pending' \subseteq pending /\ verdict' = verdict /\ answers' = answers
           /\ toNode' = toNode /\ inflight' = inflight
  BY <1>1, ReplyFrame DEF Replying
<1>2. ASSUME NEW i \in 1..Len(turn), TakeRequest(i)
      PROVE  ReplyUnderWay'
  <2>0. PICK id : id = Head(toRust[i])
    OBVIOUS
  <2>1. id \in Ids
    <3>1. toRust[i] \in Seq(Ids)
      BY PermissionAssumption DEF TypeOK, Turns
    <3>. QED  BY <1>2, <2>0, <3>1, HeadTailProperties DEF TakeRequest
  <2>2. PICK v \in Verdicts(asked[id]) :
          /\ verdict' = [verdict EXCEPT ![id] = v]
          /\ IF v = "ask" THEN UNCHANGED toNode
             ELSE toNode' = Append(toNode, [id |-> id, behavior |-> v])
    BY <1>2, <2>0 DEF TakeRequest
  <2>3. v \in {"allow", "deny", "ask"}
    BY DEF Verdicts, MatchingRules, TypeOK, Rule
  <2>4. \A u \in pending : Replying(u) => Replying(u)'
    <3> DEFINE d == [id |-> id, behavior |-> v]
    <3>1. CASE v = "ask"
      BY <1>2, <2>2, <3>1 DEF Replying, TakeRequest
    <3>2. CASE v # "ask"
      <4>1. d \in [id : Ids, behavior : {"allow", "deny"}]
        BY <2>1, <2>3, <3>2
      <4>2. \A n \in DOMAIN toNode : n \in DOMAIN toNode' /\ toNode'[n] = toNode[n]
        <5>1. toNode \in Seq([id : Ids, behavior : {"allow", "deny"}])
          BY DEF TypeOK
        <5>2. toNode' = Append(toNode, d)
          BY <2>2, <3>2
        <5>. HIDE DEF d
        <5>. QED  BY <4>1, <5>1, <5>2, AppendProperties
      <4>. QED  BY <1>2, <4>2 DEF Replying, TakeRequest
    <3>. QED  BY <3>1, <3>2
  <2>5. v # "ask" => Replying(id)'
    <3> DEFINE d == [id |-> id, behavior |-> v]
    <3>1. SUFFICES ASSUME v # "ask"
                   PROVE  \E n \in DOMAIN toNode' : toNode'[n].id = id
      BY DEF Replying
    <3>2. d \in [id : Ids, behavior : {"allow", "deny"}]
      BY <2>1, <2>3, <3>1
    <3>3. Len(toNode) + 1 \in DOMAIN toNode' /\ toNode'[Len(toNode) + 1] = d
      BY <2>2, <3>1, <3>2, AppendProperties DEF TypeOK
    <3>. QED  BY <3>3
  <2>6. pending' = pending /\ answers' = answers
    BY <1>2 DEF TakeRequest
  <2>7. ASSUME NEW u \in pending', Resolved(u)'
        PROVE  Replying(u)'
    <3>0. u \in Ids
      BY <2>6, AskedType DEF TypeOK
    <3>1. CASE u = id /\ v # "ask"
      BY <2>5, <3>1
    <3>2. CASE u # id \/ v = "ask"
      <4>1. Resolved(u)
        BY <2>2, <2>6, <2>7, <3>0, <3>2 DEF Resolved, TypeOK
      <4>2. Replying(u)
        BY <2>6, <4>1 DEF ReplyUnderWay, Resolved, Replying
      <4>. QED  BY <2>4, <2>6, <4>2
    <3>. QED  BY <3>1, <3>2
  <2>. QED  BY <2>7 DEF ReplyUnderWay, Resolved, Replying
<1>3. CASE HandlePermissionResponse
  <2>1. /\ Head(toNode) = toNode[1]
        /\ \A i \in DOMAIN toNode : i # 1 => i - 1 \in DOMAIN toNode' /\ toNode'[i - 1] = toNode[i]
    BY <1>3, HeadTailProperties DEF TypeOK, HandlePermissionResponse
  <2>2. \A u \in pending' : u \in pending /\ u # toNode[1].id
    BY <1>3, <2>1 DEF HandlePermissionResponse
  <2>3. ASSUME NEW u \in pending', Replying(u)
        PROVE  Replying(u)'
    <3>1. CASE \E i \in DOMAIN toNode : toNode[i].id = u
      <4>1. PICK i \in DOMAIN toNode : toNode[i].id = u
        BY <3>1
      <4>2. i # 1
        BY <2>2, <4>1
      <4>. QED  BY <2>1, <4>1, <4>2 DEF Replying
    <3>2. CASE \E c \in inflight : c.answer.id = u /\ c.stage # "sent"
      BY <1>3, <3>2 DEF Replying, HandlePermissionResponse
    <3>. QED  BY <2>3, <3>1, <3>2 DEF Replying
  <2>. QED  BY <1>3, <2>2, <2>3, ReplyFrame DEF HandlePermissionResponse
<1>4. ASSUME NEW k \in Calls, NEW u \in Ids, NEW choice \in Choice, Respond(k, u, choice)
      PROVE  ReplyUnderWay'
  <2> DEFINE a == [call |-> k, id |-> u, choice |-> choice,
                   tool |-> IF slot = 0 THEN NoTool ELSE asked[slot].tool]
  <2>1. /\ inflight' = inflight \cup {[answer |-> a, stage |-> "clicked"]}
        /\ answers' = answers \cup {a}
        /\ pending' = pending /\ verdict' = verdict /\ toNode' = toNode
    BY <1>4 DEF Respond
  <2>2. a.id = u /\ [answer |-> a, stage |-> "clicked"].answer.id = u
        /\ [answer |-> a, stage |-> "clicked"].stage # "sent"
    OBVIOUS
  <2> HIDE DEF a
  <2>3. ASSUME NEW w \in pending', Resolved(w)'
        PROVE  Replying(w)'
    <3>1. CASE w = u
      BY <2>1, <2>2, <3>1 DEF Replying
    <3>2. CASE w # u
      <4>1. Resolved(w)
        BY <2>1, <2>2, <2>3, <3>2 DEF Resolved
      <4>. QED  BY <2>1, <4>1 DEF ReplyUnderWay, Resolved, Replying
    <3>. QED  BY <3>1, <3>2
  <2>. QED  BY <2>3 DEF ReplyUnderWay, Resolved, Replying
<1>5. ASSUME NEW c \in inflight, PersistRule(c)
      PROVE  ReplyUnderWay'
  <2> DEFINE d == [c EXCEPT !.stage = "persisted"]
  <2>1. d.answer = c.answer /\ d.stage # "sent"
    BY DEF TypeOK
  <2>2. inflight' = (inflight \ {c}) \cup {d}
    BY <1>5 DEF PersistRule, AtStage
  <2> HIDE DEF d
  <2>3. \A u \in pending : Replying(u) => Replying(u)'
    BY <1>5, <2>1, <2>2 DEF Replying, PersistRule
  <2>. QED  BY <1>5, <2>3, ReplyFrame DEF PersistRule
<1>6. ASSUME NEW c \in inflight, SendResponse(c)
      PROVE  ReplyUnderWay'
  <2> DEFINE d == [id |-> c.answer.id, behavior |-> c.answer.choice[1]]
  <2>1. c.answer \in Answer /\ c.answer.choice \in Choice
    BY DEF TypeOK, Answer
  <2>2. d \in [id : Ids, behavior : {"allow", "deny"}] /\ d.id = c.answer.id
    BY <2>1, ChoiceType DEF Answer
  <2>3. /\ \A i \in DOMAIN toNode : i \in DOMAIN toNode' /\ toNode'[i] = toNode[i]
        /\ Len(toNode) + 1 \in DOMAIN toNode' /\ toNode'[Len(toNode) + 1] = d
    BY <1>6, <2>2, AppendProperties DEF TypeOK, SendResponse
  <2>4. inflight \ {c} \subseteq inflight'
    BY <1>6 DEF SendResponse, AtStage
  <2>5. ASSUME NEW u \in pending', Replying(u)
        PROVE  Replying(u)'
    <3>1. CASE \E i \in DOMAIN toNode : toNode[i].id = u
      BY <2>3, <3>1 DEF Replying
    <3>2. CASE \E x \in inflight : x.answer.id = u /\ x.stage # "sent"
      BY <2>2, <2>3, <2>4, <3>2 DEF Replying
    <3>. QED  BY <2>5, <3>1, <3>2 DEF Replying
  <2>. QED  BY <1>6, <2>5, ReplyFrame DEF SendResponse
<1>7. ASSUME NEW c \in inflight, Responded(c)
      PROVE  ReplyUnderWay'
  <2>1. \A u \in pending : Replying(u) => Replying(u)'
    BY <1>7 DEF Replying, Responded
  <2>. QED  BY <1>7, <2>1, ReplyFrame DEF Responded
<1>8. ASSUME NEW q \in Request, CanUseTool(q)
      PROVE  ReplyUnderWay'
  <2> DEFINE n == Len(asked) + 1
  <2>1. n \in Ids /\ n \notin 1..Len(asked)
    BY <1>8, PermissionAssumption DEF TypeOK, Ids, CanUseTool
  <2>2. ~ Resolved(n)
    BY <2>1 DEF Resolved, CInv, OnlyShowable, Showable
  <2>3. /\ pending' = pending \cup {n}
        /\ verdict' = verdict /\ answers' = answers /\ toNode' = toNode /\ inflight' = inflight
    BY <1>8 DEF CanUseTool
  <2> HIDE DEF n
  <2>. QED  BY <2>2, <2>3 DEF ReplyUnderWay, Resolved
<1>. QED
  BY <1>1, <1>2, <1>3, <1>4, <1>5, <1>6, <1>7, <1>8
  DEF Next, vars, SelectSession, Compose, BeginResend, Resend, GiveUpResend, SendMessage,
      StartTurn, SendFails, CloseTurn, Interrupt, FinishTurn, Deliver, ViewDiff, DeleteRule

(* No decision is lost on its way to the Node process, for any number of   *)
(* requests and answers in flight (respond_chat_permission, and the arm of *)
(* send_chat_message that the broker decides).                             *)
THEOREM ReplyUnderWayHolds == Spec => []ReplyUnderWay
<1>1. Init => ReplyUnderWay
  BY DEF Init, ReplyUnderWay
<1>2. TypeOK /\ CInv /\ ReplyUnderWay /\ [Next]_vars => (TypeOK /\ CInv /\ ReplyUnderWay)'
  BY NextInv, NextReply
<1>. QED  BY <1>1, <1>2, InitType, InitInv, PTL DEF Spec

-----------------------------------------------------------------------------
(* ComposerLocked.                                                         *)

Held == {i \in 1..Len(turn) : turn[i].stage # "over"}

(* An event of the end of a turn names a turn that there was; and without  *)
(* late turns at most one is not over, and only while the composer is      *)
(* locked.                                                                 *)
EndsOfTurns == \A n \in DOMAIN toUI : toUI[n].kind = "closed" => toUI[n].turn \in 1..Len(turn)

OneTurn ==
  (\A i \in 1..Len(turn) : ~turn[i].late) =>
    /\ \A i, j \in Held : i = j
    /\ Held # {} => streaming

(* Turns keep what they were sent as.                                      *)
LEMMA StageFrame ==
  ASSUME TypeOK, OneTurn, NEW i \in 1..Len(turn), NEW from \in {"sending", "running", "ended"},
         NEW to \in {"running", "ended", "closed"}, StageBecomes(i, from, to),
         streaming' = streaming
  PROVE  OneTurn'
<1>1. /\ Len(turn') = Len(turn)
      /\ \A j \in 1..Len(turn) : /\ turn'[j].late = turn[j].late
                                 /\ turn'[j].stage = IF j = i THEN to ELSE turn[j].stage
  BY StageOfTurn
<1>2. turn[i].stage = from
  BY DEF StageBecomes
<1>3. Held' = Held
  BY <1>1, <1>2 DEF Held
<1>. QED  BY <1>1, <1>3 DEF OneTurn

(* A turn that ends for the user was the only one.                         *)
LEMMA OverFrame ==
  ASSUME TypeOK, OneTurn, NEW i \in 1..Len(turn), NEW from \in {"sending", "closed"},
         StageBecomes(i, from, "over")
  PROVE  OneTurn'
<1>1. /\ Len(turn') = Len(turn)
      /\ \A j \in 1..Len(turn) : /\ turn'[j].late = turn[j].late
                                 /\ turn'[j].stage = IF j = i THEN "over" ELSE turn[j].stage
  BY StageOfTurn
<1>2. i \in Held
  BY DEF Held, StageBecomes
<1>3. Held' = Held \ {i}
  BY <1>1 DEF Held
<1>. QED  BY <1>1, <1>2, <1>3 DEF OneTurn

(* A turn that is not late is sent when none is left.                      *)
LEMMA SendFrame ==
  ASSUME TypeOK, EndsOfTurns, OneTurn, SendMessage
  PROVE  EndsOfTurns' /\ OneTurn'
<1>1. /\ Len(turn) \in Nat /\ Len(turn') = Len(turn) + 1
      /\ \A j \in 1..Len(turn) : turn'[j] = turn[j]
      /\ turn'[Len(turn) + 1] = [session |-> active, stage |-> "sending", late |-> streaming]
  BY SendTurn DEF TypeOK
<1>2. streaming' /\ toUI' = toUI
  BY DEF SendMessage, rustVars
<1>3. \A j \in 1..Len(turn) : j \in 1..Len(turn')
  BY <1>1
<1>4. EndsOfTurns'
  BY <1>2, <1>3 DEF EndsOfTurns
<1>5. ASSUME \A j \in 1..Len(turn') : ~turn'[j].late
      PROVE  Held' = {Len(turn) + 1}
  <2>1. \A j \in 1..Len(turn) : ~turn[j].late
    BY <1>1, <1>3, <1>5
  <2>2. ~streaming
    BY <1>1, <1>5
  <2>3. Held = {}
    BY <2>1, <2>2 DEF OneTurn
  <2>4. \A j \in 1..Len(turn') : j \in 1..Len(turn) \/ j = Len(turn) + 1
    BY <1>1
  <2>5. Len(turn) + 1 \in 1..Len(turn')
    BY <1>1
  <2>. QED  BY <1>1, <2>3, <2>4, <2>5 DEF Held
<1>. QED  BY <1>2, <1>4, <1>5 DEF OneTurn

(* Every step leaves at most one turn.                                     *)
LEMMA NextTurn ==
  ASSUME TypeOK, EndsOfTurns, OneTurn, [Next]_vars
  PROVE  EndsOfTurns' /\ OneTurn'
<1> USE DEF turnVars, uiVars, rustVars, nodeVars
<1>1. CASE turn' = turn /\ toUI' = toUI /\ streaming' = streaming
  BY <1>1 DEF OneTurn, EndsOfTurns, Held
<1>2. CASE Compose \/ Resend
  BY <1>2, SendFrame DEF Compose, Resend
<1>3. ASSUME NEW i \in 1..Len(turn), StartTurn(i) \/ FinishTurn(i)
      PROVE  EndsOfTurns' /\ OneTurn'
  <2>1. /\ StageBecomes(i, "sending", "running") \/ StageBecomes(i, "running", "ended")
        /\ streaming' = streaming /\ toUI' = toUI
    BY <1>3 DEF StartTurn, FinishTurn
  <2>2. Len(turn') = Len(turn)
    BY <2>1, StageOfTurn
  <2>3. OneTurn'
    BY <2>1, StageFrame
  <2>. QED  BY <2>1, <2>2, <2>3 DEF EndsOfTurns
<1>4. ASSUME NEW i \in 1..Len(turn), SendFails(i)
      PROVE  EndsOfTurns' /\ OneTurn'
  <2>1. StageBecomes(i, "sending", "over") /\ toUI' = toUI
    BY <1>4 DEF SendFails
  <2>2. Len(turn') = Len(turn)
    BY <2>1, StageOfTurn
  <2>3. OneTurn'
    BY <2>1, OverFrame
  <2>. QED  BY <2>1, <2>2, <2>3 DEF EndsOfTurns
<1>5. ASSUME NEW i \in 1..Len(turn), CloseTurn(i)
      PROVE  EndsOfTurns' /\ OneTurn'
  <2>1. StageBecomes(i, "ended", "closed") /\ streaming' = streaming
        /\ toUI' = Append(toUI, [kind |-> "closed", turn |-> i])
    BY <1>5 DEF CloseTurn
  <2>2. Len(turn') = Len(turn)
    BY <2>1, StageOfTurn
  <2>3. EndsOfTurns'
    <3> DEFINE e == [kind |-> "closed", turn |-> i]
    <3>1. toUI \in Seq(Event) /\ e \in Event /\ e.turn = i
      BY PermissionAssumption DEF TypeOK, Event, Turns
    <3> HIDE DEF e
    <3>2. \A n \in DOMAIN Append(toUI, e) :
            (n \in DOMAIN toUI /\ Append(toUI, e)[n] = toUI[n]) \/ Append(toUI, e)[n] = e
      BY <3>1, AppendProperties
    <3>3. toUI' = Append(toUI, e)
      BY <2>1 DEF e
    <3>. QED  BY <2>2, <3>1, <3>2, <3>3 DEF EndsOfTurns
  <2>. QED  BY <2>1, <2>3, StageFrame
<1>6. CASE Deliver
  <2>0. PICK m : m = Head(toUI)
    OBVIOUS
  <2>1. /\ 1 \in DOMAIN toUI /\ m = toUI[1]
        /\ \A n \in DOMAIN toUI' : n + 1 \in DOMAIN toUI /\ toUI'[n] = toUI[n + 1]
    BY <1>6, <2>0, HeadTailProperties DEF TypeOK, Deliver
  <2>2. CASE turn' = turn /\ streaming' = streaming
    BY <2>1, <2>2 DEF OneTurn, EndsOfTurns, Held
  <2>3. CASE m.kind = "closed" /\ StageBecomes(m.turn, "closed", "over")
    <3>1. m.turn \in 1..Len(turn)
      BY <2>1, <2>3 DEF EndsOfTurns
    <3>2. Len(turn') = Len(turn)
      BY <2>3, StageOfTurn
    <3>3. OneTurn'
      BY <2>3, <3>1, OverFrame
    <3>. QED  BY <2>1, <3>2, <3>3 DEF EndsOfTurns
  <2>. QED  BY <1>6, <2>0, <2>2, <2>3 DEF Deliver
<1>7. ASSUME NEW i \in 1..Len(turn), TakeRequest(i)
      PROVE  EndsOfTurns' /\ OneTurn'
  <2>0. PICK e : e = [kind |-> "ask", id |-> Head(toRust[i])]
    OBVIOUS
  <2>1. turn' = turn /\ streaming' = streaming /\ (toUI' = toUI \/ toUI' = Append(toUI, e))
    BY <1>7, <2>0 DEF TakeRequest
  <2>2. toUI \in Seq(Event) /\ e \in Event /\ e.kind = "ask"
    <3>1. toRust[i] \in Seq(Ids) /\ toRust[i] # <<>>
      BY <1>7, PermissionAssumption DEF TypeOK, Turns, TakeRequest
    <3>2. Head(toRust[i]) \in Ids
      BY <3>1, HeadTailProperties
    <3>. QED  BY <2>0, <3>2 DEF TypeOK, Event
  <2>3. \A n \in DOMAIN Append(toUI, e) :
          (n \in DOMAIN toUI /\ Append(toUI, e)[n] = toUI[n]) \/ Append(toUI, e)[n] = e
    BY <2>2, AppendProperties
  <2>4. EndsOfTurns'
    BY <2>1, <2>2, <2>3 DEF EndsOfTurns
  <2>. QED  BY <2>1, <2>4 DEF OneTurn, Held
<1>. QED
  BY <1>1, <1>2, <1>3, <1>4, <1>5, <1>6, <1>7
  DEF Next, vars, SelectSession, BeginResend, GiveUpResend, Interrupt, ViewDiff,
      HandlePermissionResponse, Respond, PersistRule, SendResponse, Responded, DeleteRule,
      CanUseTool

(* As long as no turn is sent late, one turn is under way at a time and    *)
(* the composer is locked meanwhile, for any number of sessions, turns and *)
(* calls that send again (sendMessage and its catch, selectSession, the    *)
(* listeners of the chat store).                                           *)
THEOREM ComposerLockedHolds == Spec => []ComposerLocked
<1>1. Init => EndsOfTurns /\ OneTurn
  BY DEF Init, EndsOfTurns, OneTurn, Held
<1>2. TypeOK /\ CInv /\ EndsOfTurns /\ OneTurn /\ [Next]_vars
      => (TypeOK /\ CInv /\ EndsOfTurns /\ OneTurn)'
  BY NextInv, NextTurn
<1>3. OneTurn => ComposerLocked
  BY DEF OneTurn, ComposerLocked, Held, UnderWay
<1>. QED  BY <1>1, <1>2, <1>3, InitType, InitInv, PTL DEF Spec

-----------------------------------------------------------------------------
(* EditorSession.                                                          *)

(* A call is a write or a reload of some kind; a write has an edit.         *)
LEMMA CallKinds ==
  ASSUME NEW c \in Call
  PROVE  /\ c.kind \in {"write", "reload", "refresh"}
         /\ c.file \in Files
         /\ c.kind = "write" => c.edit \in Edit
BY DEF Call

(* A write and a reload of a note are calls.                               *)
LEMMA CallTypes ==
  ASSUME NEW f \in Files
  PROVE  /\ \A e \in Edit : Write(f, e) \in Call
         /\ \A kind \in {"reload", "refresh"} : [kind |-> kind, file |-> f] \in Call
BY DEF Call, Write

(* Taking an element out of a sequence keeps its type.                     *)
LEMMA RemoveAtType ==
  ASSUME NEW T, NEW s \in Seq(T), NEW i \in DOMAIN s
  PROVE  RemoveAt(s, i) \in Seq(T)
<1>1. i \in 1..Len(s)
  OBVIOUS
<1>2. SubSeq(s, 1, i - 1) \in Seq(T)
  BY <1>1
<1>3. SubSeq(s, i + 1, Len(s)) \in Seq(T)
  BY <1>1
<1>. QED  BY <1>2, <1>3 DEF RemoveAt

(* The initial state has its types.                                        *)
LEMMA InitTypeOK == EditorInit => EditorTypeOK
BY EditorAssumption DEF EditorInit, EditorTypeOK, Edit, Call, Reply

(* A change of the text in the editor keeps the types of what it touches.  *)
LEMMA ChangeType ==
  ASSUME EditorTypeOK, NEW f \in Files, NEW text \in Text, HandleEditorChange(f, text)
  PROVE  /\ changes' \in 0..MaxChanges
         /\ content' \in [Files -> Edit]
         /\ unsaved' \subseteq Files
         /\ timer' \in [file : Files, edit : Edit] \cup {NoTimer}
<1>. USE EditorAssumption DEF EditorTypeOK
<1>1. changes' \in 0..MaxChanges
  BY DEF HandleEditorChange, Changed
<1>2. [text |-> text, at |-> changes'] \in Edit
  BY <1>1 DEF Edit
<1>3. content' = [content EXCEPT ![f] = [text |-> text, at |-> changes']]
  BY DEF HandleEditorChange, Changed
<1>4. content' \in [Files -> Edit]
  BY <1>2, <1>3
<1>5. unsaved' \subseteq Files
  BY DEF HandleEditorChange, Changed
<1>6. timer' \in [file : Files, edit : Edit] \cup {NoTimer}
  BY <1>4 DEF HandleEditorChange, RestartTimer
<1>. QED  BY <1>1, <1>4, <1>5, <1>6

(* Every step keeps the types.                                             *)
LEMMA NextTypeOK ==
  ASSUME EditorTypeOK, [EditorNext]_sessionVars
  PROVE  EditorTypeOK'
<1>. USE EditorAssumption DEF EditorTypeOK
<1>1. CASE Type
  <2>1. PICK text \in Text : HandleEditorChange(shown, text)
    BY <1>1 DEF Type
  <2>3. /\ changes' \in 0..MaxChanges
        /\ content' \in [Files -> Edit]
        /\ unsaved' \subseteq Files
        /\ timer' \in [file : Files, edit : Edit] \cup {NoTimer}
    BY <2>1, ChangeType
  <2>. QED  BY <1>1, <2>3 DEF Type, diskVars, callVars, watchVars
<1>2. CASE AutoSaveFires
  <2>1. timer \in [file : Files, edit : Edit] /\ timer' = NoTimer
    BY <1>2 DEF AutoSaveFires
  <2>2. Write(timer.file, timer.edit) \in Call
    BY <2>1, CallTypes
  <2>3. Append(calls, Write(timer.file, timer.edit)) \in Seq(Call)
    BY <2>2, AppendProperties
  <2>4. calls' \in Seq(Call)
    BY <1>2, <2>3 DEF AutoSaveFires, Invoke
  <2>. QED  BY <1>2, <2>1, <2>4 DEF AutoSaveFires, diskVars, watchVars
<1>3. CASE ForceSave
  <2>1. Write(shown, content[shown]) \in Call
    BY CallTypes
  <2>2. Append(calls, Write(shown, content[shown])) \in Seq(Call)
    BY <2>1, AppendProperties
  <2>. QED  BY <1>3, <2>2 DEF ForceSave, Invoke, diskVars, editVars, watchVars
<1>4. CASE ResolveConflict
  <2>1. [kind |-> "reload", file |-> shown] \in Call
    BY CallTypes
  <2>2. Append(calls, [kind |-> "reload", file |-> shown]) \in Seq(Call)
    BY <2>1, AppendProperties
  <2>3. calls' \in Seq(Call) /\ conflict' \subseteq Files
    BY <1>4, <2>2 DEF ResolveConflict, Invoke
  <2>. QED  BY <1>4, <2>3 DEF ResolveConflict, diskVars, watchVars
<1>5. CASE Resume
  <2>1. PICK i \in DOMAIN replies :
          /\ replies' = RemoveAt(replies, i)
          /\ IF replies[i].kind = "write"
               THEN unsaved' = unsaved \ {replies[i].file} /\ UNCHANGED conflict
               ELSE conflict' = conflict \ {replies[i].file} /\ UNCHANGED unsaved
          /\ UNCHANGED <<diskVars, shown, content, changes, timer, calls, watchVars>>
    BY <1>5 DEF Resume
  <2>2. replies' \in Seq(Reply)
    BY <2>1, RemoveAtType
  <2>3. unsaved' \subseteq Files /\ conflict' \subseteq Files
    BY <2>1
  <2>. QED  BY <2>1, <2>2, <2>3 DEF diskVars, watchVars
<1>6. CASE Reloaded
  <2>1. reloads' \in Seq([file : Files, text : Text])
    BY <1>6, HeadTailProperties DEF Reloaded
  <2>2. Head(reloads) \in [file : Files, text : Text]
    BY <1>6, HeadTailProperties DEF Reloaded
  <2>3. /\ changes' \in 0..MaxChanges
        /\ content' \in [Files -> Edit]
        /\ unsaved' \subseteq Files
        /\ timer' \in [file : Files, edit : Edit] \cup {NoTimer}
    <3>1. CASE HandleEditorChange(Head(reloads).file, Head(reloads).text)
      BY <2>2, <3>1, ChangeType
    <3>2. CASE UNCHANGED <<content, changes, unsaved, timer>>
      BY <3>2
    <3>. QED  BY <1>6, <3>1, <3>2 DEF Reloaded
  <2>4. conflict' \subseteq Files
    BY <1>6, <2>2 DEF Reloaded
  <2>. QED  BY <1>6, <2>1, <2>3, <2>4 DEF Reloaded, diskVars, callVars
<1>7. ASSUME NEW f \in Files, SelectTab(f)
      PROVE  EditorTypeOK'
  BY <1>7 DEF SelectTab, diskVars, editVars, callVars, watchVars
<1>8. CASE WriteNote
  <2>1. calls' \in Seq(Call) /\ Head(calls) \in Call
    BY <1>8, HeadTailProperties DEF WriteNote
  <2>2. Head(calls).file \in Files /\ Head(calls).edit \in Edit
    BY <1>8, <2>1, CallKinds DEF WriteNote
  <2>3. Head(calls).edit.text \in Text /\ Head(calls).edit.at \in 0..MaxChanges
    BY <2>2 DEF Edit
  <2>4. [kind |-> "write", file |-> Head(calls).file] \in Reply
    BY <2>2 DEF Reply
  <2>5. Append(replies, [kind |-> "write", file |-> Head(calls).file]) \in Seq(Reply)
    BY <2>4, AppendProperties
  <2>6. replies' \in Seq(Reply)
    BY <1>8, <2>5 DEF WriteNote
  <2>7. disk' \in [Files -> Text] /\ modified' \subseteq Files
    BY <1>8, <2>2, <2>3 DEF WriteNote
  <2>8. saved' \in [Files -> 0..MaxChanges] /\ muted' \subseteq Files
    BY <1>8, <2>2, <2>3 DEF WriteNote
  <2>. QED  BY <1>8, <2>1, <2>6, <2>7, <2>8 DEF WriteNote, editVars
<1>9. CASE ForceReloadFile
  <2>1. calls' \in Seq(Call) /\ Head(calls) \in Call
    BY <1>9, HeadTailProperties DEF ForceReloadFile
  <2>2. Head(calls).file \in Files
    BY <2>1, CallKinds
  <2>3. [kind |-> "reload", file |-> Head(calls).file] \in Reply
    BY <2>2 DEF Reply
  <2>4. Append(replies, [kind |-> "reload", file |-> Head(calls).file]) \in Seq(Reply)
    BY <2>3, AppendProperties
  <2>5. [file |-> Head(calls).file, text |-> disk[Head(calls).file]] \in [file : Files, text : Text]
    BY <2>2
  <2>6. Append(reloads, [file |-> Head(calls).file, text |-> disk[Head(calls).file]])
          \in Seq([file : Files, text : Text])
    BY <2>5, AppendProperties
  <2>. QED  BY <1>9, <2>1, <2>4, <2>6 DEF ForceReloadFile, diskVars, editVars
<1>10. ASSUME NEW f \in Files, ToolUpdated(f)
       PROVE  EditorTypeOK'
  <2>1. [kind |-> "refresh", file |-> f] \in Call
    BY CallTypes
  <2>2. Append(calls, [kind |-> "refresh", file |-> f]) \in Seq(Call)
    BY <2>1, AppendProperties
  <2>. QED  BY <1>10, <2>2 DEF ToolUpdated, Invoke, diskVars, editVars, watchVars
<1>11. ASSUME NEW f \in Files, Watch(f)
       PROVE  EditorTypeOK'
  <2>1. [file |-> f, text |-> disk[f]] \in [file : Files, text : Text]
    OBVIOUS
  <2>2. Append(reloads, [file |-> f, text |-> disk[f]]) \in Seq([file : Files, text : Text])
    BY <2>1, AppendProperties
  <2>. QED  BY <1>11, <2>2 DEF Watch, diskVars, editVars, callVars
<1>12. ASSUME NEW f \in Files, ExternalWrite(f)
       PROVE  EditorTypeOK'
  <2>1. disk' \in [Files -> Text]
    BY <1>12 DEF ExternalWrite
  <2>. QED  BY <1>12, <2>1 DEF ExternalWrite, editVars, callVars
<1>13. CASE UNCHANGED sessionVars
  BY <1>13 DEF sessionVars, diskVars, editVars, callVars, watchVars
<1>. QED
  BY <1>1, <1>2, <1>3, <1>4, <1>5, <1>6, <1>7, <1>8, <1>9, <1>10, <1>11, <1>12, <1>13
     DEF EditorNext, FrontEnd, BackEnd

(* Every variable keeps its type.                                          *)
THEOREM EditorTypeCorrect == EditorSpec => []EditorTypeOK
<1>. QED  BY InitTypeOK, NextTypeOK, PTL DEF EditorSpec

-----------------------------------------------------------------------------
(* The order of the saves.                                                 *)

(* The timer will write what is in the editor now.                         *)
TimerIsLatest == timer # NoTimer => timer.edit = content[timer.file]

IsWrite(c) == c.kind = "write"

(* Nothing that is in a save is newer than the text in the editor, which   *)
(* is no newer than the last change.                                       *)
NothingNewer ==
  /\ \A f \in Files : saved[f] <= content[f].at /\ content[f].at <= changes
  /\ \A i \in DOMAIN calls :
       IsWrite(calls[i]) => calls[i].edit.at <= content[calls[i].file].at

(* A write that waits is no older than what was written before.            *)
NothingOlder ==
  \A i \in DOMAIN calls : IsWrite(calls[i]) => saved[calls[i].file] <= calls[i].edit.at

(* The writes of a note wait in the order of its changes.                  *)
QueueOrdered ==
  \A i, j \in DOMAIN calls :
    i < j /\ IsWrite(calls[i]) /\ IsWrite(calls[j]) /\ calls[i].file = calls[j].file
      => calls[i].edit.at <= calls[j].edit.at

Ordered == TimerIsLatest /\ NothingNewer /\ NothingOlder /\ QueueOrdered

(* Nothing is saved, scheduled or called at first.                         *)
LEMMA InitOrdered == EditorInit => Ordered
BY EditorAssumption
   DEF EditorInit, Ordered, TimerIsLatest, NothingNewer, NothingOlder, QueueOrdered

(* The numbers of changes in a state are natural numbers.                  *)
LEMMA Numbers ==
  ASSUME EditorTypeOK
  PROVE  /\ \A f \in Files : saved[f] \in Nat /\ content[f].at \in Nat
         /\ changes \in Nat
         /\ \A i \in DOMAIN calls :
              calls[i].file \in Files /\ (IsWrite(calls[i]) => calls[i].edit.at \in Nat)
<1>. USE EditorAssumption DEF EditorTypeOK
<1>1. \A f \in Files : saved[f] \in Nat /\ content[f].at \in Nat
  BY DEF Edit
<1>2. changes \in Nat
  OBVIOUS
<1>3. ASSUME NEW i \in DOMAIN calls
      PROVE  calls[i].file \in Files /\ (IsWrite(calls[i]) => calls[i].edit.at \in Nat)
  <2>1. calls[i] \in Call
    OBVIOUS
  <2>. QED  BY <2>1, CallKinds DEF IsWrite, Edit
<1>. QED  BY <1>1, <1>2, <1>3

(* A change of a text gives the newest number to the editor and the timer. *)
LEMMA ChangeOrdered ==
  ASSUME EditorTypeOK, Ordered, NEW f \in Files, NEW text \in Text, HandleEditorChange(f, text),
         UNCHANGED <<calls, saved>>
  PROVE  Ordered'
<1>. USE EditorAssumption DEF EditorTypeOK
<1>1. changes' = changes + 1 /\ content' = [content EXCEPT ![f] = [text |-> text, at |-> changes']]
  BY DEF HandleEditorChange, Changed
<1>2. content'[f].at = changes + 1 /\ \A g \in Files \ {f} : content'[g] = content[g]
  BY <1>1
<1>3. \A g \in Files : content[g].at <= content'[g].at /\ content'[g].at <= changes'
  BY <1>1, <1>2, Numbers DEF Ordered, NothingNewer
<1>4. TimerIsLatest'
  BY DEF HandleEditorChange, RestartTimer, TimerIsLatest
<1>5. \A g \in Files : content'[g].at \in Nat
  BY <1>1, <1>2, Numbers
<1>6. NothingNewer'
  <2>1. ASSUME NEW g \in Files
        PROVE  saved'[g] <= content'[g].at
    <3>1. saved'[g] = saved[g] /\ saved[g] <= content[g].at
      BY DEF Ordered, NothingNewer
    <3>2. saved[g] \in Nat /\ content[g].at \in Nat /\ content'[g].at \in Nat
      BY <1>5, Numbers
    <3>. QED  BY <1>3, <3>1, <3>2
  <2>2. ASSUME NEW i \in DOMAIN calls, IsWrite(calls[i])
        PROVE  calls[i].edit.at <= content'[calls[i].file].at
    <3>1. PICK g \in Files : g = calls[i].file
      BY Numbers
    <3>2. calls[i].edit.at <= content[g].at
      BY <2>2, <3>1 DEF Ordered, NothingNewer
    <3>3. calls[i].edit.at \in Nat /\ content[g].at \in Nat /\ content'[g].at \in Nat
      BY <1>5, <2>2, Numbers
    <3>4. content[g].at <= content'[g].at
      BY <1>3
    <3>5. calls[i].edit.at <= content'[g].at
      <4>. HIDE DEF EditorTypeOK
      <4>. QED  BY <3>2, <3>3, <3>4
    <3>. QED  BY <3>1, <3>5, Zenon
  <2>. QED  BY <1>3, <2>1, <2>2 DEF NothingNewer, IsWrite
<1>7. NothingOlder' /\ QueueOrdered'
  BY DEF Ordered, NothingOlder, QueueOrdered, IsWrite
<1>. QED  BY <1>4, <1>6, <1>7 DEF Ordered

(* A call that writes the text of the editor, or reloads, may be appended. *)
LEMMA InvokeOrdered ==
  ASSUME EditorTypeOK, Ordered, NEW c \in Call, calls' = Append(calls, c),
         IsWrite(c) => c.edit = content[c.file],
         UNCHANGED <<content, changes, saved>>
  PROVE  (NothingNewer /\ NothingOlder /\ QueueOrdered)'
<1>. USE DEF EditorTypeOK
<1>1. /\ \A i \in DOMAIN calls' : \/ i \in DOMAIN calls /\ calls'[i] = calls[i]
                                  \/ i = Len(calls) + 1 /\ calls'[i] = c
      /\ Len(calls) + 1 \notin DOMAIN calls
  BY AppendProperties
<1>2. c.file \in Files
  BY CallKinds
<1>3. IsWrite(c) => saved[c.file] <= c.edit.at /\ c.edit.at <= content[c.file].at
  BY <1>2, Numbers DEF Ordered, NothingNewer
<1>4. NothingNewer'
  BY <1>1, <1>3 DEF Ordered, NothingNewer
<1>5. NothingOlder'
  BY <1>1, <1>3 DEF Ordered, NothingOlder
<1>6. QueueOrdered'
  <2>. SUFFICES ASSUME NEW i \in DOMAIN calls', NEW j \in DOMAIN calls', i < j,
                       IsWrite(calls'[i]), IsWrite(calls'[j]), calls'[i].file = calls'[j].file
                PROVE  calls'[i].edit.at <= calls'[j].edit.at
    BY DEF QueueOrdered, IsWrite
  <2>1. i \in DOMAIN calls /\ calls'[i] = calls[i]
    BY <1>1
  <2>2. CASE j \in DOMAIN calls /\ calls'[j] = calls[j]
    BY <2>1, <2>2 DEF Ordered, QueueOrdered
  <2>3. CASE calls'[j] = c
    BY <2>1, <2>3 DEF Ordered, NothingNewer
  <2>. QED  BY <1>1, <2>2, <2>3
<1>. QED  BY <1>4, <1>5, <1>6

(* Running the first call: the calls that are left are in order, and none  *)
(* of them is older than it.                                               *)
LEMMA TailOrdered ==
  ASSUME EditorTypeOK, Ordered, calls # <<>>, calls' = Tail(calls), UNCHANGED <<content, changes>>,
         \/ UNCHANGED saved
         \/ IsWrite(Head(calls)) /\ saved' = [saved EXCEPT ![Head(calls).file] = Head(calls).edit.at]
  PROVE  (NothingNewer /\ NothingOlder /\ QueueOrdered)'
<1>. USE DEF EditorTypeOK
<1>1. /\ 1 \in DOMAIN calls /\ Head(calls) = calls[1]
      /\ \A i \in DOMAIN calls' :
           i + 1 \in DOMAIN calls /\ i + 1 # 1 /\ calls'[i] = calls[i + 1]
  BY HeadTailProperties
<1>2. calls[1].file \in Files
  BY <1>1, Numbers
<1>3. ASSUME NEW f \in Files
      PROVE  /\ saved'[f] <= content[f].at
             /\ \A i \in DOMAIN calls :
                  i # 1 /\ IsWrite(calls[i]) /\ calls[i].file = f => saved'[f] <= calls[i].edit.at
  <2>1. CASE saved'[f] = saved[f]
    BY <2>1 DEF Ordered, NothingNewer, NothingOlder
  <2>2. CASE IsWrite(calls[1]) /\ f = calls[1].file /\ saved'[f] = calls[1].edit.at
    <3>1. saved'[f] <= content[f].at
      BY <1>1, <2>2 DEF Ordered, NothingNewer
    <3>2. ASSUME NEW i \in DOMAIN calls, i # 1, IsWrite(calls[i]), calls[i].file = f
          PROVE  saved'[f] <= calls[i].edit.at
      <4>1. 1 < i
        BY <3>2
      <4>. QED  BY <1>1, <2>2, <3>2, <4>1 DEF Ordered, QueueOrdered
    <3>. QED  BY <3>1, <3>2
  <2>. QED  BY <1>1, <1>2, <2>1, <2>2
<1>4. NothingNewer'
  <2>1. \A f \in Files : saved'[f] <= content'[f].at /\ content'[f].at <= changes'
    BY <1>3 DEF Ordered, NothingNewer
  <2>2. \A i \in DOMAIN calls' : IsWrite(calls'[i]) => calls'[i].edit.at <= content'[calls'[i].file].at
    BY <1>1 DEF Ordered, NothingNewer
  <2>. QED  BY <2>1, <2>2 DEF NothingNewer, IsWrite
<1>5. NothingOlder'
  <2>. SUFFICES ASSUME NEW i \in DOMAIN calls', IsWrite(calls'[i])
                PROVE  saved'[calls'[i].file] <= calls'[i].edit.at
    BY DEF NothingOlder, IsWrite
  <2>1. i + 1 \in DOMAIN calls /\ i + 1 # 1 /\ calls'[i] = calls[i + 1]
    BY <1>1
  <2>2. calls[i + 1].file \in Files
    BY <2>1, Numbers
  <2>. QED  BY <2>1, <2>2, <1>3
<1>6. QueueOrdered'
  <2>. SUFFICES ASSUME NEW i \in DOMAIN calls', NEW j \in DOMAIN calls', i < j,
                       IsWrite(calls'[i]), IsWrite(calls'[j]), calls'[i].file = calls'[j].file
                PROVE  calls'[i].edit.at <= calls'[j].edit.at
    BY DEF QueueOrdered, IsWrite
  <2>1. /\ i + 1 \in DOMAIN calls /\ calls'[i] = calls[i + 1]
        /\ j + 1 \in DOMAIN calls /\ calls'[j] = calls[j + 1]
    BY <1>1
  <2>2. i + 1 < j + 1
    OBVIOUS
  <2>. QED  BY <2>1, <2>2 DEF Ordered, QueueOrdered
<1>. QED  BY <1>4, <1>5, <1>6

(* What the order depends on.                                              *)
orderVars == <<content, changes, timer, calls, saved>>

(* A step that leaves these alone keeps the order.                         *)
LEMMA UnchangedOrdered ==
  ASSUME Ordered, UNCHANGED orderVars
  PROVE  Ordered'
BY DEF orderVars, Ordered, TimerIsLatest, NothingNewer, NothingOlder, QueueOrdered, IsWrite

(* Every step keeps the order.                                             *)
LEMMA NextOrdered ==
  ASSUME EditorTypeOK, Ordered, [EditorNext]_sessionVars
  PROVE  Ordered'
<1>1. CASE Type
  <2>1. PICK text \in Text : HandleEditorChange(shown, text)
    BY <1>1 DEF Type
  <2>2. shown \in Files /\ UNCHANGED <<calls, saved>>
    BY <1>1 DEF Type, EditorTypeOK, diskVars, callVars
  <2>. QED  BY <2>1, <2>2, ChangeOrdered
<1>2. CASE AutoSaveFires
  <2>1. timer \in [file : Files, edit : Edit] /\ timer' = NoTimer
    BY <1>2 DEF AutoSaveFires, EditorTypeOK
  <2>2. UNCHANGED <<content, changes, saved>>
    BY <1>2 DEF AutoSaveFires, diskVars
  <2>3. CASE UNCHANGED calls
    BY <2>1, <2>2, <2>3
       DEF Ordered, TimerIsLatest, NothingNewer, NothingOlder, QueueOrdered, IsWrite
  <2>4. CASE calls' = Append(calls, Write(timer.file, timer.edit))
    <3>1. PICK c \in Call : c = Write(timer.file, timer.edit)
      BY <2>1, CallTypes
    <3>2. c.file = timer.file /\ c.edit = timer.edit
      BY <3>1 DEF Write
    <3>3. c.edit = content[c.file]
      BY <1>2, <3>2 DEF AutoSaveFires, Ordered, TimerIsLatest
    <3>4. (NothingNewer /\ NothingOlder /\ QueueOrdered)'
      BY <2>2, <2>4, <3>1, <3>3, InvokeOrdered
    <3>5. TimerIsLatest'
      BY <2>1 DEF TimerIsLatest
    <3>. QED  BY <3>4, <3>5 DEF Ordered
  <2>. QED  BY <1>2, <2>3, <2>4 DEF AutoSaveFires, Invoke
<1>3. CASE ForceSave
  <2>1. UNCHANGED <<content, changes, saved, timer>>
    BY <1>3 DEF ForceSave, diskVars, editVars
  <2>2. shown \in Files /\ content[shown] \in Edit
    BY DEF EditorTypeOK
  <2>3. PICK c \in Call : c = Write(shown, content[shown])
    BY <2>2, CallTypes
  <2>4. c.edit = content[c.file]
    BY <2>3 DEF Write
  <2>5. calls' = Append(calls, c)
    BY <1>3, <2>3 DEF ForceSave, Invoke
  <2>6. (NothingNewer /\ NothingOlder /\ QueueOrdered)'
    BY <2>1, <2>4, <2>5, InvokeOrdered
  <2>. QED  BY <2>1, <2>6 DEF Ordered, TimerIsLatest
<1>4. CASE ResolveConflict
  <2>1. UNCHANGED <<content, changes, saved, timer>>
    BY <1>4 DEF ResolveConflict, diskVars
  <2>2. CASE UNCHANGED calls
    BY <2>1, <2>2, UnchangedOrdered DEF orderVars
  <2>3. CASE calls' = Append(calls, [kind |-> "reload", file |-> shown])
    <3>1. shown \in Files
      BY DEF EditorTypeOK
    <3>2. PICK c \in Call : c = [kind |-> "reload", file |-> shown]
      BY <3>1, CallTypes
    <3>3. ~IsWrite(c)
      BY <3>2 DEF IsWrite
    <3>4. (NothingNewer /\ NothingOlder /\ QueueOrdered)'
      BY <2>1, <2>3, <3>2, <3>3, InvokeOrdered
    <3>. QED  BY <2>1, <3>4 DEF Ordered, TimerIsLatest
  <2>. QED  BY <1>4, <2>2, <2>3 DEF ResolveConflict, Invoke
<1>5. CASE Resume
  BY <1>5, UnchangedOrdered DEF Resume, orderVars, diskVars
<1>6. CASE Reloaded
  <2>1. UNCHANGED <<calls, saved>>
    BY <1>6 DEF Reloaded, diskVars, callVars
  <2>2. Head(reloads) \in [file : Files, text : Text]
    BY <1>6, HeadTailProperties DEF Reloaded, EditorTypeOK
  <2>3. CASE HandleEditorChange(Head(reloads).file, Head(reloads).text)
    BY <2>1, <2>2, <2>3, ChangeOrdered
  <2>4. CASE UNCHANGED <<content, changes, unsaved, timer>>
    BY <2>1, <2>4, UnchangedOrdered DEF orderVars
  <2>. QED  BY <1>6, <2>3, <2>4 DEF Reloaded
<1>7. CASE \E f \in Files : SelectTab(f)
  BY <1>7, UnchangedOrdered DEF SelectTab, orderVars, diskVars, editVars, callVars
<1>8. CASE WriteNote
  <2>1. IsWrite(Head(calls)) /\ calls # <<>> /\ calls' = Tail(calls)
    BY <1>8 DEF WriteNote, IsWrite
  <2>2. UNCHANGED <<content, changes, timer>>
    BY <1>8 DEF WriteNote, editVars
  <2>3. saved' = [saved EXCEPT ![Head(calls).file] = Head(calls).edit.at]
    BY <1>8 DEF WriteNote
  <2>4. (NothingNewer /\ NothingOlder /\ QueueOrdered)'
    BY <2>1, <2>2, <2>3, TailOrdered
  <2>. QED  BY <2>2, <2>4 DEF Ordered, TimerIsLatest
<1>9. CASE ForceReloadFile
  <2>1. calls # <<>> /\ calls' = Tail(calls)
    BY <1>9 DEF ForceReloadFile
  <2>2. UNCHANGED <<content, changes, timer, saved>>
    BY <1>9 DEF ForceReloadFile, editVars, diskVars
  <2>3. (NothingNewer /\ NothingOlder /\ QueueOrdered)'
    BY <2>1, <2>2, TailOrdered
  <2>. QED  BY <2>2, <2>3 DEF Ordered, TimerIsLatest
<1>10. CASE \E f \in Files : Watch(f)
  BY <1>10, UnchangedOrdered DEF Watch, orderVars, diskVars, editVars, callVars
<1>11. CASE \E f \in Files : ExternalWrite(f)
  BY <1>11, UnchangedOrdered DEF ExternalWrite, orderVars, editVars, callVars
<1>12. ASSUME NEW f \in Files, ToolUpdated(f)
       PROVE  Ordered'
  <2>1. UNCHANGED <<content, changes, saved, timer>>
    BY <1>12 DEF ToolUpdated, diskVars, editVars
  <2>2. PICK c \in Call : c = [kind |-> "refresh", file |-> f]
    BY CallTypes
  <2>3. ~IsWrite(c) /\ calls' = Append(calls, c)
    BY <1>12, <2>2 DEF IsWrite, ToolUpdated, Invoke
  <2>4. (NothingNewer /\ NothingOlder /\ QueueOrdered)'
    BY <2>1, <2>3, InvokeOrdered
  <2>. QED  BY <2>1, <2>4 DEF Ordered, TimerIsLatest
<1>13. CASE UNCHANGED sessionVars
  BY <1>13, UnchangedOrdered DEF sessionVars, orderVars, diskVars, editVars, callVars
<1>. QED
  BY <1>1, <1>2, <1>3, <1>4, <1>5, <1>6, <1>7, <1>8, <1>9, <1>10, <1>11, <1>12, <1>13
     DEF EditorNext, FrontEnd, BackEnd

(* In order as they are, no write puts an older text over a newer one.     *)
LEMMA OrderedSaves ==
  ASSUME EditorTypeOK, Ordered, [EditorNext]_sessionVars
  PROVE  \A f \in Files : saved'[f] >= saved[f]
<1>1. CASE WriteNote
  <2>1. calls # <<>> /\ IsWrite(Head(calls))
    BY <1>1 DEF WriteNote, IsWrite
  <2>2. 1 \in DOMAIN calls /\ Head(calls) = calls[1]
    BY <2>1, HeadTailProperties DEF EditorTypeOK
  <2>3. saved' = [saved EXCEPT ![calls[1].file] = calls[1].edit.at]
    BY <1>1, <2>2 DEF WriteNote
  <2>4. PICK f \in Files : f = calls[1].file
    BY <2>2, Numbers
  <2>5. saved[f] <= calls[1].edit.at /\ saved[f] \in Nat /\ calls[1].edit.at \in Nat
    BY <2>1, <2>2, <2>4, Numbers DEF Ordered, NothingOlder
  <2>6. saved'[f] = calls[1].edit.at /\ \A g \in Files \ {f} : saved'[g] = saved[g]
    BY <2>3, <2>4 DEF EditorTypeOK
  <2>. QED  BY <2>5, <2>6, Numbers
<1>2. CASE UNCHANGED saved
  BY <1>2, Numbers
<1>3. WriteNote \/ UNCHANGED saved
  BY DEF EditorNext, FrontEnd, BackEnd, Type, AutoSaveFires, ForceSave, ResolveConflict, Resume,
         Reloaded, SelectTab, ToolUpdated, ForceReloadFile, Watch, ExternalWrite, sessionVars, diskVars
<1>. QED  BY <1>1, <1>2, <1>3

(* Saves of a note reach the disk in the order of its changes, whether by  *)
(* the timer or forced (handleEditorChange, forceSave, write_note).        *)
THEOREM SavesInOrderHolds == EditorSpec => SavesInOrder
<1>1. EditorTypeOK /\ Ordered /\ [EditorNext]_sessionVars => (\A f \in Files : saved'[f] >= saved[f])
  BY OrderedSaves
<1>2. EditorTypeOK /\ Ordered /\ [EditorNext]_sessionVars => [\A f \in Files : saved'[f] >= saved[f]]_sessionVars
  BY <1>1
<1>3. EditorTypeOK /\ Ordered /\ [EditorNext]_sessionVars => Ordered'
  BY NextOrdered
<1>. QED  BY <1>2, <1>3, InitTypeOK, InitOrdered, NextTypeOK, PTL DEF EditorSpec, SavesInOrder
=============================================================================
