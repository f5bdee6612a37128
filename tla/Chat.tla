-------------------------------- MODULE Chat --------------------------------
(***************************************************************************)
(* The assistant: the panel of the dashboard, which streams one turn at a  *)
(* time and may stop it, and on the server the turns of one conversation,  *)
(* each a loop of model calls and tools.  Tools that change something wait *)
(* for the user, who answers a card on another request, or for the         *)
(* timeout; an approved plan grants its write steps in advance, by the     *)
(* name of the tool.                                                       *)
(***************************************************************************)
EXTENDS Integers, Sequences, FiniteSets

CONSTANTS
  Turns, NoTurn,    \* user messages
  WriteTools,       \* the tools of each risk, but for those that read
  DestructiveTools,
  MaxTurns,         \* DEFAULT_MAX_TURNS: model calls of a turn without a plan
  PlanTurnCap,      \* PLAN_TURN_CAP: with one
  PlanSteps,        \* bound: steps of a plan
  MaxUses           \* bound: tool uses in one answer of the model

Risky == WriteTools \cup DestructiveTools
Meta  == {"request_input", "propose_plan"}
Uses  == {"read"} \cup Meta \cup Risky

ASSUME ChatAssumption ==
  /\ NoTurn \notin Turns
  /\ WriteTools \cap DestructiveTools = {} /\ Risky \cap ({"read"} \cup Meta) = {}
  /\ {MaxTurns, PlanTurnCap, PlanSteps, MaxUses} \subseteq Nat \ {0} /\ MaxTurns <= PlanTurnCap

VARIABLES
  streaming,   \* the turn that the panel streams
  cards,       \* what it asks the user: one approval, one form, one plan
  posts,       \* decisions on their way to the server
  chatAt,      \* where each turn is
  uses,        \* tool uses of the model's answer that are still to run
  grants,      \* approvedWriteRuns of the loop
  round,       \* model calls so far
  budget,      \* and the most there may be
  asked,       \* resolvers that each turn has parked
  parked,      \* the one it waits for, by the card that shows it
  ran,         \* runs of each tool
  said,        \* cards that the user has said yes to
  agreed,      \* the runs of each tool that those stand for
  closed,      \* the turn's stream is closed
  base,        \* the ordinal of the user's message
  messages     \* rows of the conversation

panelVars == <<streaming, cards, posts, said, agreed>>
askVars   == <<asked, parked>>
loopVars  == <<chatAt, uses, grants, round, budget, askVars, ran>>
chatVars  == <<panelVars, loopVars, closed, base, messages>>

Plans == UNION {[1..n -> Risky] : n \in 0..PlanSteps}
Card  == [turn : Turns, n : Nat, use : Meta \cup Risky, steps : Seq(Risky)]

ChatTypeOK ==
  /\ streaming \in Turns \cup {NoTurn}
  /\ \A c \in cards : c \in Card
  /\ \A p \in posts : p.card \in Card /\ p.yes \in BOOLEAN
  /\ chatAt \in [Turns -> {"none", "history", "user", "loop", "model", "tools", "asking", "persist", "over"}]
  /\ \A t \in Turns : uses[t] \in Seq(Uses) /\ Len(uses[t]) <= MaxUses
  /\ grants \in [Turns -> [WriteTools -> Nat]]
  /\ ran \in [Turns -> [Risky -> Nat]] /\ agreed \in [Turns -> [Risky -> Nat]]
  /\ \A t \in Turns : round[t] \in 0..budget[t] /\ budget[t] \in MaxTurns..PlanTurnCap
  /\ closed \subseteq Turns
  /\ \A m \in messages : m.turn \in Turns /\ m.role \in {"user", "assistant"} /\ m.ordinal \in Nat

NoCard(t) == [turn |-> t, n |-> 0, use |-> "request_input", steps |-> <<>>]

ChatInit ==
  /\ streaming = NoTurn /\ cards = {} /\ posts = {} /\ said = {}
  /\ agreed = [t \in Turns |-> [x \in Risky |-> 0]] /\ ran = [t \in Turns |-> [x \in Risky |-> 0]]
  /\ chatAt = [t \in Turns |-> "none"] /\ uses = [t \in Turns |-> <<>>]
  /\ grants = [t \in Turns |-> [x \in WriteTools |-> 0]] /\ round = [t \in Turns |-> 0]
  /\ budget = [t \in Turns |-> MaxTurns] /\ closed = {}
  /\ asked = [t \in Turns |-> 0] /\ parked = [t \in Turns |-> NoCard(t)]
  /\ base = [t \in Turns |-> 0] /\ messages = {}

ChatTo(t, from, to) == chatAt[t] = from /\ chatAt' = [chatAt EXCEPT ![t] = to]

(***************************************************************************)
(* The panel.                                                              *)
(***************************************************************************)

\* A message, unless a turn is streaming.
Send(t) ==
  /\ streaming = NoTurn /\ ChatTo(t, "none", "history")
  /\ streaming' = t /\ cards' = {}
  /\ UNCHANGED <<posts, said, agreed, uses, grants, round, budget, askVars, ran, closed, base, messages>>

\* The stream is closed, and the panel is ready for the next message.
Stop ==
  /\ streaming # NoTurn /\ chatAt[streaming] # "over"
  /\ closed' = closed \cup {streaming} /\ streaming' = NoTurn /\ cards' = {}
  /\ UNCHANGED <<posts, said, agreed, loopVars, base, messages>>

\* An approval, a form and a plan are shown one of each.
Slot(use) == IF use \in Meta THEN use ELSE "approval"
OnDisplay(c)  == {k \in cards : Slot(k.use) # Slot(c.use)} \cup {c}

\* The runs of a tool that a yes to a card stands for.
Consents(c, tool) ==
  IF c.use = "propose_plan"
  THEN IF tool \in WriteTools THEN Cardinality({i \in DOMAIN c.steps : c.steps[i] = tool}) ELSE 0
  ELSE IF c.use = tool THEN 1 ELSE 0

\* A card may still be there when its resolver has timed out.
Decide(c, yes) ==
  /\ c \in cards /\ cards' = cards \ {c}
  /\ posts' = posts \cup {[card |-> c, yes |-> yes]}
  /\ IF yes /\ c \notin said
     THEN /\ said' = said \cup {c}
          /\ agreed' = [agreed EXCEPT ![c.turn] = [x \in Risky |-> agreed[c.turn][x] + Consents(c, x)]]
     ELSE UNCHANGED <<said, agreed>>
  /\ UNCHANGED <<streaming, loopVars, closed, base, messages>>

\* The card comes back when the request fails, into whatever the panel shows by then.
PostFails ==
  /\ \E p \in posts : posts' = posts \ {p} /\ cards' = OnDisplay(p.card)
  /\ UNCHANGED <<streaming, said, agreed, loopVars, closed, base, messages>>

\* A decision whose resolver has timed out finds none: ok is false, and the panel does
\* not look at it.
PostTooLate ==
  /\ \E p \in posts : /\ ~(chatAt[p.card.turn] = "asking" /\ parked[p.card.turn] = p.card)
                       /\ posts' = posts \ {p}
  /\ UNCHANGED <<streaming, cards, said, agreed, loopVars, closed, base, messages>>

Panel == \/ \E t \in Turns : Send(t)
         \/ \E c \in cards, yes \in BOOLEAN : Decide(c, yes)
         \/ Stop \/ PostFails \/ PostTooLate

(***************************************************************************)
(* The turn: history, the user's message, the loop, the answer.            *)
(***************************************************************************)
ReadHistory(t) ==
  /\ ChatTo(t, "history", "user")
  /\ base' = [base EXCEPT ![t] = IF messages = {} THEN 0
                                 ELSE 1 + CHOOSE n \in {m.ordinal : m \in messages} :
                                            \A m \in messages : m.ordinal <= n]
  /\ UNCHANGED <<panelVars, uses, grants, round, budget, askVars, ran, closed, messages>>

InsertUserMessage(t) ==
  /\ ChatTo(t, "user", "loop")
  /\ messages' = messages \cup {[turn |-> t, role |-> "user", ordinal |-> base[t]]}
  /\ UNCHANGED <<panelVars, uses, grants, round, budget, askVars, ran, closed, base>>

\* Faulty: the budget is compared with the rounds that are over, one too late.
CallModelLate(t) ==
  /\ ChatTo(t, "loop", IF round[t] <= budget[t] /\ t \notin closed THEN "model" ELSE "persist")
  /\ round' = [round EXCEPT ![t] = IF chatAt'[t] = "model" THEN @ + 1 ELSE @]
  /\ UNCHANGED <<panelVars, uses, grants, budget, askVars, ran, closed, base, messages>>

\* The head of the loop: the budget and the client are looked at here only.
CallModel(t) ==
  /\ ChatTo(t, "loop", IF round[t] < budget[t] /\ t \notin closed THEN "model" ELSE "persist")
  /\ round' = [round EXCEPT ![t] = IF chatAt'[t] = "model" THEN @ + 1 ELSE @]
  /\ UNCHANGED <<panelVars, uses, grants, budget, askVars, ran, closed, base, messages>>

\* An answer without tools ends the loop.
ModelAnswers(t) ==
  /\ \/ ChatTo(t, "model", "persist") /\ UNCHANGED uses
     \/ /\ ChatTo(t, "model", "tools")
        /\ \E n \in 1..MaxUses : \E answer \in [1..n -> Uses] : uses' = [uses EXCEPT ![t] = answer]
  /\ UNCHANGED <<panelVars, grants, round, budget, askVars, ran, closed, base, messages>>

Ended(t) == IF streaming = t THEN streaming' = NoTurn /\ cards' = {} ELSE UNCHANGED <<streaming, cards>>

\* The user's message is taken back, unless the delete fails too.
ProviderFails(t) ==
  /\ ChatTo(t, "model", "over") /\ Ended(t)
  /\ messages' = {m \in messages : m.turn # t} \/ UNCHANGED messages
  /\ UNCHANGED <<posts, said, agreed, uses, grants, round, budget, askVars, ran, closed, base>>

PersistAnswer(t) ==
  /\ ChatTo(t, "persist", "over") /\ Ended(t)
  /\ messages' = messages \cup {[turn |-> t, role |-> "assistant", ordinal |-> base[t] + 1]}
  /\ UNCHANGED <<posts, said, agreed, uses, grants, round, budget, askVars, ran, closed, base>>

(***************************************************************************)
(* The tools of one answer.                                                *)
(***************************************************************************)
Use(t) == Head(uses[t])
Used(t) == uses' = [uses EXCEPT ![t] = Tail(@)]
AtUse(t) == chatAt[t] = "tools" /\ uses[t] # <<>>
Ran(t, tool) == ran' = [ran EXCEPT ![t][tool] = @ + 1]

ToolsDone(t) ==
  /\ uses[t] = <<>> /\ ChatTo(t, "tools", "loop")
  /\ UNCHANGED <<panelVars, uses, grants, round, budget, askVars, ran, closed, base, messages>>

RunRead(t) ==
  /\ AtUse(t) /\ Use(t) = "read" /\ Used(t)
  /\ UNCHANGED <<panelVars, chatAt, grants, round, budget, askVars, ran, closed, base, messages>>

Granted(t) == Use(t) \in WriteTools /\ grants[t][Use(t)] > 0

\* A write that a plan has granted.
RunGranted(t) ==
  /\ AtUse(t) /\ Granted(t) /\ Used(t)
  /\ grants' = [grants EXCEPT ![t][Use(t)] = @ - 1] /\ Ran(t, Use(t))
  /\ UNCHANGED <<panelVars, chatAt, round, budget, askVars, closed, base, messages>>

\* requestApproval, requestInput, requestPlan: a resolver is parked under an id of its
\* own, and an event is sent.
Ask(t) ==
  /\ uses[t] # <<>> /\ ChatTo(t, "tools", "asking")
  /\ Use(t) # "read" /\ ~Granted(t)
  /\ asked' = [asked EXCEPT ![t] = @ + 1]
  /\ \E steps \in IF Use(t) = "propose_plan" THEN Plans ELSE {<<>>} :
       LET c == [turn |-> t, n |-> asked[t] + 1, use |-> Use(t), steps |-> steps] IN
       /\ parked' = [parked EXCEPT ![t] = c]
       /\ cards' = IF streaming = t THEN OnDisplay(c) ELSE cards
  /\ UNCHANGED <<streaming, posts, said, agreed, uses, grants, round, budget, ran, closed, base, messages>>

\* The resolver is gone with the answer; the card is not.
ReplyTo(t) ==
  /\ ChatTo(t, "asking", "tools") /\ Used(t)
  /\ UNCHANGED <<streaming, cards, said, agreed, round, askVars, closed, base, messages>>

Smaller(m, n) == IF m < n THEN m ELSE n
Larger(m, n)  == IF m > n THEN m ELSE n

\* A tool that is approved runs; a plan grants one run for each of its write steps, by
\* the tool's name, and raises the budget.
Accepted(t) ==
  IF Use(t) = "propose_plan"
  THEN /\ grants' = [grants EXCEPT ![t] = [x \in WriteTools |-> grants[t][x] + Consents(parked[t], x)]]
       /\ budget' = [budget EXCEPT ![t] =
                       Smaller(PlanTurnCap, Larger(@, round[t] + 2 * Len(parked[t].steps) + 2))]
       /\ UNCHANGED ran
  ELSE /\ UNCHANGED <<grants, budget>>
       /\ IF Use(t) \in Risky THEN Ran(t, Use(t)) ELSE UNCHANGED ran

\* Faulty: the decision is looked up by the turn, and not by the resolver's id.
ApproveByTurn(t) ==
  /\ ReplyTo(t) /\ Accepted(t)
  /\ \E p \in posts : p.card.turn = t /\ p.yes /\ posts' = posts \ {p}

Approve(t) ==
  /\ ReplyTo(t) /\ Accepted(t)
  /\ \E p \in posts : p.card = parked[t] /\ p.yes /\ posts' = posts \ {p}

Decline(t) ==
  /\ ReplyTo(t) /\ UNCHANGED <<grants, budget, ran>>
  /\ \E p \in posts : p.card = parked[t] /\ ~p.yes /\ posts' = posts \ {p}

\* Faulty: the timer only looks after clients that are still there.
AskTimesOutOpen(t) == t \notin closed /\ ReplyTo(t) /\ UNCHANGED <<posts, grants, budget, ran>>

\* 120 seconds for a decision, 300 for a form.
AskTimesOut(t) == ReplyTo(t) /\ UNCHANGED <<posts, grants, budget, ran>>

TurnStep(t) ==
  \/ ReadHistory(t) \/ InsertUserMessage(t) \/ CallModel(t) \/ ModelAnswers(t) \/ ProviderFails(t)
  \/ PersistAnswer(t) \/ ToolsDone(t) \/ RunRead(t) \/ RunGranted(t) \/ Ask(t) \/ AskTimesOut(t)

ChatNext == Panel \/ \E t \in Turns : TurnStep(t) \/ Approve(t) \/ Decline(t)

\* Model calls and requests end, and timers fire.
ChatFairness == \A t \in Turns : WF_chatVars(TurnStep(t))

ChatSpec == ChatInit /\ [][ChatNext]_chatVars /\ ChatFairness

(***************************************************************************)
(* Properties.                                                             *)
(***************************************************************************)

\* Bounded consent: in each turn no tool that writes or destroys runs more often than the
\* cards which the user said yes to stand for, an approval once, a plan once for each of
\* its steps that is a write with this tool, and never for a destructive one: although
\* cards outlive their resolvers, answers come late, fail and are given again, plans add
\* up, and the loop only counts by names (loop.ts:167-172, 250-259, 297-299;
\* routes/chat.ts:194-207, chat-panel.tsx:385-393).
OnlyWithConsent == \A t \in Turns : \A x \in Risky : ran[t][x] <= agreed[t][x]

\* A turn ends, also when its client has left it waiting for a decision
\* (routes/chat.ts:20-21, loop.ts:95-97).
TurnEnds == \A t \in Turns : chatAt[t] = "history" ~> chatAt[t] = "over"
=============================================================================
