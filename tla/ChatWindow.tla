----------------------------- MODULE ChatWindow -----------------------------
(***************************************************************************)
(* What the model is shown of a conversation: the last rows, from a user's *)
(* message on, and of those as many as the token budget allows.  Turns may *)
(* overlap and may fail, so questions and answers need not alternate.      *)
(***************************************************************************)
EXTENDS Naturals, Sequences, FiniteSets

CONSTANTS
  WindowTurns,
  HistoryLimit, \* HISTORY_LIMIT: rows that are read
  TokenBudget,  \* HISTORY_TOKEN_BUDGET
  Tokens        \* estimated sizes of a message

ASSUME ChatWindowAssumption ==
  {HistoryLimit, TokenBudget} \cup Tokens \subseteq Nat \ {0} /\ Tokens # {}

VARIABLES
  stored,   \* rows of the conversation
  windowAt, \* where each turn is
  ordinalOf, \* the ordinal of its next row
  replay    \* the history of each turn, its question last

chatWindowVars == <<stored, windowAt, ordinalOf, replay>>

Stored(t, n, role, tokens) == [turn |-> t, ordinal |-> n, role |-> role, tokens |-> tokens]

ChatWindowTypeOK ==
  /\ \A m \in stored : m.turn \in WindowTurns /\ m.role \in {"user", "assistant"} /\ m.ordinal \in Nat
  /\ windowAt \in [WindowTurns -> {"none", "read", "running", "over"}]
  /\ ordinalOf \in [WindowTurns -> Nat]
  /\ \A t \in WindowTurns : Len(replay[t]) <= HistoryLimit + 1

ChatWindowInit ==
  /\ stored = {} /\ windowAt = [t \in WindowTurns |-> "none"]
  /\ ordinalOf = [t \in WindowTurns |-> 0] /\ replay = [t \in WindowTurns |-> <<>>]

WindowTo(t, from, to) == windowAt[t] = from /\ windowAt' = [windowAt EXCEPT ![t] = to]

\* The last rows in the order of their ordinals, ties in any.
LastRows ==
  LET n == IF Cardinality(stored) < HistoryLimit THEN Cardinality(stored) ELSE HistoryLimit IN
  {s \in [1..n -> stored] :
     /\ \A i, j \in 1..n : i < j => s[i] # s[j] /\ s[i].ordinal <= s[j].ordinal
     /\ \A m \in stored : (\A i \in 1..n : s[i] # m) => \A i \in 1..n : m.ordinal <= s[i].ordinal}

DropLeadingAssistant(h) ==
  SubSeq(h, CHOOSE i \in 1..Len(h) + 1 : /\ \A j \in 1..i - 1 : h[j].role # "user"
                                         /\ i <= Len(h) => h[i].role = "user", Len(h))

\* What the messages from each one on come to.
TotalsOf(h) == LET total[i \in 1..Len(h) + 1] == IF i > Len(h) THEN 0 ELSE h[i].tokens + total[i + 1] IN total

\* From the newest row on, until the next one does not fit any more; the newest always stays.
TrimToTokenBudget(h, tokenBudget) ==
  IF h = <<>> THEN h
  ELSE SubSeq(h, CHOOSE i \in 1..Len(h) : /\ \A j \in i..Len(h) - 1 : TotalsOf(h)[j] <= tokenBudget
                                          /\ i > 1 => TotalsOf(h)[i - 1] > tokenBudget, Len(h))

\* What the loop is called with.
Prompt(t) == DropLeadingAssistant(TrimToTokenBudget(replay[t], TokenBudget))

ReadPrior(t) ==
  /\ WindowTo(t, "none", "read")
  /\ \E prior \in LastRows, tokens \in Tokens :
       LET next == IF prior = <<>> THEN 0 ELSE prior[Len(prior)].ordinal + 1 IN
       /\ replay' = [replay EXCEPT ![t] = Append(DropLeadingAssistant(prior), Stored(t, next, "user", tokens))]
       /\ ordinalOf' = [ordinalOf EXCEPT ![t] = next]
  /\ UNCHANGED stored

StoreQuestion(t) ==
  /\ WindowTo(t, "read", "running")
  /\ stored' = stored \cup {replay[t][Len(replay[t])]}
  /\ ordinalOf' = [ordinalOf EXCEPT ![t] = @ + 1]
  /\ UNCHANGED replay

StoreAnswer(t) ==
  /\ WindowTo(t, "running", "over")
  /\ \E tokens \in Tokens : stored' = stored \cup {Stored(t, ordinalOf[t], "assistant", tokens)}
  /\ UNCHANGED <<ordinalOf, replay>>

\* The question is taken back, or stays when the delete fails too.
TakeBack(t) ==
  /\ WindowTo(t, "running", "over")
  /\ stored' \in {stored, {m \in stored : m.turn # t}}
  /\ UNCHANGED <<ordinalOf, replay>>

ChatWindowNext ==
  \E t \in WindowTurns : ReadPrior(t) \/ StoreQuestion(t) \/ StoreAnswer(t) \/ TakeBack(t)

(***************************************************************************)
(* Properties.                                                             *)
(***************************************************************************)
Ends(h) == {SubSeq(h, i, Len(h)) : i \in 1..Len(h)}

\* The model is shown the longest end of the history that opens on a user's message (the
\* API refuses another) and fits the budget, and always the question: no failure of an
\* earlier turn, no overlap of two and no trimming leaves it a prompt that is refused, is
\* empty, or forgets more than it has to (loop.ts:99-102, 142-145).
PromptIsLongestEnd ==
  \A t \in WindowTurns : windowAt[t] # "none" =>
    LET h     == replay[t]
        opens == {e \in Ends(h) : e[1].role = "user" /\ (Len(e) = 1 \/ TotalsOf(e)[1] <= TokenBudget)} IN
    /\ Prompt(t) \in opens /\ \A e \in opens : Len(e) <= Len(Prompt(t))
=============================================================================
