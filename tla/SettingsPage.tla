---------------------------- MODULE SettingsPage ----------------------------
(***************************************************************************)
(* The cards of the settings pages that show a list and change it: API     *)
(* keys, invites, members and git connections.  A write is followed by a   *)
(* reload, answers arrive in any order and nothing marks one as overtaken. *)
(* The token of a key and the link of an invite are only in the answer     *)
(* that made them.                                                         *)
(***************************************************************************)
EXTENDS Naturals, Sequences, FiniteSets, SequencesExt

CONSTANTS
  ItemIds,     \* rows of the list
  ItemNames,   \* names that are typed for a key; two keys may have one name
  MaxCardCalls, \* bound: requests of the card under way
  MaxClicks    \* bound: clicks that send one

ASSUME SettingsPageAssumption == MaxCardCalls \in Nat /\ MaxClicks \in Nat /\ "none" \notin ItemIds

VARIABLES
  cardKind,       \* the card the behaviour is about
  items,      \* the server's rows: none, live, revoked (a key), promoted (a member with another role)
  itemName,
  cardList,   \* of the page: the rows last read, whether any were, the last load failed
  sending,    \* the form waits for its answer
  handed,     \* the item whose token or link is on display
  cardAsks,   \* requests not served yet
  cardReplies, \* answers under way, in the order they were served
  givenIds,   \* items that were made: an id is given once
  keepsToken, \* items whose token was handed over and to which nothing has happened since
  staleToken, \* keys that were revoked or deleted where the card could not take note of it
  clicks,
  listOld     \* the list is of an answer that was overtaken, or a write's answer never came

settingsVars == <<cardKind, items, itemName, cardList, sending, handed, cardAsks, cardReplies, givenIds, keepsToken, staleToken, clicks, listOld>>

Statuses   == {"none", "live", "revoked", "promoted"}
Creating   == {"keys", "invites"}
RoleKinds  == {"promote", "demote"}
NothingRead == [rows |-> [i \in ItemIds |-> "none"], read |-> FALSE, err |-> FALSE]

SettingsTypeOK ==
  /\ cardKind \in Creating \cup {"members", "connections"} /\ items \in [ItemIds -> Statuses]
  /\ itemName \in [ItemIds -> ItemNames] /\ handed \in ItemIds \cup {"none"}
  /\ cardList \in [rows : [ItemIds -> Statuses], read : BOOLEAN, err : BOOLEAN] /\ sending \in BOOLEAN
  /\ Len(cardAsks) + Len(cardReplies) <= MaxCardCalls + 1
  /\ givenIds \cup keepsToken \cup staleToken \subseteq ItemIds /\ listOld \in BOOLEAN /\ clicks \in 0..MaxClicks

CardAsk(kind, i, clears) ==
  [kind |-> kind, item |-> i, clears |-> clears, ok |-> FALSE, old |-> FALSE, rows |-> NothingRead.rows]
ListAsk == CardAsk("list", "none", FALSE)

\* The members and connections are there; keys and invites are made on the card.
SettingsInit ==
  /\ cardKind \in Creating \cup {"members", "connections"}
  /\ items = [i \in ItemIds |-> IF cardKind \in Creating THEN "none" ELSE "live"]
  /\ itemName \in [ItemIds -> ItemNames] /\ (cardKind # "keys" => itemName = [i \in ItemIds |-> CHOOSE n \in ItemNames : TRUE])
  /\ cardList = NothingRead /\ sending = FALSE /\ handed = "none"
  /\ cardAsks = <<ListAsk>> /\ cardReplies = <<>> /\ givenIds = {} /\ keepsToken = {} /\ staleToken = {} /\ clicks = 0 /\ listOld = FALSE

CardRoom  == Len(cardAsks) + Len(cardReplies) < MaxCardCalls
\* A card whose last load failed shows the error in place of its rows; the invites never do.
OnCard(i) == cardList.read /\ ~cardList.err /\ cardList.rows[i] # "none"

serverRows == <<cardKind, items, itemName, givenIds>>
tokenSide  == <<handed, keepsToken, staleToken>>

(***************************************************************************)
(* The user.                                                               *)
(***************************************************************************)

\* The form of a card, whose button is disabled while its request is under way.
FormReady == ~sending /\ CardRoom

CreateItem(i) ==
  /\ FormReady /\ i \notin givenIds /\ sending' = TRUE
  /\ cardAsks' = Append(cardAsks, CardAsk("create", i, FALSE))
  /\ UNCHANGED <<serverRows, cardList, cardReplies, tokenSide, listOld>>

MintKey(i)    == cardKind = "keys" /\ CreateItem(i)
SendInvite(i) == cardKind = "invites" /\ CreateItem(i)

\* The click closes over the token that is on display then: whether the answer will take
\* a token off the display is settled here, by the name of the key.
Withdraw(kind, i) ==
  LET named == {j \in ItemIds : itemName[j] = itemName[i]} IN
  /\ OnCard(i) /\ CardRoom
  /\ cardAsks' = Append(cardAsks, CardAsk(kind, i, cardKind = "keys" /\ handed \in named))
  /\ keepsToken' = IF cardKind = "keys" THEN keepsToken \ named ELSE keepsToken \ {i}
  /\ staleToken' = IF handed = i THEN staleToken ELSE staleToken \cup {i}
  /\ UNCHANGED <<serverRows, cardList, sending, handed, cardReplies, listOld>>

\* Revoke is what an active key offers, Delete what an inert one does; no key expires here.
RevokeItem(i)       == cardKind \in Creating /\ cardList.rows[i] = "live" /\ Withdraw("revoke", i)
DeleteKey(i)        == cardKind = "keys" /\ cardList.rows[i] = "revoked" /\ Withdraw("remove", i)
ExpelMember(i)      == cardKind = "members" /\ Withdraw("remove", i)
RemoveConnection(i) == cardKind = "connections" /\ Withdraw("remove", i)

PickRole(i) ==
  /\ cardKind = "members" /\ OnCard(i) /\ CardRoom /\ cardAsks' = Append(cardAsks, CardAsk(IF cardList.rows[i] = "live" THEN "promote" ELSE "demote", i, FALSE))
  /\ UNCHANGED <<serverRows, cardList, sending, cardReplies, tokenSide, listOld>>

\* The Retry of an error; the invites have none.
RetryCard ==
  /\ cardList.err /\ CardRoom /\ cardAsks' = Append(cardAsks, ListAsk)
  /\ UNCHANGED <<serverRows, cardList, sending, cardReplies, tokenSide, listOld>>

(***************************************************************************)
(* The server, in any order.                                               *)
(***************************************************************************)

ServeList(n) ==
  \E ok \in BOOLEAN :
    /\ cardAsks[n].kind = "list" /\ cardAsks' = RemoveAt(cardAsks, n)
    /\ cardReplies' = Append(cardReplies, [cardAsks[n] EXCEPT !.ok = ok, !.rows = IF ok THEN items ELSE @])
    /\ UNCHANGED <<serverRows, cardList, sending, tokenSide, listOld>>

\* What a write makes of the row; what is not there is a 404.
Written(kind) ==
  CASE kind = "create" -> "live"
    [] kind = "promote" -> "promoted"
    [] kind = "demote" -> "live"
    [] kind = "revoke" /\ cardKind = "keys" -> "revoked"
    [] OTHER -> "none"

\* An answer that does not arrive leaves the page with the rows it had.
ServeChange(n) ==
  \E ok, told \in BOOLEAN :
    LET a == cardAsks[n] IN
    /\ a.kind # "list" /\ (told => ok) /\ (ok => (a.kind = "create" \/ items[a.item] # "none"))
    /\ items' = IF ok THEN [items EXCEPT ![a.item] = Written(a.kind)] ELSE items
    /\ givenIds' = IF ok /\ a.kind = "create" THEN givenIds \cup {a.item} ELSE givenIds
    /\ cardAsks' = RemoveAt(cardAsks, n)
    /\ cardReplies' = Append([m \in DOMAIN cardReplies |-> [cardReplies[m] EXCEPT !.old = @ \/ (ok /\ ~told)]],
                             [a EXCEPT !.ok = told])
    /\ listOld' = (listOld \/ (ok /\ ~told))
    /\ staleToken' = IF ok /\ ~told THEN staleToken \cup {a.item} ELSE staleToken
    /\ UNCHANGED <<cardKind, itemName, cardList, sending, handed, keepsToken>>

(***************************************************************************)
(* The answers, in any order.                                              *)
(***************************************************************************)

\* What was read before the rows that are shown now is older than the page.
ArriveList(n) ==
  LET a == cardReplies[n] IN
  /\ a.kind = "list"
  /\ cardReplies' = RemoveAt([m \in DOMAIN cardReplies |-> [cardReplies[m] EXCEPT !.old = @ \/ m < n]], n)
  /\ cardList' = IF a.ok THEN [rows |-> a.rows, read |-> TRUE, err |-> FALSE]
                 ELSE IF cardKind = "invites" THEN [NothingRead EXCEPT !.read = TRUE]
                 ELSE [cardList EXCEPT !.err = TRUE]
  /\ listOld' = IF a.ok THEN a.old ELSE (listOld \/ cardKind = "invites")
  /\ UNCHANGED <<serverRows, sending, cardAsks, tokenSide>>

\* The token goes on display, in place of the one before.
ArriveCreated(n) ==
  LET a == cardReplies[n]  clearing == \E s \in {cardAsks, cardReplies} : \E m \in DOMAIN s : s[m].clears IN
  /\ a.kind = "create" /\ sending' = FALSE /\ cardReplies' = RemoveAt(cardReplies, n)
  /\ handed' = IF a.ok THEN a.item ELSE handed
  /\ keepsToken' = IF ~a.ok THEN keepsToken ELSE IF clearing THEN {} ELSE {a.item}
  /\ cardAsks' = IF a.ok THEN Append(cardAsks, ListAsk) ELSE cardAsks
  /\ UNCHANGED <<serverRows, cardList, staleToken, listOld>>

TokenAfter(a) == IF a.ok /\ a.clears THEN "none" ELSE handed

ArriveWithdrawn(n) ==
  LET a == cardReplies[n] IN
  /\ a.kind \in {"revoke", "remove"} \cup RoleKinds /\ cardReplies' = RemoveAt(cardReplies, n)
  /\ handed' = TokenAfter(a)
  /\ cardAsks' = IF a.ok \/ a.kind \in RoleKinds THEN Append(cardAsks, ListAsk) ELSE cardAsks
  /\ UNCHANGED <<serverRows, cardList, sending, keepsToken, staleToken, listOld>>

SettingsNext ==
  \/ /\ clicks < MaxClicks /\ clicks' = clicks + 1
     /\ \/ \E i \in ItemIds : MintKey(i) \/ SendInvite(i) \/ RevokeItem(i) \/ DeleteKey(i)
                              \/ ExpelMember(i) \/ RemoveConnection(i) \/ PickRole(i)
        \/ RetryCard
  \/ /\ UNCHANGED clicks
     /\ \/ \E n \in DOMAIN cardAsks : ServeList(n) \/ ServeChange(n)
        \/ \E n \in DOMAIN cardReplies : ArriveList(n) \/ ArriveCreated(n) \/ ArriveWithdrawn(n)

\* A token that was handed over stays on display until the user makes another one, or
\* withdraws a key of its name; a withdrawal that was under way when it came may still hide it.
TokenStays == \A i \in keepsToken : handed = i

\* A token on display is that of a key that works, unless it was withdrawn before its token
\* came or the answer to that was lost.
TokenWorks ==
  cardKind = "keys" /\ handed # "none" /\ cardAsks = <<>> /\ cardReplies = <<>> =>
    items[handed] = "live" \/ handed \in staleToken

\* Once nothing is under way a card that shows no error shows the rows the server has,
\* unless answers crossed or one got lost, or the invites could not be read.
CardMatchesRows ==
  cardAsks = <<>> /\ cardReplies = <<>> /\ ~listOld => cardList.err \/ cardList.rows = items

SettingsAreTrue == TokenStays /\ TokenWorks /\ CardMatchesRows
=============================================================================
