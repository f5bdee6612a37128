----------------------------- MODULE PagesProofs ----------------------------
(***************************************************************************)
(* Proofs about the pages of the dashboard, which send requests that are   *)
(* served and answered in any order: a card of the settings, the page of   *)
(* an application and the page of the mail servers, for every set of       *)
(* items, keys, domains and reports of a sweep.                            *)
(***************************************************************************)
EXTENDS SettingsPage, AppPage, MailPage, TLAPS, FiniteSetTheorems, SequenceTheorems, WellFoundedInduction

(***************************************************************************)
(* Sequences: what an element that is taken out or put in leaves.          *)
(***************************************************************************)
LEMMA Removal ==
  ASSUME NEW S, NEW s \in Seq(S), NEW n \in DOMAIN s
  PROVE  /\ Len(s) \in Nat \ {0} /\ DOMAIN s = 1..Len(s)
         /\ RemoveAt(s, n) \in Seq(S) /\ Len(RemoveAt(s, n)) = Len(s) - 1 /\ DOMAIN RemoveAt(s, n) = 1..Len(s) - 1
         /\ \A m \in 1..Len(s) - 1 : RemoveAt(s, n)[m] = s[IF m < n THEN m ELSE m + 1]
<1> DEFINE s1 == SubSeq(s, 1, n - 1)
           s2 == SubSeq(s, n + 1, Len(s))
<1>1. Len(s) \in Nat \ {0} /\ DOMAIN s = 1..Len(s) /\ n \in 1..Len(s)
  BY LenProperties
<1>2. \A i \in 1..Len(s) : s[i] \in S
  BY ElementOfSeq
<1>3. s1 \in Seq(S) /\ Len(s1) = n - 1 /\ \A i \in 1..n - 1 : s1[i] = s[i]
  <2>1. \A i \in 1..n - 1 : s[i] \in S
    BY <1>1, <1>2
  <2>2. /\ s1 \in Seq(S) /\ Len(s1) = IF 1 <= n - 1 THEN n - 1 - 1 + 1 ELSE 0
        /\ \A i \in 1..n - 1 - 1 + 1 : s1[i] = s[1 + i - 1]
    BY <1>1, <2>1, SubSeqProperties
  <2> QED
    BY <1>1, <2>2
<1>4. s2 \in Seq(S) /\ Len(s2) = Len(s) - n /\ \A i \in 1..Len(s) - n : s2[i] = s[n + i]
  <2>1. \A i \in n + 1..Len(s) : s[i] \in S
    BY <1>1, <1>2
  <2>2. /\ s2 \in Seq(S) /\ Len(s2) = IF n + 1 <= Len(s) THEN Len(s) - (n + 1) + 1 ELSE 0
        /\ \A i \in 1..Len(s) - (n + 1) + 1 : s2[i] = s[n + 1 + i - 1]
    BY <1>1, <2>1, SubSeqProperties
  <2> QED
    BY <1>1, <2>2
<1> HIDE DEF s1, s2
<1>8. /\ s1 \o s2 \in Seq(S) /\ Len(s1 \o s2) = Len(s1) + Len(s2)
      /\ \A i \in 1..Len(s1) + Len(s2) : (s1 \o s2)[i] = IF i <= Len(s1) THEN s1[i] ELSE s2[i - Len(s1)]
  BY <1>3, <1>4, ConcatProperties
<1>9. n \in Nat /\ Len(s1) + Len(s2) = Len(s) - 1
  BY <1>1, <1>3, <1>4
<1>5. /\ s1 \o s2 \in Seq(S) /\ Len(s1 \o s2) = Len(s) - 1
      /\ \A i \in 1..Len(s) - 1 : (s1 \o s2)[i] = IF i <= n - 1 THEN s1[i] ELSE s2[i - (n - 1)]
  BY <1>3, <1>8, <1>9
<1>6. \A i \in 1..Len(s) - 1 : (s1 \o s2)[i] = s[IF i < n THEN i ELSE i + 1]
  <2> SUFFICES ASSUME NEW i \in 1..Len(s) - 1 PROVE (s1 \o s2)[i] = s[IF i < n THEN i ELSE i + 1]
    OBVIOUS
  <2>1. CASE i < n
    BY <1>1, <1>3, <1>5, <2>1
  <2>2. CASE ~(i < n)
    <3>1. i - (n - 1) \in 1..Len(s) - n /\ n + (i - (n - 1)) = i + 1
      BY <1>1, <2>2
    <3>2. (s1 \o s2)[i] = s2[i - (n - 1)]
      BY <1>1, <1>5, <2>2
    <3> QED
      BY <1>4, <2>2, <3>1, <3>2
  <2> QED
    BY <2>1, <2>2
<1>7. RemoveAt(s, n) = s1 \o s2
  BY DEF RemoveAt, s1, s2
<1> QED
  BY <1>1, <1>5, <1>6, <1>7, LenProperties

LEMMA Removed ==
  ASSUME NEW S, NEW s \in Seq(S), NEW n \in DOMAIN s
  PROVE  /\ \A m \in DOMAIN RemoveAt(s, n) : \E k \in DOMAIN s \ {n} : RemoveAt(s, n)[m] = s[k]
         /\ \A k \in DOMAIN s \ {n} : \E m \in DOMAIN RemoveAt(s, n) : RemoveAt(s, n)[m] = s[k]
<1>1. /\ Len(s) \in Nat \ {0} /\ DOMAIN s = 1..Len(s) /\ DOMAIN RemoveAt(s, n) = 1..Len(s) - 1
      /\ \A m \in 1..Len(s) - 1 : RemoveAt(s, n)[m] = s[IF m < n THEN m ELSE m + 1]
  BY Removal
<1>2. ASSUME NEW m \in DOMAIN RemoveAt(s, n) PROVE \E k \in DOMAIN s \ {n} : RemoveAt(s, n)[m] = s[k]
  <2> DEFINE k == IF m < n THEN m ELSE m + 1
  <2>1. k \in DOMAIN s \ {n}
    BY <1>1
  <2> QED
    BY <1>1, <2>1
<1>3. ASSUME NEW k \in DOMAIN s \ {n} PROVE \E m \in DOMAIN RemoveAt(s, n) : RemoveAt(s, n)[m] = s[k]
  <2> DEFINE m == IF k < n THEN k ELSE k - 1
  <2>1. m \in 1..Len(s) - 1 /\ (IF m < n THEN m ELSE m + 1) = k
    BY <1>1
  <2> QED
    BY <1>1, <2>1
<1> QED
  BY <1>2, <1>3

LEMMA Appended ==
  ASSUME NEW S, NEW s \in Seq(S), NEW x \in S
  PROVE  /\ Append(s, x) \in Seq(S) /\ Len(s) \in Nat /\ Len(Append(s, x)) = Len(s) + 1
         /\ DOMAIN s = 1..Len(s) /\ DOMAIN Append(s, x) = 1..Len(s) + 1
         /\ \A i \in 1..Len(s) : Append(s, x)[i] = s[i]
         /\ Append(s, x)[Len(s) + 1] = x
BY AppendProperties, LenProperties

\* A sequence s that has got c, or lost what it had at n, is t.
Src(n, m) == IF m < n THEN m ELSE m + 1

Grown(t, s, c) ==
  /\ Len(t) = Len(s) + 1 /\ DOMAIN t = 1..Len(s) + 1 /\ DOMAIN s = 1..Len(s) /\ Len(s) \in Nat
  /\ \A k \in DOMAIN s : k \in DOMAIN t /\ t[k] = s[k]
  /\ \A m \in DOMAIN t : m \in DOMAIN s \/ m = Len(s) + 1
  /\ Len(s) + 1 \in DOMAIN t \ DOMAIN s /\ t[Len(s) + 1] = c

Shrunk(t, s, n) ==
  /\ Len(t) = Len(s) - 1 /\ Len(s) \in Nat \ {0}
  /\ \A m \in DOMAIN t : Src(n, m) \in DOMAIN s \ {n} /\ t[m] = s[Src(n, m)]
  /\ \A k \in DOMAIN s \ {n} : \E m \in DOMAIN t : Src(n, m) = k /\ t[m] = s[k]
  /\ \A l, m \in DOMAIN t : Src(n, l) = Src(n, m) => l = m

LEMMA Grows == ASSUME NEW S, NEW s \in Seq(S), NEW c \in S PROVE Append(s, c) \in Seq(S) /\ Grown(Append(s, c), s, c)
BY Appended DEF Grown

LEMMA Shrinks ==
  ASSUME NEW S, NEW s \in Seq(S), NEW n \in DOMAIN s PROVE RemoveAt(s, n) \in Seq(S) /\ Shrunk(RemoveAt(s, n), s, n)
<1> DEFINE t == RemoveAt(s, n)
<1>1. /\ Len(s) \in Nat \ {0} /\ DOMAIN s = 1..Len(s) /\ t \in Seq(S) /\ Len(t) = Len(s) - 1 /\ DOMAIN t = 1..Len(s) - 1
      /\ \A m \in 1..Len(s) - 1 : t[m] = s[Src(n, m)]
  BY Removal DEF Src
<1> HIDE DEF t
<1>2. \A m \in 1..Len(s) - 1 : Src(n, m) \in DOMAIN s \ {n}
  BY <1>1 DEF Src
<1>3. ASSUME NEW k \in DOMAIN s \ {n} PROVE \E m \in DOMAIN t : Src(n, m) = k /\ t[m] = s[k]
  <2> DEFINE m == IF k < n THEN k ELSE k - 1
  <2>1. m \in 1..Len(s) - 1 /\ Src(n, m) = k
    BY <1>1 DEF Src
  <2> QED
    BY <1>1, <2>1
<1>4. \A l, m \in DOMAIN t : Src(n, l) = Src(n, m) => l = m
  BY <1>1 DEF Src
<1> QED
  BY <1>1, <1>2, <1>3, <1>4 DEF Shrunk, t

(***************************************************************************)
(* A card of the settings.  A token on display is one of a key that lives; *)
(* and of the lists under way the last one that is not marked as old is    *)
(* what the server has.                                                    *)
(***************************************************************************)
\* A request of the card and its answer.
CardCall == [kind : {"list", "create", "revoke", "remove"} \cup RoleKinds, item : ItemIds \cup {"none"},
             clears : BOOLEAN, ok : BOOLEAN, old : BOOLEAN, rows : [ItemIds -> Statuses]]

\* Who writes names a row, and a key has no role.
WellMade(call) == (call.kind # "list" => call.item \in ItemIds) /\ (cardKind = "keys" => call.kind \notin RoleKinds)

\* What was not served has no answer.
Unserved(call) == ~call.old /\ ~call.ok /\ call.rows = NothingRead.rows

CardTyped ==
  /\ SettingsTypeOK /\ cardAsks \in Seq(CardCall) /\ cardReplies \in Seq(CardCall)
  /\ \A n \in DOMAIN cardAsks : Unserved(cardAsks[n]) /\ WellMade(cardAsks[n])
  /\ \A n \in DOMAIN cardReplies : WellMade(cardReplies[n])

\* While an answer that hides the token is to come, none counts as kept.
TokenKept ==
  /\ keepsToken \subseteq {handed}
  /\ \A n \in DOMAIN cardAsks : cardAsks[n].clears => keepsToken = {}
  /\ \A n \in DOMAIN cardReplies : cardReplies[n].clears => keepsToken = {}

\* One request to make an item is under way at a time.
OneCreate ==
  /\ \A n \in DOMAIN cardAsks : cardAsks[n].kind = "create" =>
       sending /\ \A m \in DOMAIN cardReplies : cardReplies[m].kind # "create"
  /\ \A n \in DOMAIN cardReplies : cardReplies[n].kind = "create" => sending
  /\ \A m, n \in DOMAIN cardAsks : cardAsks[m].kind = "create" /\ cardAsks[n].kind = "create" => m = n
  /\ \A m, n \in DOMAIN cardReplies : cardReplies[m].kind = "create" /\ cardReplies[n].kind = "create" => m = n

\* A row that was read is one that was made.
RowsWereMade(rows) == \A i \in ItemIds : rows[i] # "none" => i \in givenIds

\* A key that is being made is not on display, and works when it was made, unless it is noted
\* down that someone has withdrawn it.
NewKey(call) == call.kind = "create" => /\ call.item # handed
                                        /\ call.ok => /\ call.item \in givenIds
                                                      /\ call.item \in staleToken \/ items[call.item] = "live"

\* A withdrawal that is to be served and not noted down will hide the token, which has come.
NotedDown(call) ==
  call.kind \in {"revoke", "remove"} =>
    /\ call.item \in givenIds
    /\ \/ call.item \in staleToken
       \/ call.clears /\ \A m \in DOMAIN cardReplies : cardReplies[m].kind = "create" => cardReplies[m].item # call.item

\* An answer that takes the token off the display.
Hides(call) == call.kind \in {"revoke", "remove"} /\ call.ok /\ call.clears

KeyLives ==
  cardKind = "keys" =>
    /\ handed # "none" => handed \in givenIds
    /\ RowsWereMade(items) /\ RowsWereMade(cardList.rows) /\ \A n \in DOMAIN cardReplies : RowsWereMade(cardReplies[n].rows)
    /\ \A n \in DOMAIN cardAsks : NewKey(cardAsks[n]) /\ NotedDown(cardAsks[n])
    /\ \A n \in DOMAIN cardAsks : cardAsks[n].kind = "create" => cardAsks[n].item \notin givenIds
    /\ \A n \in DOMAIN cardReplies : NewKey(cardReplies[n])
    /\ handed \in staleToken \cup {"none"} \/ items[handed] = "live" \/ \E n \in DOMAIN cardReplies : Hides(cardReplies[n])

\* A list will be read after what was written.
ReadsAgain ==
  \/ \E n \in DOMAIN cardAsks : cardAsks[n].kind = "list"
  \/ \E n \in DOMAIN cardReplies : cardReplies[n].kind # "list" /\ cardReplies[n].ok

\* A list under way that the page will take for new.
NewList(n) == cardReplies[n].kind = "list" /\ ~cardReplies[n].old

\* The last list that was served is of the rows there are, unless the page is to read again
\* or will not take it for new.
LastListIsTrue ==
  /\ \A m, n \in DOMAIN cardReplies : m < n /\ cardReplies[n].old => cardReplies[m].old
  /\ ReadsAgain \/
     /\ \A n \in DOMAIN cardReplies : NewList(n) /\ cardReplies[n].ok =>
          cardReplies[n].rows = items \/ \E m \in DOMAIN cardReplies : n < m /\ NewList(m)
     /\ (\E n \in DOMAIN cardReplies : NewList(n)) \/ listOld \/ cardList.err \/ cardList.rows = items

SettingsInv == CardTyped /\ TokenKept /\ OneCreate /\ KeyLives /\ LastListIsTrue

LEMMA CallsTyped ==
  /\ ListAsk \in CardCall /\ ListAsk.kind = "list" /\ ~ListAsk.clears /\ Unserved(ListAsk)
  /\ \A kind \in {"create", "revoke", "remove"} \cup RoleKinds, i \in ItemIds, clears \in BOOLEAN :
       LET c == CardAsk(kind, i, clears) IN
       c \in CardCall /\ c.kind = kind /\ c.item = i /\ c.clears = clears /\ Unserved(c)
BY DEF ListAsk, CardAsk, CardCall, NothingRead, Statuses, Unserved

\* How the requests and the answers change: one more request; one that is served, the answers
\* before marked as old or not; one answer less, those before it marked or not.
Same(a, b) == a.kind = b.kind /\ a.item = b.item /\ a.clears = b.clears /\ a.ok = b.ok /\ a.rows = b.rows

AsksGrow(c) ==
  /\ cardAsks' \in Seq(CardCall) /\ Len(cardAsks') <= Len(cardAsks) + 1
  /\ \A k \in DOMAIN cardAsks : k \in DOMAIN cardAsks' /\ cardAsks'[k] = cardAsks[k]
  /\ \A m \in DOMAIN cardAsks' \ DOMAIN cardAsks : m = Len(cardAsks) + 1 /\ cardAsks'[m] = c

AsksShrink(n) ==
  /\ cardAsks' \in Seq(CardCall) /\ Len(cardAsks') = Len(cardAsks) - 1
  /\ \A m \in DOMAIN cardAsks' : Src(n, m) \in DOMAIN cardAsks \ {n} /\ cardAsks'[m] = cardAsks[Src(n, m)]
  /\ \A k \in DOMAIN cardAsks \ {n} : \E m \in DOMAIN cardAsks' : Src(n, m) = k

RepliesGrow(x, mark) ==
  /\ cardReplies' \in Seq(CardCall) /\ Len(cardReplies') = Len(cardReplies) + 1
  /\ \A k \in DOMAIN cardReplies : /\ k \in DOMAIN cardReplies' /\ k < Len(cardReplies) + 1
                                   /\ Same(cardReplies'[k], cardReplies[k])
                                   /\ cardReplies'[k].old <=> cardReplies[k].old \/ mark
  /\ \A m \in DOMAIN cardReplies' \ DOMAIN cardReplies : m = Len(cardReplies) + 1
  /\ Len(cardReplies) + 1 \in DOMAIN cardReplies' /\ cardReplies'[Len(cardReplies) + 1] = x

RepliesShrink(n, mark) ==
  /\ cardReplies' \in Seq(CardCall) /\ Len(cardReplies') = Len(cardReplies) - 1
  /\ \A m \in DOMAIN cardReplies' : /\ Src(n, m) \in DOMAIN cardReplies \ {n}
                                    /\ Same(cardReplies'[m], cardReplies[Src(n, m)])
                                    /\ cardReplies'[m].old <=> cardReplies[Src(n, m)].old \/ (mark /\ Src(n, m) < n)
  /\ \A k \in DOMAIN cardReplies \ {n} : \E m \in DOMAIN cardReplies' : Src(n, m) = k

LEMMA SrcKeepsOrder == \A n, l, m \in Nat : (l < m <=> Src(n, l) < Src(n, m)) /\ (l = m <=> Src(n, l) = Src(n, m))
BY DEF Src

LEMMA AsksAppended ==
  ASSUME CardTyped, NEW c \in CardCall, cardAsks' = Append(cardAsks, c)
  PROVE  AsksGrow(c) /\ Len(cardAsks') = Len(cardAsks) + 1 /\ \E m \in DOMAIN cardAsks' : cardAsks'[m] = c
<1>1. cardAsks \in Seq(CardCall)
  BY DEF CardTyped
<1>2. /\ cardAsks' \in Seq(CardCall) /\ Len(cardAsks) \in Nat /\ Len(cardAsks') = Len(cardAsks) + 1
      /\ DOMAIN cardAsks = 1..Len(cardAsks) /\ DOMAIN cardAsks' = 1..Len(cardAsks) + 1
      /\ \A i \in 1..Len(cardAsks) : cardAsks'[i] = cardAsks[i]
      /\ cardAsks'[Len(cardAsks) + 1] = c
  BY <1>1, Appended
<1> QED
  BY <1>2 DEF AsksGrow

LEMMA AsksStay == ASSUME CardTyped, cardAsks' = cardAsks, NEW c PROVE AsksGrow(c)
<1>1. cardAsks \in Seq(CardCall) /\ Len(cardAsks) \in Nat
  BY LenProperties DEF CardTyped
<1> QED
  BY <1>1 DEF AsksGrow

LEMMA AsksServed == ASSUME CardTyped, NEW n \in DOMAIN cardAsks, cardAsks' = RemoveAt(cardAsks, n) PROVE AsksShrink(n)
<1>1. cardAsks \in Seq(CardCall)
  BY DEF CardTyped
<1>2. /\ Len(cardAsks) \in Nat \ {0} /\ DOMAIN cardAsks = 1..Len(cardAsks)
      /\ cardAsks' \in Seq(CardCall) /\ Len(cardAsks') = Len(cardAsks) - 1 /\ DOMAIN cardAsks' = 1..Len(cardAsks) - 1
      /\ \A m \in 1..Len(cardAsks) - 1 : cardAsks'[m] = cardAsks[Src(n, m)]
  BY <1>1, Removal DEF Src
<1>3. ASSUME NEW k \in DOMAIN cardAsks \ {n} PROVE \E m \in DOMAIN cardAsks' : Src(n, m) = k
  <2> DEFINE m == IF k < n THEN k ELSE k - 1
  <2>1. m \in 1..Len(cardAsks) - 1 /\ Src(n, m) = k
    BY <1>2 DEF Src
  <2> QED
    BY <1>2, <2>1
<1>4. \A m \in 1..Len(cardAsks) - 1 : Src(n, m) \in DOMAIN cardAsks \ {n}
  BY <1>2 DEF Src
<1> QED
  BY <1>2, <1>3, <1>4 DEF AsksShrink

LEMMA RepliesAppended ==
  ASSUME CardTyped, NEW x \in CardCall, NEW mark \in BOOLEAN,
         \/ ~mark /\ cardReplies' = Append(cardReplies, x)
         \/ cardReplies' = Append([m \in DOMAIN cardReplies |-> [cardReplies[m] EXCEPT !.old = @ \/ mark]], x)
  PROVE  RepliesGrow(x, mark)
<1>1. cardReplies \in Seq(CardCall) /\ Len(cardReplies) \in Nat /\ DOMAIN cardReplies = 1..Len(cardReplies)
  BY LenProperties DEF CardTyped
<1>2. PICK r \in Seq(CardCall) : /\ Len(r) = Len(cardReplies) /\ cardReplies' = Append(r, x)
                                 /\ \A m \in DOMAIN cardReplies : /\ Same(r[m], cardReplies[m])
                                                                  /\ r[m].old <=> cardReplies[m].old \/ mark
  <2>1. CASE ~mark /\ cardReplies' = Append(cardReplies, x)
    BY <1>1, <2>1 DEF Same
  <2>2. CASE cardReplies' = Append([m \in DOMAIN cardReplies |-> [cardReplies[m] EXCEPT !.old = @ \/ mark]], x)
    <3> DEFINE r == [m \in DOMAIN cardReplies |-> [cardReplies[m] EXCEPT !.old = @ \/ mark]]
    <3>1. \A m \in DOMAIN cardReplies : cardReplies[m] \in CardCall
      BY <1>1, ElementOfSeq
    <3>2. r \in [1..Len(cardReplies) -> CardCall]
      BY <1>1, <3>1 DEF CardCall
    <3>3. r \in Seq(CardCall) /\ Len(r) = Len(cardReplies)
      BY <1>1, <3>2, SeqDef
    <3>4. \A m \in DOMAIN cardReplies : Same(r[m], cardReplies[m]) /\ (r[m].old <=> cardReplies[m].old \/ mark)
      BY <3>1 DEF CardCall, Same
    <3> QED
      BY <2>2, <3>3, <3>4
  <2> QED
    BY <2>1, <2>2
<1>3. /\ cardReplies' \in Seq(CardCall) /\ Len(cardReplies') = Len(r) + 1
      /\ DOMAIN r = 1..Len(r) /\ DOMAIN cardReplies' = 1..Len(r) + 1
      /\ \A i \in 1..Len(r) : cardReplies'[i] = r[i]
      /\ cardReplies'[Len(r) + 1] = x
  BY <1>2, Appended
<1> QED
  BY <1>1, <1>2, <1>3 DEF RepliesGrow

LEMMA RepliesTaken ==
  ASSUME CardTyped, NEW n \in DOMAIN cardReplies, NEW mark \in BOOLEAN,
         \/ ~mark /\ cardReplies' = RemoveAt(cardReplies, n)
         \/ /\ mark
            /\ cardReplies' = RemoveAt([m \in DOMAIN cardReplies |-> [cardReplies[m] EXCEPT !.old = @ \/ m < n]], n)
  PROVE  RepliesShrink(n, mark)
<1>1. cardReplies \in Seq(CardCall) /\ Len(cardReplies) \in Nat /\ DOMAIN cardReplies = 1..Len(cardReplies)
  BY LenProperties DEF CardTyped
<1>2. PICK r \in Seq(CardCall) : /\ Len(r) = Len(cardReplies) /\ DOMAIN r = DOMAIN cardReplies /\ cardReplies' = RemoveAt(r, n)
                                 /\ \A m \in DOMAIN cardReplies : /\ Same(r[m], cardReplies[m])
                                                                  /\ r[m].old <=> cardReplies[m].old \/ (mark /\ m < n)
  <2>1. CASE ~mark /\ cardReplies' = RemoveAt(cardReplies, n)
    BY <1>1, <2>1 DEF Same
  <2>2. CASE mark /\ cardReplies' = RemoveAt([m \in DOMAIN cardReplies |-> [cardReplies[m] EXCEPT !.old = @ \/ m < n]], n)
    <3> DEFINE r == [m \in DOMAIN cardReplies |-> [cardReplies[m] EXCEPT !.old = @ \/ m < n]]
    <3>1. \A m \in DOMAIN cardReplies : cardReplies[m] \in CardCall
      BY <1>1, ElementOfSeq
    <3>2. r \in [1..Len(cardReplies) -> CardCall]
      BY <1>1, <3>1 DEF CardCall
    <3>3. r \in Seq(CardCall) /\ Len(r) = Len(cardReplies)
      BY <1>1, <3>2, SeqDef
    <3>4. \A m \in DOMAIN cardReplies : Same(r[m], cardReplies[m]) /\ (r[m].old <=> cardReplies[m].old \/ (mark /\ m < n))
      BY <2>2, <3>1 DEF CardCall, Same
    <3> QED
      BY <1>1, <2>2, <3>2, <3>3, <3>4
  <2> QED
    BY <2>1, <2>2
<1>3. /\ cardReplies' \in Seq(CardCall) /\ Len(cardReplies') = Len(r) - 1 /\ DOMAIN cardReplies' = 1..Len(r) - 1
      /\ \A m \in 1..Len(r) - 1 : cardReplies'[m] = r[Src(n, m)]
  <2>1. n \in DOMAIN r
    BY <1>2
  <2>2. /\ RemoveAt(r, n) \in Seq(CardCall) /\ Len(RemoveAt(r, n)) = Len(r) - 1 /\ DOMAIN RemoveAt(r, n) = 1..Len(r) - 1
        /\ \A m \in 1..Len(r) - 1 : RemoveAt(r, n)[m] = r[Src(n, m)]
    BY <2>1, Removal DEF Src
  <2> QED
    BY <1>2, <2>2
<1>4. ASSUME NEW k \in DOMAIN cardReplies \ {n} PROVE \E m \in DOMAIN cardReplies' : Src(n, m) = k
  <2> DEFINE m == IF k < n THEN k ELSE k - 1
  <2>1. m \in 1..Len(cardReplies) - 1 /\ Src(n, m) = k
    BY <1>1 DEF Src
  <2> QED
    BY <1>2, <1>3, <2>1
<1>5. \A m \in 1..Len(cardReplies) - 1 : Src(n, m) \in DOMAIN cardReplies \ {n}
  BY <1>1 DEF Src
<1> QED
  BY <1>2, <1>3, <1>4, <1>5 DEF RepliesShrink

\* What only depends on requests that are already there.
LEMMA CardStarts == SettingsInit => SettingsInv
<1> SUFFICES ASSUME SettingsInit PROVE SettingsInv
  OBVIOUS
<1>1. cardAsks = <<ListAsk>> /\ cardReplies = <<>> /\ handed = "none" /\ cardList = NothingRead
  BY DEF SettingsInit
<1>2. /\ cardAsks \in Seq(CardCall) /\ Len(cardAsks) = 1 /\ DOMAIN cardAsks = 1..1 /\ cardAsks[1] = ListAsk
      /\ cardReplies \in Seq(CardCall) /\ Len(cardReplies) = 0 /\ DOMAIN cardReplies = {}
  BY <1>1, CallsTyped
<1>3. SettingsTypeOK
  <2>1. cardList \in [rows : [ItemIds -> Statuses], read : BOOLEAN, err : BOOLEAN]
    BY <1>1 DEF NothingRead, Statuses
  <2>2. items \in [ItemIds -> Statuses] /\ itemName \in [ItemIds -> ItemNames]
    BY DEF SettingsInit, Statuses
  <2>3. givenIds = {} /\ keepsToken = {} /\ staleToken = {} /\ clicks = 0 /\ sending = FALSE /\ listOld = FALSE
    BY DEF SettingsInit
  <2>4. 0 \in 0..MaxClicks /\ 1 + 0 <= MaxCardCalls + 1
    BY SettingsPageAssumption
  <2>5. cardKind \in Creating \cup {"members", "connections"}
    BY DEF SettingsInit
  <2> QED
    BY <1>1, <1>2, <2>1, <2>2, <2>3, <2>4, <2>5 DEF SettingsTypeOK
<1>4. CardTyped
  <2>1. \A n \in DOMAIN cardAsks : n = 1 /\ cardAsks[n] = ListAsk
    BY <1>2
  <2>2. Unserved(ListAsk) /\ ListAsk.kind = "list"
    BY CallsTyped
  <2> QED
    BY <1>2, <1>3, <2>1, <2>2 DEF CardTyped, WellMade, RoleKinds
<1>5. TokenKept
  BY <1>2 DEF TokenKept, SettingsInit, ListAsk, CardAsk
<1>6. OneCreate
  BY <1>2 DEF OneCreate, ListAsk, CardAsk
<1>7. KeyLives
  <2>1. cardKind = "keys" => items = [i \in ItemIds |-> "none"]
    BY DEF SettingsInit, Creating
  <2> QED
    BY <1>1, <1>2, <2>1 DEF KeyLives, RowsWereMade, NothingRead, NewKey, NotedDown, ListAsk, CardAsk
<1>8. LastListIsTrue
  BY <1>2, CallsTyped DEF LastListIsTrue, ReadsAgain
<1> QED
  BY <1>4, <1>5, <1>6, <1>7, <1>8 DEF SettingsInv

\* The user sends a request.
LEMMA CardAsked ==
  ASSUME SettingsInv, clicks < MaxClicks, clicks' = clicks + 1, CardRoom,
         NEW c \in CardCall, cardAsks' = Append(cardAsks, c), Unserved(c), WellMade(c),
         UNCHANGED <<serverRows, cardList, handed, cardReplies, listOld>>,
         keepsToken' \subseteq keepsToken, c.clears => keepsToken' = {},
         staleToken \subseteq staleToken', staleToken' \subseteq ItemIds,
         IF c.kind = "create" THEN ~sending /\ sending' /\ c.item \notin givenIds ELSE sending' = sending,
         cardKind = "keys" /\ c.kind \in {"revoke", "remove"} =>
           c.item \in givenIds /\ (c.item \in staleToken' \/ (c.clears /\ c.item = handed))
  PROVE  SettingsInv'
<1>0. CardTyped /\ TokenKept /\ OneCreate /\ KeyLives /\ LastListIsTrue /\ SettingsTypeOK
  BY DEF SettingsInv, CardTyped
<1>1. AsksGrow(c) /\ Len(cardAsks') = Len(cardAsks) + 1 /\ \E m \in DOMAIN cardAsks' : cardAsks'[m] = c
  BY <1>0, AsksAppended
<1>2. UNCHANGED <<cardKind, items, itemName, givenIds, cardList, handed, cardReplies, listOld>>
  BY DEF serverRows
<1>3. CardTyped'
  <2>1. Len(cardAsks) \in Nat /\ Len(cardReplies) \in Nat
    BY <1>0, LenProperties DEF CardTyped
  <2>2. sending' \in BOOLEAN
    BY <1>0 DEF SettingsTypeOK
  <2>3. SettingsTypeOK'
    BY <1>0, <1>1, <1>2, <2>1, <2>2, SettingsPageAssumption DEF SettingsTypeOK, CardRoom
  <2>4. \A n \in DOMAIN cardAsks' : Unserved(cardAsks'[n]) /\ WellMade(cardAsks'[n])
    BY <1>0, <1>1 DEF CardTyped, AsksGrow
  <2> QED
    BY <1>0, <1>1, <1>2, <2>3, <2>4 DEF CardTyped, AsksGrow, WellMade
<1>4. TokenKept'
  BY <1>0, <1>1, <1>2 DEF TokenKept, AsksGrow
<1>5. OneCreate'
  BY <1>0, <1>1, <1>2 DEF OneCreate, AsksGrow
<1>6. KeyLives'
  <2> SUFFICES ASSUME cardKind = "keys" PROVE KeyLives'
    BY <1>2 DEF KeyLives
  <2>1. c.kind = "create" => c.item # handed
    BY <1>0, SettingsPageAssumption DEF KeyLives, WellMade
  <2>2. \A n \in DOMAIN cardReplies : NewKey(cardReplies[n])'
    BY <1>0, <1>2 DEF KeyLives, NewKey
  <2>3. \A n \in DOMAIN cardAsks' : NewKey(cardAsks[n])'
    BY <1>0, <1>1, <1>2, <2>1 DEF KeyLives, NewKey, AsksGrow, CardTyped, Unserved
  <2>4. \A n \in DOMAIN cardAsks' : NotedDown(cardAsks[n])'
    <3>1. NotedDown(c)'
      BY <1>0, <1>2 DEF KeyLives, NewKey, NotedDown
    <3>2. \A n \in DOMAIN cardAsks : NotedDown(cardAsks[n])'
      BY <1>0, <1>1, <1>2 DEF KeyLives, NotedDown, AsksGrow
    <3>3. ASSUME NEW n \in DOMAIN cardAsks', cardAsks'[n] = c PROVE NotedDown(cardAsks[n])'
      BY <3>1, <3>3 DEF NotedDown
    <3> QED
      BY <1>1, <3>2, <3>3 DEF AsksGrow
  <2>5. \A n \in DOMAIN cardAsks' : cardAsks'[n].kind = "create" => cardAsks'[n].item \notin givenIds
    BY <1>0, <1>1 DEF KeyLives, AsksGrow
  <2> QED
    <3>1. RowsWereMade(items)' /\ RowsWereMade(cardList.rows)' /\ \A n \in DOMAIN cardReplies' : RowsWereMade(cardReplies[n].rows)'
      BY <1>0, <1>2 DEF KeyLives, RowsWereMade
    <3>2. \/ handed' \in staleToken' \cup {"none"} \/ items'[handed'] = "live"
          \/ \E n \in DOMAIN cardReplies' : Hides(cardReplies[n])'
      BY <1>0, <1>2 DEF KeyLives, Hides
    <3> QED
      BY <1>0, <1>2, <2>2, <2>3, <2>4, <2>5, <3>1, <3>2 DEF KeyLives
<1>7. LastListIsTrue'
  <2>1. ReadsAgain => ReadsAgain'
    BY <1>1, <1>2 DEF ReadsAgain, AsksGrow
  <2> QED
    BY <1>0, <1>2, <2>1 DEF LastListIsTrue, NewList
<1> QED
  BY <1>3, <1>4, <1>5, <1>6, <1>7 DEF SettingsInv

LEMMA UserAsks ==
  ASSUME SettingsInv, clicks < MaxClicks, clicks' = clicks + 1,
         \/ \E i \in ItemIds : MintKey(i) \/ SendInvite(i) \/ RevokeItem(i) \/ DeleteKey(i)
                               \/ ExpelMember(i) \/ RemoveConnection(i) \/ PickRole(i)
         \/ RetryCard
  PROVE  SettingsInv'
<1>0. CardTyped /\ TokenKept /\ KeyLives /\ SettingsTypeOK
  BY DEF SettingsInv, CardTyped
<1>1. ASSUME NEW i \in ItemIds, CreateItem(i) PROVE SettingsInv'
  <2> DEFINE c == CardAsk("create", i, FALSE)
  <2>1. c \in CardCall /\ c.kind = "create" /\ c.item = i /\ ~c.clears /\ Unserved(c)
    BY CallsTyped
  <2>2. WellMade(c)
    BY <2>1 DEF WellMade, RoleKinds
  <2> HIDE DEF c
  <2>3. ~sending /\ CardRoom /\ i \notin givenIds /\ sending' = TRUE
    BY <1>1 DEF CreateItem, FormReady
  <2>4. cardAsks' = Append(cardAsks, c) /\ UNCHANGED <<serverRows, cardList, cardReplies, tokenSide, listOld>>
    BY <1>1 DEF CreateItem, c
  <2> QED
    BY <1>0, <2>1, <2>2, <2>3, <2>4, CardAsked DEF tokenSide, SettingsTypeOK
<1>2. ASSUME NEW i \in ItemIds, NEW kind \in {"revoke", "remove"}, Withdraw(kind, i) PROVE SettingsInv'
  <2> DEFINE named == {j \in ItemIds : itemName[j] = itemName[i]}
             c     == CardAsk(kind, i, cardKind = "keys" /\ handed \in named)
  <2>1. c \in CardCall /\ c.kind = kind /\ c.item = i /\ (c.clears <=> cardKind = "keys" /\ handed \in named) /\ Unserved(c)
    BY CallsTyped
  <2>2. WellMade(c)
    BY <2>1 DEF WellMade, RoleKinds
  <2>3. cardAsks' = Append(cardAsks, c) /\ CardRoom /\ OnCard(i)
    BY <1>2 DEF Withdraw
  <2>4. UNCHANGED <<serverRows, cardList, sending, handed, cardReplies, listOld>>
    BY <1>2 DEF Withdraw
  <2>5. keepsToken' \subseteq keepsToken /\ (cardKind = "keys" => keepsToken' = keepsToken \ named)
    BY <1>2 DEF Withdraw
  <2>6. staleToken' = IF handed = i THEN staleToken ELSE staleToken \cup {i}
    BY <1>2 DEF Withdraw
  <2>7. c.clears => keepsToken' = {}
    BY <1>0, <2>1, <2>5 DEF TokenKept
  <2>8. cardKind = "keys" => c.item \in givenIds /\ (c.item \in staleToken' \/ (c.clears /\ c.item = handed))
    BY <1>0, <2>1, <2>3, <2>6 DEF KeyLives, RowsWereMade, OnCard
  <2>9. staleToken \subseteq staleToken' /\ staleToken' \subseteq ItemIds
    BY <1>0, <2>6 DEF SettingsTypeOK
  <2> HIDE DEF c
  <2> QED
    BY <2>1, <2>2, <2>3, <2>4, <2>5, <2>7, <2>8, <2>9, CardAsked
<1>3. ASSUME NEW i \in ItemIds, PickRole(i) PROVE SettingsInv'
  <2>1. PICK kind \in RoleKinds : cardAsks' = Append(cardAsks, CardAsk(kind, i, FALSE))
    BY <1>3 DEF PickRole, RoleKinds
  <2> DEFINE c == CardAsk(kind, i, FALSE)
  <2>2. c \in CardCall /\ c.kind = kind /\ c.item = i /\ ~c.clears /\ Unserved(c)
    BY CallsTyped
  <2>3. WellMade(c) /\ c.kind \notin {"create", "revoke", "remove"}
    BY <1>3, <2>2 DEF WellMade, RoleKinds, PickRole
  <2>4. cardAsks' = Append(cardAsks, c)
    BY <2>1
  <2> HIDE DEF c
  <2> QED
    BY <1>0, <1>3, <2>2, <2>3, <2>4, CardAsked DEF PickRole, tokenSide, SettingsTypeOK
<1>4. CASE RetryCard
  <2>1. ListAsk \in CardCall /\ ListAsk.kind = "list" /\ ~ListAsk.clears /\ Unserved(ListAsk) /\ WellMade(ListAsk)
    BY CallsTyped DEF WellMade, ListAsk, CardAsk, RoleKinds
  <2> QED
    BY <1>0, <1>4, <2>1, CardAsked DEF RetryCard, tokenSide, SettingsTypeOK
<1> QED
  BY <1>1, <1>2, <1>3, <1>4 DEF MintKey, SendInvite, RevokeItem, DeleteKey, ExpelMember, RemoveConnection

\* The server reads the rows.
LEMMA ListServed ==
  ASSUME SettingsInv, clicks' = clicks, NEW n \in DOMAIN cardAsks, ServeList(n) PROVE SettingsInv'
<1>0. CardTyped /\ TokenKept /\ OneCreate /\ KeyLives /\ LastListIsTrue /\ SettingsTypeOK
  BY DEF SettingsInv, CardTyped
<1>1. PICK ok \in BOOLEAN : cardReplies' = Append(cardReplies, [cardAsks[n] EXCEPT !.ok = ok, !.rows = IF ok THEN items ELSE @])
  BY DEF ServeList
<1> DEFINE x == [cardAsks[n] EXCEPT !.ok = ok, !.rows = IF ok THEN items ELSE @]
<1>2. cardAsks[n] \in CardCall /\ cardAsks[n].kind = "list" /\ Unserved(cardAsks[n]) /\ WellMade(cardAsks[n])
  BY <1>0, ElementOfSeq, LenProperties DEF CardTyped, ServeList
<1>3. /\ x \in CardCall /\ x.kind = "list" /\ x.ok = ok /\ ~x.old /\ x.clears = cardAsks[n].clears
      /\ (ok => x.rows = items) /\ (~ok => x.rows = NothingRead.rows) /\ WellMade(x)
  BY <1>0, <1>2 DEF CardCall, SettingsTypeOK, WellMade, Unserved
<1>4. cardReplies' = Append(cardReplies, x)
  BY <1>1
<1> HIDE DEF x
<1>5. AsksShrink(n)
  BY <1>0, AsksServed DEF ServeList
<1>6. RepliesGrow(x, FALSE)
  BY <1>0, <1>3, <1>4, RepliesAppended
<1>7. UNCHANGED <<cardKind, items, itemName, givenIds, cardList, sending, handed, keepsToken, staleToken, listOld>>
  BY DEF ServeList, serverRows, tokenSide
<1>8. Len(cardReplies) \in Nat /\ Len(cardAsks) \in Nat
  BY <1>0, LenProperties DEF CardTyped
<1>9. CardTyped'
  <2>1. SettingsTypeOK'
    BY <1>0, <1>5, <1>6, <1>7, <1>8 DEF SettingsTypeOK, AsksShrink, RepliesGrow
  <2>2. \A m \in DOMAIN cardAsks' : Unserved(cardAsks'[m]) /\ WellMade(cardAsks'[m])
    BY <1>0, <1>5 DEF CardTyped, AsksShrink
  <2>3. \A m \in DOMAIN cardReplies' : WellMade(cardReplies'[m])
    BY <1>0, <1>3, <1>6 DEF CardTyped, RepliesGrow, Same, WellMade
  <2> QED
    BY <1>5, <1>6, <1>7, <2>1, <2>2, <2>3 DEF CardTyped, AsksShrink, RepliesGrow, WellMade
<1>10. TokenKept'
  BY <1>0, <1>3, <1>5, <1>6, <1>7 DEF TokenKept, AsksShrink, RepliesGrow, Same
<1>11. OneCreate'
  <2>1. \A m \in DOMAIN cardReplies' : cardReplies'[m].kind = "create" => m \in DOMAIN cardReplies /\ cardReplies[m].kind = "create"
    BY <1>3, <1>6 DEF RepliesGrow, Same
  <2>2. \A l, m \in DOMAIN cardAsks' : Src(n, l) = Src(n, m) => l = m
    BY <1>5, <1>8, SrcKeepsOrder, LenProperties DEF AsksShrink
  <2> QED
    BY <1>0, <1>5, <1>7, <2>1, <2>2 DEF OneCreate, AsksShrink
<1>12. KeyLives'
  <2> SUFFICES ASSUME cardKind = "keys" PROVE KeyLives'
    BY <1>7 DEF KeyLives
  <2>1. \A m \in DOMAIN cardReplies' : NewKey(cardReplies[m])' /\ (RowsWereMade(cardReplies[m].rows)' \/ m = Len(cardReplies) + 1)
    BY <1>0, <1>3, <1>6, <1>7 DEF KeyLives, NewKey, RowsWereMade, RepliesGrow, Same
  <2>2. \A m \in DOMAIN cardAsks' : NewKey(cardAsks[m])' /\ NotedDown(cardAsks[m])' /\ (cardAsks'[m].kind = "create" => cardAsks'[m].item \notin givenIds)
    <3> SUFFICES ASSUME NEW m \in DOMAIN cardAsks' PROVE NewKey(cardAsks[m])' /\ NotedDown(cardAsks[m])' /\ (cardAsks'[m].kind = "create" => cardAsks'[m].item \notin givenIds)
      OBVIOUS
    <3>1. PICK k \in DOMAIN cardAsks : cardAsks'[m] = cardAsks[k]
      BY <1>5 DEF AsksShrink
    <3>2. NewKey(cardAsks[k]) /\ NotedDown(cardAsks[k]) /\ (cardAsks[k].kind = "create" => cardAsks[k].item \notin givenIds)
      BY <1>0 DEF KeyLives
    <3>3. \A l \in DOMAIN cardReplies' : cardReplies'[l].kind = "create" =>
            \E j \in DOMAIN cardReplies : cardReplies[j].kind = "create" /\ cardReplies'[l].item = cardReplies[j].item
      BY <1>3, <1>6 DEF RepliesGrow, Same
    <3> QED
      BY <1>7, <3>1, <3>2, <3>3 DEF NewKey, NotedDown
  <2>3. RowsWereMade(items)' /\ RowsWereMade(cardList.rows)' /\ \A m \in DOMAIN cardReplies' : RowsWereMade(cardReplies[m].rows)'
    BY <1>0, <1>3, <1>6, <1>7, <2>1 DEF KeyLives, RowsWereMade, RepliesGrow, NothingRead
  <2>4. \/ handed' \in staleToken' \cup {"none"} \/ items'[handed'] = "live"
        \/ \E m \in DOMAIN cardReplies' : Hides(cardReplies[m])'
    BY <1>0, <1>6, <1>7 DEF KeyLives, Hides, RepliesGrow, Same
  <2> QED
    BY <1>0, <1>7, <2>1, <2>2, <2>3, <2>4 DEF KeyLives
<1>13. LastListIsTrue'
  <2>1. \A m \in DOMAIN cardReplies : NewList(m)' = NewList(m) /\ m < Len(cardReplies) + 1
    BY <1>6 DEF NewList, RepliesGrow, Same
  <2>2. PICK last \in DOMAIN cardReplies' : last = Len(cardReplies) + 1 /\ cardReplies'[last] = x
    BY <1>6 DEF RepliesGrow
  <2>5. NewList(last)' /\ \A m \in DOMAIN cardReplies' : m < last \/ m = last
    BY <1>3, <1>6, <2>2 DEF NewList, RepliesGrow
  <2>3. \A l, m \in DOMAIN cardReplies' : l < m /\ cardReplies'[m].old => cardReplies'[l].old
    BY <1>0, <1>3, <1>6, <2>1 DEF LastListIsTrue, RepliesGrow
  <2>4. \A m \in DOMAIN cardReplies' : NewList(m)' /\ cardReplies'[m].ok =>
          cardReplies'[m].rows = items' \/ \E l \in DOMAIN cardReplies' : m < l /\ NewList(l)'
    BY <1>3, <1>7, <2>2, <2>5
  <2> QED
    BY <2>2, <2>3, <2>4, <2>5 DEF LastListIsTrue
<1> QED
  BY <1>9, <1>10, <1>11, <1>12, <1>13 DEF SettingsInv

\* The server writes a row, or refuses; its answer may be lost.
LEMMA ChangeServed ==
  ASSUME SettingsInv, clicks' = clicks, NEW n \in DOMAIN cardAsks, ServeChange(n) PROVE SettingsInv'
<1>0. CardTyped /\ TokenKept /\ OneCreate /\ KeyLives /\ LastListIsTrue /\ SettingsTypeOK
  BY DEF SettingsInv, CardTyped
<1> DEFINE a == cardAsks[n]
<1>1. PICK ok \in BOOLEAN, told \in BOOLEAN :
        /\ a.kind # "list" /\ (told => ok) /\ (ok => (a.kind = "create" \/ items[a.item] # "none"))
        /\ items' = IF ok THEN [items EXCEPT ![a.item] = Written(a.kind)] ELSE items
        /\ givenIds' = IF ok /\ a.kind = "create" THEN givenIds \cup {a.item} ELSE givenIds
        /\ cardAsks' = RemoveAt(cardAsks, n)
        /\ cardReplies' = Append([m \in DOMAIN cardReplies |-> [cardReplies[m] EXCEPT !.old = @ \/ (ok /\ ~told)]],
                                 [a EXCEPT !.ok = told])
        /\ listOld' = (listOld \/ (ok /\ ~told))
        /\ staleToken' = IF ok /\ ~told THEN staleToken \cup {a.item} ELSE staleToken
        /\ UNCHANGED <<cardKind, itemName, cardList, sending, handed, keepsToken>>
  BY DEF ServeChange
<1> DEFINE x == [a EXCEPT !.ok = told]
           lost == ok /\ ~told
<1>2. a \in CardCall /\ a.item \in ItemIds /\ Unserved(a) /\ WellMade(a)
  BY <1>0, <1>1, ElementOfSeq, LenProperties DEF CardTyped, WellMade
<1>3. /\ x \in CardCall /\ x.kind = a.kind /\ x.item = a.item /\ x.ok = told /\ ~x.old /\ x.clears = a.clears
      /\ x.rows = NothingRead.rows /\ WellMade(x)
  BY <1>2 DEF CardCall, WellMade, Unserved
<1>4. lost \in BOOLEAN /\ cardReplies' = Append([m \in DOMAIN cardReplies |-> [cardReplies[m] EXCEPT !.old = @ \/ lost]], x)
  BY <1>1
<1> HIDE DEF x, a, lost
<1>5. AsksShrink(n)
  BY <1>0, <1>1, AsksServed
<1>6. RepliesGrow(x, lost)
  BY <1>0, <1>3, <1>4, RepliesAppended
<1>7. UNCHANGED <<cardKind, itemName, cardList, sending, handed, keepsToken>>
  BY <1>1
<1>8. Len(cardReplies) \in Nat /\ Len(cardAsks) \in Nat
  BY <1>0, LenProperties DEF CardTyped
<1>9. \A k \in DOMAIN cardAsks' : \E j \in DOMAIN cardAsks \ {n} : cardAsks'[k] = cardAsks[j]
  BY <1>5 DEF AsksShrink
<1>10. \A l \in DOMAIN cardReplies' : Same(cardReplies'[l], x) \/ \E j \in DOMAIN cardReplies : Same(cardReplies'[l], cardReplies[j])
  BY <1>6 DEF RepliesGrow, Same
<1>11. Written(a.kind) \in Statuses
  BY DEF Written, Statuses
<1>12. CardTyped'
  <2>1. items' \in [ItemIds -> Statuses] /\ givenIds' \subseteq ItemIds /\ staleToken' \subseteq ItemIds /\ listOld' \in BOOLEAN
    BY <1>0, <1>1, <1>2, <1>11 DEF SettingsTypeOK
  <2>2. SettingsTypeOK'
    BY <1>0, <1>5, <1>6, <1>7, <1>8, <2>1 DEF SettingsTypeOK, AsksShrink, RepliesGrow
  <2>3. \A m \in DOMAIN cardAsks' : Unserved(cardAsks'[m]) /\ WellMade(cardAsks'[m])
    BY <1>0, <1>9 DEF CardTyped
  <2>4. \A m \in DOMAIN cardReplies' : WellMade(cardReplies'[m])
    BY <1>0, <1>3, <1>10 DEF CardTyped, Same, WellMade
  <2> QED
    BY <1>5, <1>6, <1>7, <2>2, <2>3, <2>4 DEF CardTyped, AsksShrink, RepliesGrow, WellMade
<1>13. TokenKept'
  BY <1>0, <1>3, <1>7, <1>9, <1>10 DEF TokenKept, Same, a
<1>14. OneCreate'
  <2>1. \A m \in DOMAIN cardReplies' : cardReplies'[m].kind = "create" =>
          \/ m \in DOMAIN cardReplies /\ cardReplies[m].kind = "create"
          \/ m = Len(cardReplies) + 1 /\ a.kind = "create"
    BY <1>3, <1>6 DEF RepliesGrow, Same
  <2>2. \A l, m \in DOMAIN cardAsks' : Src(n, l) = Src(n, m) => l = m
    BY <1>5, <1>8, SrcKeepsOrder, LenProperties DEF AsksShrink
  <2>3. a.kind = "create" => /\ sending /\ \A m \in DOMAIN cardReplies : cardReplies[m].kind # "create"
                             /\ \A m \in DOMAIN cardAsks \ {n} : cardAsks[m].kind # "create"
    BY <1>0 DEF OneCreate, a
  <2>4. \A m \in DOMAIN cardAsks' : cardAsks'[m].kind = "create" => sending /\ \A l \in DOMAIN cardReplies' : cardReplies'[l].kind # "create"
    BY <1>0, <1>9, <2>1, <2>3 DEF OneCreate
  <2>5. \A l, m \in DOMAIN cardAsks' : cardAsks'[l].kind = "create" /\ cardAsks'[m].kind = "create" => l = m
    BY <1>0, <1>5, <2>2 DEF OneCreate, AsksShrink
  <2>6. \A m \in DOMAIN cardReplies' : cardReplies'[m].kind = "create" => sending
    BY <1>0, <2>1, <2>3 DEF OneCreate
  <2>7. \A l, m \in DOMAIN cardReplies' : cardReplies'[l].kind = "create" /\ cardReplies'[m].kind = "create" => l = m
    BY <1>0, <2>1, <2>3 DEF OneCreate
  <2> QED
    BY <1>7, <2>4, <2>5, <2>6, <2>7 DEF OneCreate
<1>15. KeyLives'
  <2> SUFFICES ASSUME cardKind = "keys" PROVE KeyLives'
    BY <1>7 DEF KeyLives
  <2>1. NewKey(a) /\ NotedDown(a) /\ (a.kind = "create" => a.item \notin givenIds) /\ a.kind \in {"create", "revoke", "remove"}
    BY <1>0, <1>1, <1>2 DEF KeyLives, a, WellMade, CardCall
  <2>2. /\ RowsWereMade(items)' /\ RowsWereMade(cardList.rows)' /\ \A m \in DOMAIN cardReplies' : RowsWereMade(cardReplies[m].rows)'
        /\ handed' # "none" => handed' \in givenIds'
    <3>1. givenIds \subseteq givenIds'
      BY <1>1
    <3>2. \A i \in ItemIds : items'[i] # "none" => items[i] # "none" \/ i \in givenIds'
      BY <1>0, <1>1, <1>2, <2>1 DEF SettingsTypeOK, NotedDown
    <3>3. \A m \in DOMAIN cardReplies' : \/ cardReplies'[m].rows = NothingRead.rows
                                         \/ \E j \in DOMAIN cardReplies : cardReplies'[m].rows = cardReplies[j].rows
      BY <1>3, <1>10 DEF Same
    <3> QED
      BY <1>0, <1>7, <3>1, <3>2, <3>3 DEF KeyLives, RowsWereMade, NothingRead
  <2>3. \A m \in DOMAIN cardAsks' : NewKey(cardAsks[m])' /\ (cardAsks'[m].kind = "create" => cardAsks'[m].item \notin givenIds')
    <3> SUFFICES ASSUME NEW m \in DOMAIN cardAsks'
                 PROVE  NewKey(cardAsks[m])' /\ (cardAsks'[m].kind = "create" => cardAsks'[m].item \notin givenIds')
      OBVIOUS
    <3>1. PICK k \in DOMAIN cardAsks \ {n} : cardAsks'[m] = cardAsks[k]
      BY <1>9
    <3>2. NewKey(cardAsks[k]) /\ Unserved(cardAsks[k]) /\ (cardAsks[k].kind = "create" => cardAsks[k].item \notin givenIds)
      BY <1>0 DEF KeyLives, CardTyped
    <3>3. cardAsks[k].kind = "create" => a.kind # "create"
      BY <1>0 DEF OneCreate, a
    <3> QED
      BY <1>1, <1>7, <3>1, <3>2, <3>3 DEF NewKey, Unserved
  <2>4. \A m \in DOMAIN cardAsks' : NotedDown(cardAsks[m])'
    <3> SUFFICES ASSUME NEW m \in DOMAIN cardAsks', cardAsks'[m].kind \in {"revoke", "remove"} PROVE NotedDown(cardAsks[m])'
      BY DEF NotedDown
    <3>1. PICK k \in DOMAIN cardAsks \ {n} : cardAsks'[m] = cardAsks[k]
      BY <1>9
    <3>2. NotedDown(cardAsks[k])
      BY <1>0 DEF KeyLives
    <3>3. givenIds \subseteq givenIds' /\ staleToken \subseteq staleToken'
      BY <1>1
    <3>4. cardAsks[k].item # a.item \/ a.kind # "create"
      BY <2>1, <3>1, <3>2 DEF NotedDown
    <3>5. \A l \in DOMAIN cardReplies' : cardReplies'[l].kind = "create" =>
            \/ a.kind = "create" /\ cardReplies'[l].item = a.item
            \/ \E j \in DOMAIN cardReplies : cardReplies[j].kind = "create" /\ cardReplies'[l].item = cardReplies[j].item
      BY <1>3, <1>10 DEF Same
    <3> QED
      BY <3>1, <3>2, <3>3, <3>4, <3>5 DEF NotedDown
  <2>5. \A m \in DOMAIN cardReplies' : NewKey(cardReplies[m])'
    <3>1. ASSUME NEW m \in DOMAIN cardReplies', Same(cardReplies'[m], x) PROVE NewKey(cardReplies[m])'
      <4>1. CASE a.kind = "create"
        <5>1. a.item # handed /\ (ok => items'[a.item] = "live" /\ a.item \in givenIds')
          BY <1>0, <1>1, <1>2, <2>1, <4>1 DEF NewKey, Written, SettingsTypeOK
        <5> QED
          BY <1>1, <1>3, <1>7, <3>1, <5>1 DEF NewKey, Same
      <4>2. CASE a.kind # "create"
        BY <1>3, <3>1, <4>2 DEF NewKey, Same
      <4> QED
        BY <4>1, <4>2
    <3>2. ASSUME NEW m \in DOMAIN cardReplies', NEW j \in DOMAIN cardReplies, Same(cardReplies'[m], cardReplies[j])
          PROVE  NewKey(cardReplies[m])'
      <4> SUFFICES ASSUME cardReplies[j].kind = "create" PROVE NewKey(cardReplies[m])'
        BY <3>2 DEF NewKey, Same
      <4>1. NewKey(cardReplies[j]) /\ cardReplies[j].item \in ItemIds
        BY <1>0 DEF KeyLives, CardTyped, WellMade
      <4>2. a.kind # "create"
        BY <1>0 DEF OneCreate, a
      <4>3. cardReplies[j].item \in staleToken \/ cardReplies[j].item # a.item
        <5>1. CASE a.item \in staleToken
          BY <5>1
        <5>2. CASE a.item \notin staleToken
          BY <2>1, <4>2, <5>2 DEF NotedDown
        <5> QED
          BY <5>1, <5>2
      <4>4. cardReplies[j].item # a.item => items'[cardReplies[j].item] = items[cardReplies[j].item]
        BY <1>0, <1>1, <1>2, <4>1 DEF SettingsTypeOK
      <4>5. givenIds \subseteq givenIds' /\ staleToken \subseteq staleToken'
        BY <1>1
      <4> QED
        BY <1>7, <3>2, <4>1, <4>3, <4>4, <4>5 DEF NewKey, Same
    <3> QED
      BY <1>10, <3>1, <3>2
  <2>6. \/ handed' \in staleToken' \cup {"none"} \/ items'[handed'] = "live"
        \/ \E m \in DOMAIN cardReplies' : Hides(cardReplies[m])'
    <3>1. staleToken \subseteq staleToken' /\ handed' = handed
      BY <1>1
    <3>2. CASE handed \in staleToken \cup {"none"}
      BY <3>1, <3>2
    <3>3. CASE \E m \in DOMAIN cardReplies : Hides(cardReplies[m])
      BY <1>6, <3>3 DEF Hides, RepliesGrow, Same
    <3>4. CASE items[handed] = "live" /\ handed \notin staleToken \cup {"none"}
      <4>1. CASE handed # a.item \/ ~ok
        <5>1. handed \in ItemIds
          BY <1>0, <3>4 DEF SettingsTypeOK
        <5>2. items'[handed] = items[handed]
          BY <1>0, <1>1, <1>2, <4>1, <5>1 DEF SettingsTypeOK
        <5> QED
          BY <3>1, <3>4, <5>2
      <4>2. CASE handed = a.item /\ ok
        <5>1. a.kind \in {"revoke", "remove"} /\ a.clears
          BY <2>1, <3>4, <4>2 DEF NewKey, NotedDown
        <5>2. CASE told
          <6>1. PICK last \in DOMAIN cardReplies' : cardReplies'[last] = x
            BY <1>6 DEF RepliesGrow
          <6>2. cardReplies'[last].kind \in {"revoke", "remove"} /\ cardReplies'[last].ok /\ cardReplies'[last].clears
            BY <1>3, <5>1, <5>2, <6>1
          <6> QED
            BY <6>2 DEF Hides
        <5>3. CASE ~told
          BY <1>1, <3>1, <4>2, <5>3
        <5> QED
          BY <5>2, <5>3
      <4> QED
        BY <4>1, <4>2
    <3> QED
      BY <1>0, <3>2, <3>3, <3>4 DEF KeyLives
  <2> QED
    BY <1>7, <2>2, <2>3, <2>4, <2>5, <2>6 DEF KeyLives
<1>16. LastListIsTrue'
  <2>1. PICK last \in DOMAIN cardReplies' : last = Len(cardReplies) + 1 /\ cardReplies'[last] = x
    BY <1>6 DEF RepliesGrow
  <2>2. \A l, m \in DOMAIN cardReplies' : l < m /\ cardReplies'[m].old => cardReplies'[l].old
    BY <1>0, <1>3, <1>6, <2>1 DEF LastListIsTrue, RepliesGrow
  <2>3. CASE told
    <3>1. cardReplies'[last].kind # "list" /\ cardReplies'[last].ok
      BY <1>1, <1>3, <2>1, <2>3
    <3> QED
      BY <2>2, <3>1 DEF LastListIsTrue, ReadsAgain
  <2>4. CASE lost
    <3>1. \A m \in DOMAIN cardReplies' : ~NewList(m)'
      BY <1>1, <1>3, <1>6, <2>1, <2>4 DEF NewList, RepliesGrow, a
    <3>2. listOld'
      BY <1>1, <2>4 DEF lost
    <3> QED
      BY <2>2, <3>1, <3>2 DEF LastListIsTrue
  <2>5. CASE ~ok
    <3>1. items' = items /\ listOld' = listOld /\ ~lost /\ ~x.ok
      BY <1>0, <1>1, <1>3, <2>5 DEF lost, SettingsTypeOK
    <3>2. ReadsAgain => ReadsAgain'
      <4>1. ASSUME NEW k \in DOMAIN cardAsks, cardAsks[k].kind = "list" PROVE ReadsAgain'
        <5>1. k # n
          BY <1>1, <4>1 DEF a
        <5>2. PICK m \in DOMAIN cardAsks' : cardAsks'[m] = cardAsks[k]
          BY <1>5, <5>1 DEF AsksShrink
        <5> QED
          BY <4>1, <5>2 DEF ReadsAgain
      <4>2. ASSUME NEW k \in DOMAIN cardReplies, cardReplies[k].kind # "list" /\ cardReplies[k].ok PROVE ReadsAgain'
        BY <1>6, <4>2 DEF ReadsAgain, RepliesGrow, Same
      <4> QED
        BY <4>1, <4>2 DEF ReadsAgain
    <3>3. \A m \in DOMAIN cardReplies : m \in DOMAIN cardReplies' /\ NewList(m)' = NewList(m) /\ Same(cardReplies'[m], cardReplies[m])
      BY <1>6, <3>1 DEF NewList, RepliesGrow, Same
    <3>4. ~NewList(last)' /\ \A m \in DOMAIN cardReplies' : m \in DOMAIN cardReplies \/ m = last
      BY <1>1, <1>3, <1>6, <2>1 DEF NewList, RepliesGrow, a
    <3> QED
      BY <1>0, <1>7, <2>2, <3>1, <3>2, <3>3, <3>4 DEF LastListIsTrue, Same
  <2> QED
    BY <1>1, <2>3, <2>4, <2>5 DEF lost
<1> QED
  BY <1>12, <1>13, <1>14, <1>15, <1>16 DEF SettingsInv

\* A list arrives.
LEMMA ListArrives ==
  ASSUME SettingsInv, clicks' = clicks, NEW n \in DOMAIN cardReplies, ArriveList(n) PROVE SettingsInv'
<1>0. CardTyped /\ TokenKept /\ OneCreate /\ KeyLives /\ LastListIsTrue /\ SettingsTypeOK
  BY DEF SettingsInv, CardTyped
<1> DEFINE a == cardReplies[n]
<1>1. a \in CardCall /\ a.kind = "list"
  BY <1>0, ElementOfSeq, LenProperties DEF CardTyped, ArriveList
<1>2. RepliesShrink(n, TRUE)
  BY <1>0, RepliesTaken DEF ArriveList
<1>3. /\ cardList' = IF a.ok THEN [rows |-> a.rows, read |-> TRUE, err |-> FALSE]
                     ELSE IF cardKind = "invites" THEN [NothingRead EXCEPT !.read = TRUE]
                     ELSE [cardList EXCEPT !.err = TRUE]
      /\ listOld' = IF a.ok THEN a.old ELSE (listOld \/ cardKind = "invites")
  BY DEF ArriveList
<1>4. UNCHANGED <<cardKind, items, itemName, givenIds, sending, cardAsks, handed, keepsToken, staleToken>>
  BY DEF ArriveList, serverRows, tokenSide
<1> HIDE DEF a
<1>5. Len(cardReplies) \in Nat /\ Len(cardAsks) \in Nat
  BY <1>0, LenProperties DEF CardTyped
<1>6. \A l \in DOMAIN cardReplies' : \E j \in DOMAIN cardReplies \ {n} : Same(cardReplies'[l], cardReplies[j])
  BY <1>2 DEF RepliesShrink
<1>7. \A j \in DOMAIN cardReplies \ {n} : \E l \in DOMAIN cardReplies' : Same(cardReplies'[l], cardReplies[j])
  BY <1>2 DEF RepliesShrink
<1>8. /\ cardList' \in [rows : [ItemIds -> Statuses], read : BOOLEAN, err : BOOLEAN]
      /\ cardList'.rows \in {a.rows, NothingRead.rows, cardList.rows}
  <2>1. NothingRead \in [rows : [ItemIds -> Statuses], read : BOOLEAN, err : BOOLEAN]
    BY DEF NothingRead, Statuses
  <2> QED
    BY <1>0, <1>1, <1>3, <2>1 DEF SettingsTypeOK, CardCall
<1>9. CardTyped'
  <2>1. SettingsTypeOK'
    <3>1. listOld' \in BOOLEAN
      BY <1>0, <1>1, <1>3 DEF SettingsTypeOK, CardCall
    <3>2. Len(cardAsks') + Len(cardReplies') <= MaxCardCalls + 1
      BY <1>0, <1>2, <1>4, <1>5, SettingsPageAssumption DEF SettingsTypeOK, RepliesShrink
    <3> QED
      BY <1>0, <1>4, <1>8, <3>1, <3>2 DEF SettingsTypeOK
  <2>2. \A m \in DOMAIN cardReplies' : WellMade(cardReplies'[m])
    BY <1>0, <1>6 DEF CardTyped, Same, WellMade
  <2> QED
    BY <1>0, <1>2, <1>4, <2>1, <2>2 DEF CardTyped, RepliesShrink, WellMade
<1>10. TokenKept'
  BY <1>0, <1>4, <1>6 DEF TokenKept, Same
<1>11. OneCreate'
  <2>1. \A l, m \in DOMAIN cardReplies' : Src(n, l) = Src(n, m) => l = m
    BY <1>2, <1>5, SrcKeepsOrder, LenProperties DEF RepliesShrink
  <2>2. \A l, m \in DOMAIN cardReplies' : cardReplies'[l].kind = "create" /\ cardReplies'[m].kind = "create" => l = m
    BY <1>0, <1>2, <2>1 DEF OneCreate, RepliesShrink, Same
  <2> QED
    BY <1>0, <1>4, <1>6, <2>2 DEF OneCreate, Same
<1>12. KeyLives'
  <2> SUFFICES ASSUME cardKind = "keys" PROVE KeyLives'
    BY <1>4 DEF KeyLives
  <2>1. RowsWereMade(cardList.rows)' /\ \A m \in DOMAIN cardReplies' : RowsWereMade(cardReplies[m].rows)'
    <3>1. RowsWereMade(a.rows) /\ RowsWereMade(NothingRead.rows) /\ RowsWereMade(cardList.rows)
      BY <1>0 DEF KeyLives, RowsWereMade, NothingRead, a
    <3>2. \A m \in DOMAIN cardReplies' : RowsWereMade(cardReplies'[m].rows)
      BY <1>0, <1>6 DEF KeyLives, Same
    <3> QED
      BY <1>4, <1>8, <3>1, <3>2 DEF RowsWereMade
  <2>2. \A m \in DOMAIN cardAsks' : NewKey(cardAsks[m])' /\ NotedDown(cardAsks[m])'
    BY <1>0, <1>4, <1>6 DEF KeyLives, NewKey, NotedDown, Same
  <2>3. \A m \in DOMAIN cardReplies' : NewKey(cardReplies[m])'
    BY <1>0, <1>4, <1>6 DEF KeyLives, NewKey, Same
  <2>4. \/ handed' \in staleToken' \cup {"none"} \/ items'[handed'] = "live"
        \/ \E m \in DOMAIN cardReplies' : Hides(cardReplies[m])'
    <3>1. ~Hides(cardReplies[n])
      BY <1>1 DEF Hides, a
    <3>2. handed \in staleToken \cup {"none"} \/ items[handed] = "live" \/ \E m \in DOMAIN cardReplies \ {n} : Hides(cardReplies[m])
      BY <1>0, <3>1 DEF KeyLives
    <3> QED
      BY <1>4, <1>7, <3>2 DEF Hides, Same
  <2> QED
    BY <1>0, <1>4, <2>1, <2>2, <2>3, <2>4 DEF KeyLives, RowsWereMade
<1>13. LastListIsTrue'
  <2>0. \A l, m \in DOMAIN cardReplies' : l < m <=> Src(n, l) < Src(n, m)
    BY <1>2, <1>5, SrcKeepsOrder, LenProperties DEF RepliesShrink
  <2>1. \A l, m \in DOMAIN cardReplies' : l < m /\ cardReplies'[m].old => cardReplies'[l].old
    <3> SUFFICES ASSUME NEW l \in DOMAIN cardReplies', NEW m \in DOMAIN cardReplies', l < m, cardReplies'[m].old
                 PROVE  cardReplies'[l].old
      OBVIOUS
    <3>1. /\ Src(n, l) < Src(n, m) /\ Src(n, l) \in DOMAIN cardReplies /\ Src(n, m) \in DOMAIN cardReplies
          /\ Src(n, l) \in Int /\ Src(n, m) \in Int /\ n \in Int
      BY <1>0, <1>2, <2>0, LenProperties DEF RepliesShrink, CardTyped
    <3>2. cardReplies[Src(n, m)].old \/ Src(n, m) < n
      BY <1>2 DEF RepliesShrink
    <3>3. cardReplies[Src(n, l)].old \/ Src(n, l) < n
      BY <1>0, <3>1, <3>2 DEF LastListIsTrue
    <3> QED
      BY <1>2, <3>3 DEF RepliesShrink
  <2>2. CASE ReadsAgain
    <3>1. ReadsAgain'
      BY <1>1, <1>4, <1>7, <2>2 DEF ReadsAgain, Same, a
    <3> QED
      BY <2>1, <3>1 DEF LastListIsTrue
  <2>3. CASE ~ReadsAgain
    <3>1. \A l \in DOMAIN cardReplies' : NewList(l)' <=> NewList(Src(n, l)) /\ n < Src(n, l)
      BY <1>0, <1>2, LenProperties DEF NewList, RepliesShrink, Same, CardTyped
    <3>2. \A j \in DOMAIN cardReplies : NewList(j) /\ n < j => \E l \in DOMAIN cardReplies' : Src(n, l) = j /\ NewList(l)'
      BY <1>0, <1>2, <3>1, LenProperties DEF RepliesShrink, CardTyped
    <3>3. \A l \in DOMAIN cardReplies' : NewList(l)' /\ cardReplies'[l].ok =>
            cardReplies'[l].rows = items' \/ \E m \in DOMAIN cardReplies' : l < m /\ NewList(m)'
      <4> SUFFICES ASSUME NEW l \in DOMAIN cardReplies', NewList(l)', cardReplies'[l].ok, cardReplies'[l].rows # items'
                   PROVE  \E m \in DOMAIN cardReplies' : l < m /\ NewList(m)'
        OBVIOUS
      <4>1. /\ Src(n, l) \in DOMAIN cardReplies /\ NewList(Src(n, l)) /\ n < Src(n, l)
            /\ cardReplies[Src(n, l)].ok /\ cardReplies[Src(n, l)].rows # items
        BY <1>2, <1>4, <3>1 DEF RepliesShrink, Same
      <4>2. PICK j \in DOMAIN cardReplies : Src(n, l) < j /\ NewList(j)
        BY <1>0, <2>3, <4>1 DEF LastListIsTrue
      <4>3. n < j
        BY <1>0, <4>1, <4>2, LenProperties DEF CardTyped
      <4>4. PICK m \in DOMAIN cardReplies' : Src(n, m) = j /\ NewList(m)'
        BY <3>2, <4>2, <4>3
      <4> QED
        BY <2>0, <4>2, <4>4
    <3>4. (\E l \in DOMAIN cardReplies' : NewList(l)') \/ listOld' \/ cardList'.err \/ cardList'.rows = items'
      <4>1. CASE \E j \in DOMAIN cardReplies : n < j /\ NewList(j)
        BY <3>2, <4>1
      <4>2. CASE ~ \E j \in DOMAIN cardReplies : n < j /\ NewList(j)
        <5>1. CASE a.ok
          <6>1. NewList(n) => a.rows = items
            BY <1>0, <2>3, <4>2, <5>1 DEF LastListIsTrue, a
          <6> QED
            BY <1>1, <1>3, <1>4, <5>1, <6>1 DEF NewList, a
        <5>2. CASE ~a.ok
          BY <1>0, <1>3, <5>2 DEF SettingsTypeOK
        <5> QED
          BY <5>1, <5>2
      <4> QED
        BY <4>1, <4>2
    <3> QED
      BY <2>1, <3>3, <3>4 DEF LastListIsTrue
  <2> QED
    BY <2>2, <2>3
<1> QED
  BY <1>9, <1>10, <1>11, <1>12, <1>13 DEF SettingsInv

\* The answer to a write arrives, which may be followed by another read.
LEMMA WriteArrives ==
  ASSUME SettingsInv, clicks' = clicks, NEW n \in DOMAIN cardReplies, ArriveCreated(n) \/ ArriveWithdrawn(n) PROVE SettingsInv'
<1>0. CardTyped /\ TokenKept /\ OneCreate /\ KeyLives /\ LastListIsTrue /\ SettingsTypeOK
  BY DEF SettingsInv, CardTyped
<1> DEFINE a == cardReplies[n]
           clearing == \E s \in {cardAsks, cardReplies} : \E m \in DOMAIN s : s[m].clears
<1>1. a \in CardCall /\ a.kind # "list" /\ a.item \in ItemIds
  BY <1>0, ElementOfSeq, LenProperties DEF CardTyped, ArriveCreated, ArriveWithdrawn, WellMade, RoleKinds
<1>2. RepliesShrink(n, FALSE)
  <2>1. cardReplies' = RemoveAt(cardReplies, n)
    BY DEF ArriveCreated, ArriveWithdrawn
  <2> QED
    BY <1>0, <2>1, RepliesTaken
<1>3. AsksGrow(ListAsk) /\ Len(cardAsks') <= Len(cardAsks) + 1 /\ (a.ok => \E m \in DOMAIN cardAsks' : cardAsks'[m].kind = "list")
  <2>1. cardAsks' = cardAsks \/ cardAsks' = Append(cardAsks, ListAsk)
    BY DEF ArriveCreated, ArriveWithdrawn
  <2>2. a.ok => cardAsks' = Append(cardAsks, ListAsk)
    BY DEF ArriveCreated, ArriveWithdrawn
  <2>3. AsksGrow(ListAsk)
    BY <1>0, <2>1, AsksAppended, AsksStay, CallsTyped
  <2>4. cardAsks' = Append(cardAsks, ListAsk) => \E m \in DOMAIN cardAsks' : cardAsks'[m] = ListAsk
    BY <1>0, AsksAppended, CallsTyped
  <2> QED
    BY <2>2, <2>3, <2>4, CallsTyped DEF AsksGrow
<1>4. UNCHANGED <<cardKind, items, itemName, givenIds, cardList, staleToken, listOld>>
  BY DEF ArriveCreated, ArriveWithdrawn, serverRows
<1>5. Len(cardReplies) \in Nat /\ Len(cardAsks) \in Nat
  BY <1>0, LenProperties DEF CardTyped
<1>6. \A l \in DOMAIN cardReplies' : \E j \in DOMAIN cardReplies \ {n} : Same(cardReplies'[l], cardReplies[j])
  BY <1>2 DEF RepliesShrink
<1>7. \A j \in DOMAIN cardReplies \ {n} : \E l \in DOMAIN cardReplies' : Same(cardReplies'[l], cardReplies[j])
  BY <1>2 DEF RepliesShrink
<1>8. /\ ArriveCreated(n) => a.kind = "create" /\ sending' = FALSE
      /\ ~ArriveCreated(n) => a.kind # "create" /\ sending' = sending
  BY DEF ArriveCreated, ArriveWithdrawn, RoleKinds
<1>9. /\ handed' \in ItemIds \cup {"none"} /\ keepsToken' \subseteq ItemIds /\ TokenKept'
      /\ cardKind = "keys" /\ handed' # handed => handed' = "none" \/ (handed' \in givenIds /\ (handed' \in staleToken \/ items[handed'] = "live"))
      /\ handed' \in {handed, "none"} \/ \A m \in DOMAIN cardAsks : cardAsks[m].kind # "create"
      /\ handed' \in {handed, "none"} \/ \A m \in DOMAIN cardReplies \ {n} : cardReplies[m].kind # "create"
      /\ handed' = handed => ~Hides(a) \/ handed = "none"
  <2>1. CASE ArriveCreated(n) /\ a.ok
    <3>1. handed' = a.item /\ keepsToken' = IF clearing THEN {} ELSE {a.item}
      BY <2>1 DEF ArriveCreated
    <3>2. TokenKept'
      <4>1. CASE clearing
        BY <1>2, <1>3, <3>1, <4>1 DEF TokenKept
      <4>2. CASE ~clearing
        <5>1. (\A m \in DOMAIN cardAsks : ~cardAsks[m].clears) /\ (\A m \in DOMAIN cardReplies : ~cardReplies[m].clears)
          BY <4>2
        <5>2. \A m \in DOMAIN cardAsks' : ~cardAsks'[m].clears
          BY <1>3, <5>1, CallsTyped DEF AsksGrow
        <5>3. \A m \in DOMAIN cardReplies' : ~cardReplies'[m].clears
          BY <1>6, <5>1 DEF Same
        <5> QED
          BY <3>1, <4>2, <5>2, <5>3 DEF TokenKept
      <4> QED
        BY <4>1, <4>2
    <3>3. handed' \in ItemIds /\ keepsToken' \subseteq ItemIds
      BY <1>1, <3>1
    <3>4. cardKind = "keys" => handed' \in givenIds /\ (handed' \in staleToken \/ items[handed'] = "live")
      BY <1>0, <1>8, <2>1, <3>1 DEF KeyLives, NewKey
    <3>5. \A m \in DOMAIN cardAsks : cardAsks[m].kind # "create"
      BY <1>0, <1>8, <2>1 DEF OneCreate
    <3>6. \A m \in DOMAIN cardReplies \ {n} : cardReplies[m].kind # "create"
      BY <1>0, <1>8, <2>1 DEF OneCreate
    <3>7. ~Hides(a)
      BY <1>8, <2>1 DEF Hides
    <3> QED
      BY <3>2, <3>3, <3>4, <3>5, <3>6, <3>7
  <2>2. CASE ~(ArriveCreated(n) /\ a.ok)
    <3>1. keepsToken' = keepsToken /\ (handed' = handed \/ (handed' = "none" /\ a.clears))
      BY <2>2 DEF ArriveCreated, ArriveWithdrawn, TokenAfter
    <3>2. handed' = handed => ~Hides(a) \/ handed = "none"
      BY <2>2 DEF ArriveCreated, ArriveWithdrawn, TokenAfter, Hides
    <3>3. \A m \in DOMAIN cardAsks' : cardAsks'[m].clears => keepsToken = {}
      BY <1>0, <1>3, CallsTyped DEF AsksGrow, TokenKept
    <3>4. \A m \in DOMAIN cardReplies' : cardReplies'[m].clears => keepsToken = {}
      BY <1>0, <1>6 DEF TokenKept, Same
    <3>5. keepsToken \subseteq {handed'}
      BY <1>0, <3>1 DEF TokenKept
    <3> QED
      BY <1>0, <3>1, <3>2, <3>3, <3>4, <3>5 DEF TokenKept, SettingsTypeOK
  <2> QED
    BY <2>1, <2>2
<1> HIDE DEF a, clearing
<1>10. CardTyped'
  <2>1. sending' \in BOOLEAN
    BY <1>0, <1>8 DEF SettingsTypeOK
  <2>2. Len(cardAsks') + Len(cardReplies') <= MaxCardCalls + 1
    <3>1. Len(cardAsks') \in Nat /\ Len(cardReplies') = Len(cardReplies) - 1
      BY <1>2, <1>3, LenProperties DEF RepliesShrink, AsksGrow
    <3> QED
      BY <1>0, <1>3, <1>5, <3>1, SettingsPageAssumption DEF SettingsTypeOK
  <2>3. SettingsTypeOK'
    BY <1>0, <1>4, <1>9, <2>1, <2>2 DEF SettingsTypeOK
  <2>4. \A m \in DOMAIN cardAsks' : Unserved(cardAsks'[m]) /\ WellMade(cardAsks'[m])
    BY <1>0, <1>3, CallsTyped DEF CardTyped, AsksGrow, WellMade, RoleKinds
  <2>5. \A m \in DOMAIN cardReplies' : WellMade(cardReplies'[m])
    BY <1>0, <1>6 DEF CardTyped, Same, WellMade
  <2> QED
    BY <1>2, <1>3, <1>4, <2>3, <2>4, <2>5 DEF CardTyped, RepliesShrink, AsksGrow, WellMade
<1>11. OneCreate'
  <2>1. \A l, m \in DOMAIN cardReplies' : Src(n, l) = Src(n, m) => l = m
    BY <1>2, <1>5, SrcKeepsOrder, LenProperties DEF RepliesShrink
  <2>2. \A l, m \in DOMAIN cardReplies' : cardReplies'[l].kind = "create" /\ cardReplies'[m].kind = "create" => l = m
    BY <1>0, <1>2, <2>1 DEF OneCreate, RepliesShrink, Same
  <2>3. \A m \in DOMAIN cardAsks' : cardAsks'[m].kind = "create" => m \in DOMAIN cardAsks /\ cardAsks[m].kind = "create"
    BY <1>3, CallsTyped DEF AsksGrow
  <2>4. CASE a.kind = "create"
    <3>1. \A m \in DOMAIN cardAsks : cardAsks[m].kind # "create"
      BY <1>0, <2>4 DEF OneCreate, a
    <3>2. \A m \in DOMAIN cardReplies \ {n} : cardReplies[m].kind # "create"
      BY <1>0, <2>4 DEF OneCreate, a
    <3>3. \A m \in DOMAIN cardReplies' : cardReplies'[m].kind # "create"
      BY <1>6, <3>2 DEF Same
    <3> QED
      BY <2>3, <3>1, <3>3 DEF OneCreate
  <2>5. CASE a.kind # "create"
    BY <1>0, <1>6, <1>8, <2>2, <2>3, <2>5 DEF OneCreate, Same
  <2> QED
    BY <2>4, <2>5
<1>12. KeyLives'
  <2> SUFFICES ASSUME cardKind = "keys" PROVE KeyLives'
    BY <1>4 DEF KeyLives
  <2>1. \A m \in DOMAIN cardReplies' : RowsWereMade(cardReplies[m].rows)'
    <3>1. \A m \in DOMAIN cardReplies' : RowsWereMade(cardReplies'[m].rows)
      BY <1>0, <1>6 DEF KeyLives, Same
    <3> QED
      BY <1>4, <3>1 DEF RowsWereMade
  <2>2. \A m \in DOMAIN cardAsks : NewKey(cardAsks[m])' /\ NotedDown(cardAsks[m])'
    <3> SUFFICES ASSUME NEW m \in DOMAIN cardAsks PROVE NewKey(cardAsks[m])' /\ NotedDown(cardAsks[m])'
      OBVIOUS
    <3>1. m \in DOMAIN cardAsks' /\ cardAsks'[m] = cardAsks[m]
      BY <1>3 DEF AsksGrow
    <3>2. NewKey(cardAsks[m]) /\ NotedDown(cardAsks[m]) /\ (cardAsks[m].kind = "create" => cardAsks[m].item \in ItemIds)
      BY <1>0 DEF KeyLives, CardTyped, WellMade
    <3>3. NewKey(cardAsks[m])'
      BY <1>4, <1>9, <3>1, <3>2, SettingsPageAssumption DEF NewKey
    <3>4. NotedDown(cardAsks[m])'
      BY <1>4, <1>6, <3>1, <3>2 DEF NotedDown, Same
    <3> QED
      BY <3>3, <3>4
  <2>3. \A m \in DOMAIN cardAsks' : NewKey(cardAsks[m])' /\ NotedDown(cardAsks[m])'
    BY <1>3, <2>2, CallsTyped DEF AsksGrow, NewKey, NotedDown
  <2>4. \A m \in DOMAIN cardReplies' : NewKey(cardReplies[m])'
    <3> SUFFICES ASSUME NEW m \in DOMAIN cardReplies', cardReplies'[m].kind = "create" PROVE NewKey(cardReplies[m])'
      BY DEF NewKey
    <3>1. PICK j \in DOMAIN cardReplies \ {n} : Same(cardReplies'[m], cardReplies[j])
      BY <1>6
    <3>2. NewKey(cardReplies[j]) /\ cardReplies[j].kind = "create" /\ cardReplies[j].item \in ItemIds
      BY <1>0, <3>1 DEF KeyLives, CardTyped, WellMade, Same
    <3>3. handed' \in {handed, "none"}
      BY <1>9, <3>1, <3>2
    <3> QED
      BY <1>4, <3>1, <3>2, <3>3, SettingsPageAssumption DEF NewKey, Same
  <2>5. \/ handed' \in staleToken' \cup {"none"} \/ items'[handed'] = "live"
        \/ \E m \in DOMAIN cardReplies' : Hides(cardReplies[m])'
    <3>1. CASE handed' # handed
      BY <1>4, <1>9, <3>1
    <3>2. CASE handed' = handed /\ handed # "none"
      <4>1. ~Hides(cardReplies[n])
        BY <1>9, <3>2 DEF a
      <4>2. handed \in staleToken \cup {"none"} \/ items[handed] = "live" \/ \E m \in DOMAIN cardReplies \ {n} : Hides(cardReplies[m])
        BY <1>0, <4>1 DEF KeyLives
      <4> QED
        BY <1>4, <1>7, <3>2, <4>2 DEF Hides, Same
    <3> QED
      BY <3>1, <3>2
  <2>6. handed' # "none" => handed' \in givenIds'
    BY <1>0, <1>4, <1>9 DEF KeyLives
  <2>7. \A m \in DOMAIN cardAsks' : cardAsks'[m].kind = "create" => cardAsks'[m].item \notin givenIds'
    BY <1>0, <1>3, <1>4, CallsTyped DEF AsksGrow, KeyLives
  <2> QED
    BY <1>0, <1>4, <2>1, <2>3, <2>4, <2>5, <2>6, <2>7 DEF KeyLives, RowsWereMade
<1>13. LastListIsTrue'
  <2>0. \A l, m \in DOMAIN cardReplies' : l < m <=> Src(n, l) < Src(n, m)
    BY <1>2, <1>5, SrcKeepsOrder, LenProperties DEF RepliesShrink
  <2>1. \A l, m \in DOMAIN cardReplies' : l < m /\ cardReplies'[m].old => cardReplies'[l].old
    BY <1>0, <1>2, <2>0 DEF RepliesShrink, LastListIsTrue
  <2>2. CASE a.ok
    BY <1>3, <2>1, <2>2 DEF LastListIsTrue, ReadsAgain
  <2>3. CASE ~a.ok
    <3>1. ReadsAgain => ReadsAgain'
      BY <1>3, <1>7, <2>3 DEF ReadsAgain, AsksGrow, Same, a
    <3>2. \A l \in DOMAIN cardReplies' : NewList(l)' <=> NewList(Src(n, l))
      BY <1>2 DEF NewList, RepliesShrink, Same
    <3>3. \A j \in DOMAIN cardReplies : NewList(j) => \E l \in DOMAIN cardReplies' : Src(n, l) = j /\ NewList(l)'
      BY <1>1, <1>2, <3>2 DEF RepliesShrink, NewList, a
    <3>4. CASE ~ReadsAgain
      <4>1. \A l \in DOMAIN cardReplies' : NewList(l)' /\ cardReplies'[l].ok =>
              cardReplies'[l].rows = items' \/ \E m \in DOMAIN cardReplies' : l < m /\ NewList(m)'
        <5> SUFFICES ASSUME NEW l \in DOMAIN cardReplies', NewList(l)', cardReplies'[l].ok, cardReplies'[l].rows # items'
                     PROVE  \E m \in DOMAIN cardReplies' : l < m /\ NewList(m)'
          OBVIOUS
        <5>1. /\ Src(n, l) \in DOMAIN cardReplies /\ NewList(Src(n, l))
              /\ cardReplies[Src(n, l)].ok /\ cardReplies[Src(n, l)].rows # items
          BY <1>2, <1>4, <3>2 DEF RepliesShrink, Same
        <5>2. PICK j \in DOMAIN cardReplies : Src(n, l) < j /\ NewList(j)
          BY <1>0, <3>4, <5>1 DEF LastListIsTrue
        <5>3. PICK m \in DOMAIN cardReplies' : Src(n, m) = j /\ NewList(m)'
          BY <3>3, <5>2
        <5> QED
          BY <2>0, <5>2, <5>3
      <4>2. (\E l \in DOMAIN cardReplies' : NewList(l)') \/ listOld' \/ cardList'.err \/ cardList'.rows = items'
        BY <1>0, <1>4, <3>3, <3>4 DEF LastListIsTrue
      <4> QED
        BY <2>1, <4>1, <4>2 DEF LastListIsTrue
    <3> QED
      BY <2>1, <3>1, <3>4 DEF LastListIsTrue
  <2> QED
    BY <2>2, <2>3
<1> QED
  BY <1>9, <1>10, <1>11, <1>12, <1>13 DEF SettingsInv

LEMMA SettingsHolds == SettingsInv /\ [SettingsNext]_settingsVars => SettingsInv'
<1> SUFFICES ASSUME SettingsInv, [SettingsNext]_settingsVars PROVE SettingsInv'
  OBVIOUS
<1>1. CASE SettingsNext
  BY <1>1, UserAsks, ListServed, ChangeServed, ListArrives, WriteArrives DEF SettingsNext
<1>2. CASE UNCHANGED settingsVars
  <2> USE <1>2 DEF settingsVars
  <2>1. CardTyped'
    BY DEF SettingsInv, CardTyped, SettingsTypeOK, WellMade
  <2>2. TokenKept' /\ OneCreate'
    BY DEF SettingsInv, TokenKept, OneCreate
  <2>3. KeyLives'
    BY DEF SettingsInv, KeyLives, RowsWereMade, NewKey, NotedDown, Hides
  <2>4. LastListIsTrue'
    BY DEF SettingsInv, LastListIsTrue, ReadsAgain, NewList
  <2> QED
    BY <2>1, <2>2, <2>3, <2>4 DEF SettingsInv
<1> QED
  BY <1>1, <1>2

LEMMA SettingsShown == SettingsInv => SettingsAreTrue
<1> SUFFICES ASSUME SettingsInv PROVE SettingsAreTrue
  OBVIOUS
<1>1. TokenStays
  BY DEF SettingsInv, TokenKept, TokenStays
<1>2. ASSUME cardAsks = <<>>, cardReplies = <<>> PROVE DOMAIN cardAsks = {} /\ DOMAIN cardReplies = {}
  BY <1>2
<1>3. TokenWorks
  BY <1>2 DEF SettingsInv, KeyLives, TokenWorks
<1>4. CardMatchesRows
  BY <1>2 DEF SettingsInv, LastListIsTrue, ReadsAgain, CardMatchesRows
<1> QED
  BY <1>1, <1>3, <1>4 DEF SettingsAreTrue

(***************************************************************************)
(* The page of an application.  The tabs hold what the server has, but for *)
(* what is marked; and a form holds it but for what the user changed.      *)
(***************************************************************************)

\* A request says what it is of; a form has no box masked but that of the secret.
Tabs     == {"env", "domains", "webhook"}
Listing  == {"load", "list"}
TabCall  == [kind : Listing \cup {"put", "add", "drop", "rotate"}, of : Tabs \cup {"all"},
             sends : [PageKeys -> FormRow] \cup PageFqdns \cup {"none"}, touched : SUBSET PageKeys,
             left : SUBSET Parts, ok : SUBSET Parts, old : SUBSET Parts,
             env : [PageKeys -> FormRow], domains : SUBSET PageFqdns, webhook : HookView]
BoxesFit(rows) == \A k \in PageKeys : rows[k] = "masked" => k = MaskedKey

WellAsked(c) ==
  /\ c.kind = "load" <=> c.of = "all"
  /\ c.kind = "put" <=> c.of = "env"
  /\ c.kind \in {"add", "drop", "list"} <=> c.of = "domains"
  /\ c.kind = "rotate" <=> c.of = "webhook"
  /\ c.kind = "put" => c.sends \in [PageKeys -> FormRow] /\ BoxesFit(c.sends)
  /\ c.kind \in {"add", "drop"} => c.sends \in PageFqdns
  /\ BoxesFit(c.env) /\ c.ok \cap c.left = {}
  /\ c.kind = "list" => c.ok \cup c.left \subseteq {"domains"}
  /\ c.kind \notin Listing => c.left = {} /\ c.ok \subseteq {c.of}

\* What was read of a tab, and is not marked, is what the server has.
TrueReads(c) ==
  c.kind \in Listing =>
    /\ "env" \in c.ok \ c.old => c.env = Mask(varRows)
    /\ "domains" \in c.ok \ c.old => c.domains = fqdnRows
    /\ "webhook" \in c.ok \ c.old => c.webhook = [known |-> hookRow > 0, secret |-> 0]

\* A save that is under way changes what the user changed.
SavesTouched(c) == c.kind = "put" => \A k \in PageKeys \ c.touched : StoredVars(c)[k] = varRows[k]

\* One write of a tab is under way, unless two crossed.
OneOf(p) ==
  p \notin crossed =>
    /\ \A m, n \in DOMAIN tabAsks : tabAsks[m].of = p /\ tabAsks[n].of = p => m = n
    /\ \A m, n \in DOMAIN tabReplies : tabReplies[m].of = p /\ tabReplies[n].of = p => m = n
    /\ \A m \in DOMAIN tabAsks, n \in DOMAIN tabReplies : ~(tabAsks[m].of = p /\ tabReplies[n].of = p)

CallsSound ==
  /\ \A n \in DOMAIN tabAsks : WellAsked(tabAsks[n]) /\ TrueReads(tabAsks[n]) /\ (tabAsks[n].kind \notin Listing => tabAsks[n].ok = {})
  /\ \A n \in DOMAIN tabReplies : WellAsked(tabReplies[n]) /\ TrueReads(tabReplies[n])
  /\ \A p \in Tabs : OneOf(p)

\* A row of the form that the user has not changed is the server's.
FormIsRead ==
  /\ BoxesFit(form)
  /\ "env" \notin unread \cup crossed => \A k \in PageKeys \ edited : form[k] = Mask(varRows)[k]
  /\ "env" \notin crossed => \A n \in DOMAIN tabAsks : SavesTouched(tabAsks[n])

\* The list of the domains is true, or will be when what is under way has come.
Relists ==
  \/ \E n \in DOMAIN tabAsks : tabAsks[n].kind = "list"
  \/ \E n \in DOMAIN tabReplies : tabReplies[n].kind = "list" \/ (tabReplies[n].kind = "add" /\ tabReplies[n].ok # {})
Dropped(n) == tabReplies[n].kind = "drop" /\ tabReplies[n].ok # {}

FqdnsFollow ==
  "domains" \notin crossed =>
    /\ \A n \in DOMAIN tabReplies : Dropped(n) => tabReplies[n].sends \notin fqdnRows
    /\ "domains" \notin unread =>
         \/ fqdnView = fqdnRows \/ Relists
         \/ \E n \in DOMAIN tabReplies : Dropped(n) /\ fqdnView \ {tabReplies[n].sends} = fqdnRows

\* The webhook is the server's, or its new secret is on its way.
Rotated(n)  == tabReplies[n].kind = "rotate" /\ tabReplies[n].ok # {}
HookFollows ==
  "webhook" \notin crossed =>
    /\ \A n \in DOMAIN tabReplies : Rotated(n) => hookRow > 0 /\ tabReplies[n].webhook = [known |-> TRUE, secret |-> hookRow]
    /\ "webhook" \notin unread =>
         \/ hookView.known = (hookRow > 0) /\ hookView.secret \in {0, hookRow}
         \/ \E n \in DOMAIN tabReplies : Rotated(n)

TabsTyped == AppPageTypeOK /\ tabAsks \in Seq(TabCall) /\ tabReplies \in Seq(TabCall)

AppInv == TabsTyped /\ CallsSound /\ FormIsRead /\ FqdnsFollow /\ HookFollows /\ harmed = {}


\* Two calls that only differ in what of the first is marked.
Kin(c, b) ==
  /\ c.kind = b.kind /\ c.of = b.of /\ c.sends = b.sends /\ c.touched = b.touched /\ c.left = b.left /\ c.ok = b.ok
  /\ c.env = b.env /\ c.domains = b.domains /\ c.webhook = b.webhook /\ b.old \subseteq c.old

LEMMA KinSound ==
  ASSUME NEW b \in TabCall, NEW c \in TabCall, Kin(c, b)
  PROVE  /\ WellAsked(b) => WellAsked(c)
         /\ TrueReads(b) => TrueReads(c)
BY DEF Kin, WellAsked, TrueReads

LEMMA TabAsksTyped ==
  \A kind \in Listing \cup {"put", "add", "drop", "rotate"}, of \in Tabs \cup {"all"},
     sends \in [PageKeys -> FormRow] \cup PageFqdns \cup {"none"} :
    /\ TabAsk(kind, of, sends) \in TabCall /\ TabAsk(kind, of, sends).kind = kind /\ TabAsk(kind, of, sends).of = of
    /\ TabAsk(kind, of, sends).sends = sends /\ TabAsk(kind, of, sends).ok = {} /\ TabAsk(kind, of, sends).touched = {}
    /\ TabAsk(kind, of, sends).left = (IF kind = "load" THEN Parts ELSE {}) /\ BoxesFit(TabAsk(kind, of, sends).env)
BY DEF TabAsk, TabCall, Absent, NoView, FormRow, VarRow, HookView, BoxesFit

LEMMA LoadAllTyped ==
  /\ LoadAll \in TabCall /\ LoadAll.kind = "load" /\ LoadAll.of = "all" /\ LoadAll.ok = {}
  /\ WellAsked(LoadAll) /\ TrueReads(LoadAll)
<1>1. /\ LoadAll \in TabCall /\ LoadAll.kind = "load" /\ LoadAll.of = "all" /\ LoadAll.ok = {} /\ BoxesFit(LoadAll.env)
  BY TabAsksTyped DEF LoadAll, Listing
<1> QED
  BY <1>1 DEF WellAsked, TrueReads, Listing

LEMMA AppPageStarts == AppPageInit => AppInv
<1> SUFFICES ASSUME AppPageInit PROVE AppInv
  OBVIOUS
<1>1. /\ tabAsks = <<LoadAll>> /\ tabReplies = <<>> /\ harmed = {} /\ edited = {} /\ unread = Parts /\ crossed = {}
      /\ form = Absent /\ hookView = NoView /\ fqdnView = {} /\ hookRow = 0 /\ fqdnRows = {} /\ appShown = FALSE
      /\ varRows = [k \in PageKeys |-> "old"] /\ tabClicks = 0 /\ tabFaults = 0
  BY DEF AppPageInit
<1>2. /\ tabAsks \in Seq(TabCall) /\ Len(tabAsks) = 1 /\ DOMAIN tabAsks = {1} /\ tabAsks[1] = LoadAll
      /\ tabReplies \in Seq(TabCall) /\ Len(tabReplies) = 0 /\ DOMAIN tabReplies = {}
  BY <1>1, LoadAllTyped
<1>3. AppPageTypeOK
  <2>1. hookView \in HookView /\ form \in [PageKeys -> FormRow] /\ varRows \in [PageKeys -> VarRow]
    BY <1>1 DEF NoView, HookView, Absent, FormRow, VarRow, Typed
  <2>2. 1 + 0 <= MaxTabCalls + 1 /\ 0 \in 0..MaxTabClicks /\ 0 \in 0..MaxTabFaults
    BY AppPageAssumption
  <2> QED
    BY <1>1, <1>2, <2>1, <2>2 DEF AppPageTypeOK
<1>4. CallsSound
  BY <1>2, LoadAllTyped DEF CallsSound, OneOf
<1>5. FormIsRead
  BY <1>1, <1>2, LoadAllTyped DEF FormIsRead, BoxesFit, Absent, SavesTouched, Parts
<1>6. FqdnsFollow /\ HookFollows
  BY <1>1, <1>2 DEF FqdnsFollow, HookFollows, Parts
<1> QED
  BY <1>1, <1>2, <1>3, <1>4, <1>5, <1>6 DEF AppInv, TabsTyped

\* A click sends a write.
LEMMA TabClicked ==
  ASSUME AppInv, tabClicks < MaxTabClicks, tabClicks' = tabClicks + 1, UNCHANGED tabFaults,
         NEW c \in TabCall, Click(c), WellAsked(c), c.kind \notin Listing, c.ok = {},
         c.kind = "put" => c.sends = form /\ c.touched = IF "env" \in unread THEN PageKeys ELSE edited,
         UNCHANGED <<serverTabs, appShown, tabs, tabReplies, edited, unread, harmed>>
  PROVE  AppInv'
<1>0. TabsTyped /\ CallsSound /\ FormIsRead /\ FqdnsFollow /\ HookFollows /\ harmed = {} /\ AppPageTypeOK
  BY DEF AppInv, TabsTyped
<1>1. tabAsks' \in Seq(TabCall) /\ Grown(tabAsks', tabAsks, c)
  BY <1>0, Grows DEF TabsTyped, Click
<1>2. UNCHANGED <<varRows, hookRow, fqdnRows, appShown, form, hookView, fqdnView, tabReplies, edited, unread, harmed>>
  BY DEF serverTabs, tabs
<1>3. crossed' = IF Pending(c.of) THEN crossed \cup {c.of} ELSE crossed
  BY DEF Click
<1>4. c.of \in Tabs /\ TrueReads(c)
  BY DEF WellAsked, TabCall, TrueReads, Listing
<1>5. TabsTyped'
  <2>1. Len(tabReplies) \in Nat
    BY <1>0, LenProperties DEF TabsTyped
  <2>2. Len(tabAsks') + Len(tabReplies') <= MaxTabCalls + 1
    BY <1>1, <1>2, <2>1, AppPageAssumption DEF Click, Grown
  <2>3. crossed' \subseteq Parts
    BY <1>0, <1>3, <1>4 DEF AppPageTypeOK, Parts, Tabs
  <2>4. AppPageTypeOK'
    BY <1>0, <1>2, <2>2, <2>3, AppPageAssumption DEF AppPageTypeOK
  <2> QED
    BY <1>0, <1>1, <1>2, <2>4 DEF TabsTyped
<1>6. CallsSound'
  <2>1. \A m \in DOMAIN tabAsks' : WellAsked(tabAsks'[m]) /\ TrueReads(tabAsks'[m]) /\ (tabAsks'[m].kind \notin Listing => tabAsks'[m].ok = {})
    BY <1>0, <1>1, <1>4 DEF CallsSound, Grown
  <2>2. ASSUME NEW p \in Tabs PROVE OneOf(p)'
    <3> SUFFICES ASSUME p \notin crossed' PROVE OneOf(p)'
      BY DEF OneOf
    <3>1. OneOf(p) /\ p \notin crossed
      BY <1>0, <1>3 DEF CallsSound
    <3>2. c.of = p => (\A m \in DOMAIN tabAsks : tabAsks[m].of # p) /\ (\A m \in DOMAIN tabReplies : tabReplies[m].of # p)
      BY <1>3 DEF Pending
    <3> QED
      BY <1>1, <1>2, <3>1, <3>2 DEF OneOf, Grown
  <2> QED
    BY <1>0, <1>2, <2>1, <2>2 DEF CallsSound, TrueReads, WellAsked
<1>7. FormIsRead'
  <2>1. crossed \subseteq crossed'
    BY <1>3
  <2>2. "env" \notin crossed' => SavesTouched(c)
    <3> SUFFICES ASSUME "env" \notin crossed', c.kind = "put", NEW k \in PageKeys \ c.touched PROVE StoredVars(c)[k] = varRows[k]
      BY DEF SavesTouched
    <3>1. "env" \notin unread /\ k \notin edited
      OBVIOUS
    <3>2. form[k] = Mask(varRows)[k]
      BY <1>0, <2>1, <3>1 DEF FormIsRead
    <3> QED
      BY <3>2 DEF StoredVars, Mask
  <2>3. "env" \notin crossed' => \A m \in DOMAIN tabAsks' : SavesTouched(tabAsks'[m])
    BY <1>0, <1>1, <2>1, <2>2 DEF FormIsRead, Grown
  <2> QED
    BY <1>0, <1>2, <2>1, <2>3 DEF FormIsRead, SavesTouched, StoredVars, Mask, BoxesFit
<1>8. FqdnsFollow'
  <2>1. crossed \subseteq crossed' /\ (Relists => Relists')
    BY <1>1, <1>2, <1>3 DEF Relists, Grown
  <2> QED
    BY <1>0, <1>2, <2>1 DEF FqdnsFollow, Dropped
<1>9. HookFollows'
  <2>1. crossed \subseteq crossed'
    BY <1>3
  <2> QED
    BY <1>0, <1>2, <2>1 DEF HookFollows, Rotated
<1> QED
  BY <1>0, <1>2, <1>5, <1>6, <1>7, <1>8, <1>9 DEF AppInv

LEMMA UserOnTabs ==
  ASSUME AppInv, tabClicks < MaxTabClicks, tabClicks' = tabClicks + 1, UNCHANGED tabFaults,
         \/ \E k \in PageKeys : \E v \in {"new", "absent", "masked"} : EditForm(k, v)
         \/ SaveEnv \/ RotateWebhook \/ RetryPage
         \/ \E d \in PageFqdns : AddFqdn(d) \/ RemoveFqdn(d)
  PROVE  AppInv'
<1>0. TabsTyped /\ CallsSound /\ FormIsRead /\ FqdnsFollow /\ HookFollows /\ harmed = {} /\ AppPageTypeOK
  BY DEF AppInv, TabsTyped
<1>1. ASSUME NEW k \in PageKeys, NEW v \in {"new", "absent", "masked"}, EditForm(k, v) PROVE AppInv'
  <2>1. /\ form' = [form EXCEPT ![k] = v] /\ edited' = edited \cup {k} /\ (v = "masked" => k = MaskedKey)
        /\ UNCHANGED <<varRows, hookRow, fqdnRows, appShown, hookView, fqdnView, tabAsks, tabReplies, unread, crossed, harmed>>
    BY <1>1 DEF EditForm, serverTabs
  <2>2. form' \in [PageKeys -> FormRow]
    BY <1>0, <2>1 DEF AppPageTypeOK, FormRow, VarRow, Typed
  <2>3. TabsTyped'
    BY <1>0, <2>1, <2>2, AppPageAssumption DEF TabsTyped, AppPageTypeOK
  <2>4. CallsSound'
    BY <1>0, <2>1 DEF CallsSound, WellAsked, TrueReads, OneOf
  <2>5. FormIsRead'
    <3>1. BoxesFit(form')
      BY <1>0, <2>1 DEF FormIsRead, BoxesFit, AppPageTypeOK
    <3>2. \A l \in PageKeys \ edited' : l \notin edited /\ form'[l] = form[l]
      BY <1>0, <2>1 DEF AppPageTypeOK
    <3> QED
      BY <1>0, <2>1, <3>1, <3>2 DEF FormIsRead, SavesTouched, StoredVars, Mask, BoxesFit
  <2>6. FqdnsFollow' /\ HookFollows'
    BY <1>0, <2>1 DEF FqdnsFollow, HookFollows, Relists, Dropped, Rotated
  <2> QED
    BY <1>0, <2>1, <2>3, <2>4, <2>5, <2>6 DEF AppInv
<1>2. CASE SaveEnv
  <2> DEFINE c == [TabAsk("put", "env", form) EXCEPT !.touched = IF "env" \in unread THEN PageKeys ELSE edited]
             b == TabAsk("put", "env", form)
  <2>1. /\ b \in TabCall /\ b.kind = "put" /\ b.of = "env" /\ b.sends = form /\ b.ok = {} /\ b.left = {} /\ BoxesFit(b.env)
    <3>1. "put" \in Listing \cup {"put", "add", "drop", "rotate"} /\ "env" \in Tabs \cup {"all"} /\ "put" # "load"
      BY DEF Tabs
    <3>2. form \in [PageKeys -> FormRow] \cup PageFqdns \cup {"none"}
      BY <1>0 DEF AppPageTypeOK
    <3> QED
      BY <3>1, <3>2, TabAsksTyped
  <2>2. /\ c \in TabCall /\ c.kind = "put" /\ c.of = "env" /\ c.sends = form /\ c.ok = {} /\ c.left = {} /\ c.env = b.env
        /\ c.touched = IF "env" \in unread THEN PageKeys ELSE edited
    BY <1>0, <2>1 DEF TabCall, AppPageTypeOK
  <2>3. Click(c) /\ UNCHANGED <<serverTabs, appShown, tabs, tabReplies, edited, unread, harmed>>
    BY <1>2 DEF SaveEnv
  <2> HIDE DEF c
  <2>4. WellAsked(c)
    BY <1>0, <2>1, <2>2 DEF WellAsked, Listing, FormIsRead, AppPageTypeOK
  <2> QED
    BY <2>2, <2>3, <2>4, TabClicked DEF Listing
<1>3. ASSUME NEW kind \in {"add", "drop"}, NEW d \in PageFqdns, Click(TabAsk(kind, "domains", d)),
             UNCHANGED <<serverTabs, appShown, tabs, tabReplies, edited, unread, harmed>>
      PROVE  AppInv'
  <2> DEFINE c == TabAsk(kind, "domains", d)
  <2>1. c \in TabCall /\ c.kind = kind /\ c.of = "domains" /\ c.sends = d /\ c.ok = {} /\ c.left = {} /\ BoxesFit(c.env)
    <3>1. kind \in Listing \cup {"put", "add", "drop", "rotate"} /\ "domains" \in Tabs \cup {"all"} /\ kind # "load"
      BY DEF Tabs
    <3>2. d \in [PageKeys -> FormRow] \cup PageFqdns \cup {"none"}
      OBVIOUS
    <3> QED
      BY <3>1, <3>2, TabAsksTyped
  <2>2. Click(c)
    BY <1>3
  <2> HIDE DEF c
  <2>3. WellAsked(c)
    BY <2>1 DEF WellAsked, Listing
  <2> QED
    BY <1>3, <2>1, <2>2, <2>3, TabClicked DEF Listing
<1>4. CASE RotateWebhook
  <2> DEFINE c == TabAsk("rotate", "webhook", "none")
  <2>1. c \in TabCall /\ c.kind = "rotate" /\ c.of = "webhook" /\ c.ok = {} /\ c.left = {} /\ BoxesFit(c.env)
    BY DEF TabAsk, TabCall, Tabs, Absent, NoView, FormRow, VarRow, HookView, BoxesFit
  <2>2. Click(c)
    BY <1>4 DEF RotateWebhook
  <2> HIDE DEF c
  <2>3. WellAsked(c)
    BY <2>1 DEF WellAsked, Listing
  <2> QED
    BY <1>4, <2>1, <2>2, <2>3, TabClicked DEF Listing, RotateWebhook
<1>5. CASE RetryPage
  <2>1. /\ tabAsks = <<>> /\ tabReplies = <<>> /\ tabAsks' = <<LoadAll>>
        /\ UNCHANGED <<varRows, hookRow, fqdnRows, appShown, form, hookView, fqdnView, tabReplies, edited, unread, crossed, harmed>>
    BY <1>5 DEF RetryPage, serverTabs, tabs, tabGhosts
  <2>2. /\ tabAsks' \in Seq(TabCall) /\ Len(tabAsks') = 1 /\ DOMAIN tabAsks' = {1} /\ tabAsks'[1] = LoadAll
        /\ DOMAIN tabReplies' = {} /\ DOMAIN tabReplies = {} /\ DOMAIN tabAsks = {} /\ Len(tabReplies') = 0
    BY <2>1, LoadAllTyped
  <2>3. 1 + 0 <= MaxTabCalls + 1
    BY AppPageAssumption
  <2>4. TabsTyped'
    BY <1>0, <2>1, <2>2, <2>3, AppPageAssumption DEF TabsTyped, AppPageTypeOK
  <2>5. CallsSound'
    <3>1. \A m \in DOMAIN tabAsks' : WellAsked(tabAsks'[m]) /\ TrueReads(tabAsks'[m]) /\ (tabAsks'[m].kind \notin Listing => tabAsks'[m].ok = {})
      BY <2>2, LoadAllTyped
    <3> QED
      BY <2>1, <2>2, <3>1 DEF CallsSound, WellAsked, TrueReads, OneOf
  <2>6. FormIsRead'
    <3>1. ~(LoadAll.kind = "put")
      BY LoadAllTyped
    <3> QED
      BY <1>0, <2>1, <2>2, <3>1 DEF FormIsRead, SavesTouched, Mask, BoxesFit
  <2>7. FqdnsFollow' /\ HookFollows'
    BY <1>0, <2>1, <2>2 DEF FqdnsFollow, HookFollows, Relists, Dropped, Rotated
  <2> QED
    BY <1>0, <2>1, <2>4, <2>5, <2>6, <2>7 DEF AppInv
<1> QED
  BY <1>1, <1>2, <1>3, <1>4, <1>5 DEF AddFqdn, RemoveFqdn


\* One of the reads of a request is served.
LEMMA TabServed ==
  ASSUME AppInv, UNCHANGED tabClicks, tabFaults' \in 0..MaxTabFaults,
         NEW n \in DOMAIN tabAsks, NEW p \in Parts, NEW fails \in BOOLEAN, ServeTab(n, p, fails)
  PROVE  AppInv'
<1>0. TabsTyped /\ CallsSound /\ FormIsRead /\ FqdnsFollow /\ HookFollows /\ harmed = {} /\ AppPageTypeOK
  BY DEF AppInv, TabsTyped
<1> DEFINE a == tabAsks[n]
           c == IF fails THEN a ELSE Reads(a, p)
           b == [c EXCEPT !.left = @ \ {p}, !.ok = IF fails THEN @ ELSE @ \cup {p}]
<1>1. /\ p \in a.left
      /\ IF b.left = {} THEN tabAsks' = RemoveAt(tabAsks, n) /\ tabReplies' = Append(tabReplies, b)
         ELSE tabAsks' = [tabAsks EXCEPT ![n] = b] /\ tabReplies' = tabReplies
  BY DEF ServeTab
<1>2. UNCHANGED <<varRows, hookRow, fqdnRows, appShown, form, hookView, fqdnView, edited, unread, crossed, harmed>>
  BY DEF ServeTab, serverTabs, tabs, tabGhosts
<1>3. a \in TabCall /\ WellAsked(a) /\ TrueReads(a) /\ a.kind \in Listing
  BY <1>0, <1>1, ElementOfSeq, LenProperties DEF TabsTyped, CallsSound, WellAsked
<1>4. Mask(varRows) \in [PageKeys -> FormRow] /\ BoxesFit(Mask(varRows))
  BY <1>0 DEF Mask, AppPageTypeOK, FormRow, BoxesFit, VarRow, Typed
<1> HIDE DEF a
<1>5. /\ c \in TabCall /\ c.kind = a.kind /\ c.of = a.of /\ c.left = a.left /\ c.ok = a.ok /\ c.old = a.old
      /\ c.env = (IF ~fails /\ p = "env" THEN Mask(varRows) ELSE a.env)
      /\ c.domains = (IF ~fails /\ p = "domains" THEN fqdnRows ELSE a.domains)
      /\ c.webhook = (IF ~fails /\ p = "webhook" THEN [known |-> hookRow > 0, secret |-> 0] ELSE a.webhook)
  <2>1. fqdnRows \subseteq PageFqdns /\ [known |-> hookRow > 0, secret |-> 0] \in HookView
    BY <1>0 DEF AppPageTypeOK, HookView
  <2> QED
    BY <1>3, <1>4, <2>1 DEF Reads, TabCall
<1> HIDE DEF c
<1>6. /\ b \in TabCall /\ b.kind = a.kind /\ b.of = a.of /\ b.left = a.left \ {p} /\ b.old = a.old
      /\ b.ok = (IF fails THEN a.ok ELSE a.ok \cup {p}) /\ b.env = c.env /\ b.domains = c.domains /\ b.webhook = c.webhook
  BY <1>5 DEF TabCall
<1> HIDE DEF b
<1>7. WellAsked(b)
  BY <1>1, <1>3, <1>4, <1>5, <1>6 DEF WellAsked, Listing
<1>8. TrueReads(b)
  BY <1>3, <1>5, <1>6 DEF TrueReads
<1>9. \/ /\ tabAsks' \in Seq(TabCall) /\ Shrunk(tabAsks', tabAsks, n)
         /\ tabReplies' \in Seq(TabCall) /\ Grown(tabReplies', tabReplies, b)
      \/ /\ tabAsks' \in Seq(TabCall) /\ Len(tabAsks') = Len(tabAsks) /\ DOMAIN tabAsks' = DOMAIN tabAsks
         /\ tabAsks'[n] = b /\ \A m \in DOMAIN tabAsks \ {n} : tabAsks'[m] = tabAsks[m]
         /\ tabReplies' = tabReplies
  <2>1. CASE b.left = {}
    <3>1. RemoveAt(tabAsks, n) \in Seq(TabCall) /\ Shrunk(RemoveAt(tabAsks, n), tabAsks, n)
      BY <1>0, Shrinks DEF TabsTyped
    <3>2. Append(tabReplies, b) \in Seq(TabCall) /\ Grown(Append(tabReplies, b), tabReplies, b)
      BY <1>0, <1>6, Grows DEF TabsTyped
    <3> QED
      BY <1>1, <2>1, <3>1, <3>2
  <2>2. CASE b.left # {}
    BY <1>0, <1>1, <1>6, <2>2, LenProperties, ExceptSeq DEF TabsTyped
  <2> QED
    BY <2>1, <2>2
<1>10. \A m \in DOMAIN tabAsks' : tabAsks'[m] = b \/ \E j \in DOMAIN tabAsks \ {n} : tabAsks'[m] = tabAsks[j]
  BY <1>9 DEF Shrunk
<1>11. \A m \in DOMAIN tabReplies' : tabReplies'[m] = b \/ (m \in DOMAIN tabReplies /\ tabReplies'[m] = tabReplies[m])
  BY <1>9 DEF Grown
<1>12. \A m \in DOMAIN tabReplies : m \in DOMAIN tabReplies' /\ tabReplies'[m] = tabReplies[m]
  BY <1>9 DEF Grown
<1>13. \A j \in DOMAIN tabAsks \ {n} : \E m \in DOMAIN tabAsks' : tabAsks'[m] = tabAsks[j]
  BY <1>9 DEF Shrunk
<1>14. (\E m \in DOMAIN tabAsks' : tabAsks'[m] = b) \/ (\E m \in DOMAIN tabReplies' : tabReplies'[m] = b)
  BY <1>9 DEF Grown
<1>15. TabsTyped'
  <2>1. Len(tabAsks) \in Nat /\ Len(tabReplies) \in Nat
    BY <1>0, LenProperties DEF TabsTyped
  <2>2. Len(tabAsks') + Len(tabReplies') <= MaxTabCalls + 1
    BY <1>0, <1>9, <2>1, AppPageAssumption DEF AppPageTypeOK, Shrunk, Grown
  <2> QED
    BY <1>0, <1>2, <1>9, <2>2 DEF TabsTyped, AppPageTypeOK
<1>16. CallsSound'
  <2>1. \A m \in DOMAIN tabAsks' : WellAsked(tabAsks'[m]) /\ TrueReads(tabAsks'[m]) /\ (tabAsks'[m].kind \notin Listing => tabAsks'[m].ok = {})
    BY <1>0, <1>3, <1>6, <1>7, <1>8, <1>10 DEF CallsSound
  <2>2. \A m \in DOMAIN tabReplies' : WellAsked(tabReplies'[m]) /\ TrueReads(tabReplies'[m])
    BY <1>0, <1>7, <1>8, <1>11 DEF CallsSound
  <2>3. ASSUME NEW q \in Tabs PROVE OneOf(q)'
    <3> SUFFICES ASSUME q \notin crossed PROVE OneOf(q)'
      BY <1>2 DEF OneOf
    <3>1. OneOf(q)
      BY <1>0 DEF CallsSound
    <3>2. a = tabAsks[n]
      BY DEF a
    <3>3. CASE tabAsks' \in Seq(TabCall) /\ Shrunk(tabAsks', tabAsks, n) /\ Grown(tabReplies', tabReplies, b)
      BY <1>6, <3>1, <3>2, <3>3 DEF OneOf, Shrunk, Grown
    <3>4. CASE /\ DOMAIN tabAsks' = DOMAIN tabAsks /\ tabReplies' = tabReplies
               /\ tabAsks'[n] = b /\ \A m \in DOMAIN tabAsks \ {n} : tabAsks'[m] = tabAsks[m]
      <4>1. \A m \in DOMAIN tabAsks : tabAsks'[m].of = tabAsks[m].of
        BY <1>6, <3>2, <3>4
      <4> QED
        BY <3>1, <3>4, <4>1 DEF OneOf
    <3> QED
      BY <1>9, <3>3, <3>4
  <2> QED
    BY <1>2, <2>1, <2>2, <2>3 DEF CallsSound, TrueReads, WellAsked
<1>17. FormIsRead'
  <2>1. "env" \notin crossed => \A m \in DOMAIN tabAsks' : SavesTouched(tabAsks'[m])
    BY <1>0, <1>3, <1>6, <1>10 DEF FormIsRead, SavesTouched, Listing
  <2> QED
    BY <1>0, <1>2, <2>1 DEF FormIsRead, SavesTouched, StoredVars, Mask, BoxesFit
<1>18. FqdnsFollow'
  <2>1. Relists => Relists'
    <3>1. a.kind = "list" => Relists'
      BY <1>6, <1>14 DEF Relists
    <3>2. ASSUME NEW m \in DOMAIN tabAsks \ {n}, tabAsks[m].kind = "list" PROVE Relists'
      BY <1>13, <3>2 DEF Relists
    <3>3. ASSUME NEW m \in DOMAIN tabReplies, tabReplies[m].kind = "list" \/ (tabReplies[m].kind = "add" /\ tabReplies[m].ok # {}) PROVE Relists'
      BY <1>12, <3>3 DEF Relists
    <3> QED
      BY <3>1, <3>2, <3>3 DEF Relists, a
  <2>2. \A m \in DOMAIN tabReplies' : Dropped(m)' => m \in DOMAIN tabReplies /\ Dropped(m) /\ tabReplies'[m].sends = tabReplies[m].sends
    BY <1>3, <1>6, <1>11 DEF Dropped, Listing
  <2>3. \A m \in DOMAIN tabReplies : Dropped(m) => m \in DOMAIN tabReplies' /\ Dropped(m)' /\ tabReplies'[m].sends = tabReplies[m].sends
    BY <1>12 DEF Dropped
  <2> QED
    BY <1>0, <1>2, <2>1, <2>2, <2>3 DEF FqdnsFollow
<1>19. HookFollows'
  <2>1. \A m \in DOMAIN tabReplies' : Rotated(m)' => m \in DOMAIN tabReplies /\ Rotated(m) /\ tabReplies'[m] = tabReplies[m]
    BY <1>3, <1>6, <1>11 DEF Rotated, Listing
  <2>2. \A m \in DOMAIN tabReplies : Rotated(m) => m \in DOMAIN tabReplies' /\ Rotated(m)'
    BY <1>12 DEF Rotated
  <2> QED
    BY <1>0, <1>2, <2>1, <2>2 DEF HookFollows
<1> QED
  BY <1>0, <1>2, <1>15, <1>16, <1>17, <1>18, <1>19 DEF AppInv

\* Answers and requests that are marked.
LEMMA MarkedBefore ==
  ASSUME NEW s \in Seq(TabCall), NEW p \in Parts
  PROVE  /\ ReadBefore(s, p) \in Seq(TabCall) /\ DOMAIN ReadBefore(s, p) = DOMAIN s /\ Len(ReadBefore(s, p)) = Len(s)
         /\ \A m \in DOMAIN s : /\ ReadBefore(s, p)[m] \in TabCall /\ s[m] \in TabCall /\ Kin(ReadBefore(s, p)[m], s[m])
                                /\ s[m].kind \in Listing /\ p \notin s[m].left => p \in ReadBefore(s, p)[m].old
<1> DEFINE r == [m \in DOMAIN s |-> IF s[m].kind \in {"load", "list"} /\ p \notin s[m].left THEN [s[m] EXCEPT !.old = @ \cup {p}] ELSE s[m]]
<1>1. Len(s) \in Nat /\ DOMAIN s = 1..Len(s) /\ \A m \in DOMAIN s : s[m] \in TabCall
  BY LenProperties, ElementOfSeq
<1>2. \A m \in DOMAIN s : r[m] \in TabCall /\ Kin(r[m], s[m]) /\ (s[m].kind \in Listing /\ p \notin s[m].left => p \in r[m].old)
  BY <1>1 DEF TabCall, Kin, Listing
<1>3. r \in [1..Len(s) -> TabCall]
  BY <1>1, <1>2
<1>4. r \in Seq(TabCall) /\ Len(r) = Len(s) /\ DOMAIN r = DOMAIN s
  BY <1>1, <1>3, SeqDef
<1>5. ReadBefore(s, p) = r
  BY DEF ReadBefore
<1> HIDE DEF r
<1> QED
  BY <1>1, <1>2, <1>4, <1>5

LEMMA MarkedLater ==
  ASSUME NEW s \in Seq(TabCall), NEW n \in DOMAIN s, NEW ps \in SUBSET Parts
  PROVE  /\ Later(s, n, ps) \in Seq(TabCall) /\ Len(Later(s, n, ps)) = Len(s) - 1
         /\ \A m \in DOMAIN Later(s, n, ps) : /\ Src(n, m) \in DOMAIN s \ {n} /\ Later(s, n, ps)[m] \in TabCall
                                              /\ s[Src(n, m)] \in TabCall /\ Kin(Later(s, n, ps)[m], s[Src(n, m)])
         /\ \A k \in DOMAIN s \ {n} : \E m \in DOMAIN Later(s, n, ps) : Src(n, m) = k /\ Kin(Later(s, n, ps)[m], s[k])
         /\ \A l, m \in DOMAIN Later(s, n, ps) : Src(n, l) = Src(n, m) => l = m
<1> DEFINE r == [m \in DOMAIN s |-> IF m < n THEN [s[m] EXCEPT !.old = @ \cup ps] ELSE s[m]]
<1>1. Len(s) \in Nat /\ DOMAIN s = 1..Len(s) /\ \A m \in DOMAIN s : s[m] \in TabCall
  BY LenProperties, ElementOfSeq
<1>2. \A m \in DOMAIN s : r[m] \in TabCall /\ Kin(r[m], s[m])
  BY <1>1 DEF TabCall, Kin
<1>3. r \in [1..Len(s) -> TabCall]
  BY <1>1, <1>2
<1>4. r \in Seq(TabCall) /\ Len(r) = Len(s) /\ DOMAIN r = DOMAIN s
  BY <1>1, <1>3, SeqDef
<1>5. Later(s, n, ps) = RemoveAt(r, n)
  BY DEF Later
<1> HIDE DEF r
<1>6. RemoveAt(r, n) \in Seq(TabCall) /\ Shrunk(RemoveAt(r, n), r, n)
  BY <1>4, Shrinks
<1> QED
  BY <1>1, <1>2, <1>4, <1>5, <1>6 DEF Shrunk

\* The server takes a write, or refuses it; its answer may be lost.
LEMMA TabWriteServed ==
  ASSUME AppInv, UNCHANGED tabClicks, tabFaults' \in 0..MaxTabFaults,
         NEW n \in DOMAIN tabAsks, NEW refuses \in BOOLEAN, NEW told \in BOOLEAN, ServeTabWrite(n, refuses, told)
  PROVE  AppInv'
<1>0. TabsTyped /\ CallsSound /\ FormIsRead /\ FqdnsFollow /\ HookFollows /\ harmed = {} /\ AppPageTypeOK
  BY DEF AppInv, TabsTyped
<1> DEFINE a    == tabAsks[n]
           done == ~refuses /\ ~Refused(a)
           r    == IF done THEN ReadBefore(tabAsks, a.of) ELSE tabAsks
           q    == IF done THEN ReadBefore(tabReplies, a.of) ELSE tabReplies
           x    == [a EXCEPT !.ok = IF done /\ told THEN {a.of} ELSE {}, !.webhook = [known |-> TRUE, secret |-> hookRow']]
<1>1. /\ a.kind \notin Listing
      /\ varRows' = IF done /\ a.kind = "put" THEN StoredVars(a) ELSE varRows
      /\ hookRow' = IF done /\ a.kind = "rotate" THEN hookRow + 1 ELSE hookRow
      /\ fqdnRows' = IF ~done THEN fqdnRows ELSE CASE a.kind = "add" -> fqdnRows \cup {a.sends}
                       [] a.kind = "drop" -> fqdnRows \ {a.sends} [] OTHER -> fqdnRows
      /\ tabAsks' = RemoveAt(r, n) /\ tabReplies' = Append(q, x)
      /\ unread' = IF done /\ (~told \/ Outdates(a)) THEN unread \cup {a.of} ELSE unread
      /\ harmed' = harmed \cup {k \in PageKeys \ a.touched : "env" \notin crossed /\ varRows'[k] # varRows[k]}
  BY DEF ServeTabWrite, Listing
<1>2. UNCHANGED <<appShown, form, hookView, fqdnView, edited, crossed>>
  BY DEF ServeTabWrite, tabs
<1>3. a \in TabCall /\ WellAsked(a) /\ a.of \in Tabs /\ a.of \in Parts
  <2>1. a \in TabCall /\ WellAsked(a)
    BY <1>0, ElementOfSeq, LenProperties DEF TabsTyped, CallsSound
  <2> QED
    BY <1>1, <2>1 DEF WellAsked, TabCall, Tabs, Parts, Listing
<1>4. /\ a.kind \in {"put", "add", "drop", "rotate"} /\ (a.kind = "put" <=> a.of = "env")
      /\ (a.kind \in {"add", "drop"} <=> a.of = "domains") /\ (a.kind = "rotate" <=> a.of = "webhook")
  BY <1>1, <1>3 DEF WellAsked, TabCall, Listing
<1>5. SavesTouched(a) \/ "env" \in crossed
  BY <1>0 DEF FormIsRead
<1>6. \A p \in Tabs : OneOf(p)
  BY <1>0 DEF CallsSound
<1>7. /\ r \in Seq(TabCall) /\ DOMAIN r = DOMAIN tabAsks /\ Len(r) = Len(tabAsks)
      /\ \A m \in DOMAIN tabAsks : /\ r[m] \in TabCall /\ tabAsks[m] \in TabCall /\ Kin(r[m], tabAsks[m])
                                   /\ done /\ tabAsks[m].kind \in Listing /\ a.of \notin tabAsks[m].left => a.of \in r[m].old
  <2>1. CASE done
    BY <1>0, <1>3, <2>1, MarkedBefore DEF TabsTyped
  <2>2. CASE ~done
    BY <1>0, <2>2, ElementOfSeq, LenProperties DEF TabsTyped, Kin
  <2> QED
    BY <2>1, <2>2
<1>8. /\ q \in Seq(TabCall) /\ DOMAIN q = DOMAIN tabReplies /\ Len(q) = Len(tabReplies)
      /\ \A m \in DOMAIN tabReplies : /\ q[m] \in TabCall /\ tabReplies[m] \in TabCall /\ Kin(q[m], tabReplies[m])
                                      /\ done /\ tabReplies[m].kind \in Listing /\ a.of \notin tabReplies[m].left => a.of \in q[m].old
  <2>1. CASE done
    BY <1>0, <1>3, <2>1, MarkedBefore DEF TabsTyped
  <2>2. CASE ~done
    BY <1>0, <2>2, ElementOfSeq, LenProperties DEF TabsTyped, Kin
  <2> QED
    BY <2>1, <2>2
<1>9. /\ varRows' \in [PageKeys -> VarRow] /\ hookRow' \in Nat /\ fqdnRows' \subseteq PageFqdns
  <2>1. a.kind = "put" => StoredVars(a) \in [PageKeys -> VarRow]
    BY <1>0, <1>3 DEF StoredVars, WellAsked, AppPageTypeOK, FormRow
  <2> QED
    BY <1>0, <1>1, <1>3, <1>4, <2>1 DEF AppPageTypeOK, WellAsked
<1>10. /\ x \in TabCall /\ x.kind = a.kind /\ x.of = a.of /\ x.sends = a.sends /\ x.left = a.left /\ x.env = a.env
       /\ x.ok = (IF done /\ told THEN {a.of} ELSE {}) /\ x.webhook = [known |-> TRUE, secret |-> hookRow']
  <2>1. [known |-> TRUE, secret |-> hookRow'] \in HookView
    BY <1>9 DEF HookView
  <2> QED
    BY <1>3, <2>1 DEF TabCall
<1>11. WellAsked(x)
  BY <1>1, <1>3, <1>10 DEF WellAsked
<1> HIDE DEF a, done, r, q, x
<1>12. tabAsks' \in Seq(TabCall) /\ Shrunk(tabAsks', r, n) /\ tabReplies' \in Seq(TabCall) /\ Grown(tabReplies', q, x)
  <2>1. RemoveAt(r, n) \in Seq(TabCall) /\ Shrunk(RemoveAt(r, n), r, n)
    BY <1>7, Shrinks
  <2>2. Append(q, x) \in Seq(TabCall) /\ Grown(Append(q, x), q, x)
    BY <1>8, <1>10, Grows
  <2> QED
    BY <1>1, <2>1, <2>2
\* A read that is under way, as it is marked.
<1>13. \A m \in DOMAIN tabAsks' : /\ Src(n, m) \in DOMAIN tabAsks \ {n} /\ Kin(tabAsks'[m], tabAsks[Src(n, m)])
                                  /\ tabAsks'[m] \in TabCall /\ tabAsks[Src(n, m)] \in TabCall
                                  /\ done /\ tabAsks'[m].kind \in Listing /\ a.of \notin tabAsks'[m].left => a.of \in tabAsks'[m].old
  BY <1>7, <1>12 DEF Shrunk, Kin
<1>14. \A m \in DOMAIN tabReplies' :
         \/ tabReplies'[m] = x /\ m \notin DOMAIN tabReplies
         \/ /\ m \in DOMAIN tabReplies /\ Kin(tabReplies'[m], tabReplies[m])
            /\ tabReplies'[m] \in TabCall /\ tabReplies[m] \in TabCall
            /\ done /\ tabReplies'[m].kind \in Listing /\ a.of \notin tabReplies'[m].left => a.of \in tabReplies'[m].old
  BY <1>8, <1>12 DEF Grown, Kin
<1>15. \A m \in DOMAIN tabReplies : m \in DOMAIN tabReplies' /\ Kin(tabReplies'[m], tabReplies[m])
  BY <1>8, <1>12 DEF Grown
<1>16. PICK last \in DOMAIN tabReplies' : tabReplies'[last] = x /\ last \notin DOMAIN tabReplies
  BY <1>8, <1>12 DEF Grown
<1>17. \A j \in DOMAIN tabAsks \ {n} : \E m \in DOMAIN tabAsks' : Src(n, m) = j
  BY <1>7, <1>12 DEF Shrunk
<1>18. \A l, m \in DOMAIN tabAsks' : Src(n, l) = Src(n, m) => l = m
  BY <1>12 DEF Shrunk
<1>19. ASSUME NEW c \in TabCall, NEW b \in TabCall, Kin(c, b), WellAsked(b), TrueReads(b),
              done /\ c.kind \in Listing /\ a.of \notin c.left => a.of \in c.old
       PROVE  TrueReads(c)'
  <2>1. TrueReads(c) /\ WellAsked(c)
    BY <1>19, KinSound
  <2>2. CASE ~done
    BY <1>1, <2>1, <2>2 DEF TrueReads
  <2>3. CASE done
    <3>1. c.kind \in Listing => a.of \notin c.ok \ c.old
      BY <1>19, <2>1, <2>3 DEF WellAsked
    <3>2. /\ a.of # "env" => varRows' = varRows
          /\ a.of # "domains" => fqdnRows' = fqdnRows
          /\ a.of # "webhook" => hookRow' = hookRow
      BY <1>1, <1>4
    <3> QED
      BY <2>1, <3>1, <3>2 DEF TrueReads
  <2> QED
    BY <2>2, <2>3
<1>20. TabsTyped'
  <2>1. Len(tabAsks) \in Nat /\ Len(tabReplies) \in Nat
    BY <1>0, LenProperties DEF TabsTyped
  <2>2. Len(tabAsks') + Len(tabReplies') <= MaxTabCalls + 1
    BY <1>0, <1>7, <1>8, <1>12, <2>1, AppPageAssumption DEF AppPageTypeOK, Shrunk, Grown
  <2>3. unread' \subseteq Parts /\ harmed' \subseteq PageKeys
    BY <1>0, <1>1, <1>3 DEF AppPageTypeOK
  <2> QED
    BY <1>0, <1>2, <1>9, <1>12, <2>2, <2>3 DEF TabsTyped, AppPageTypeOK
<1>21. CallsSound'
  <2>1. ASSUME NEW m \in DOMAIN tabAsks'
        PROVE  WellAsked(tabAsks'[m]) /\ TrueReads(tabAsks[m])' /\ (tabAsks'[m].kind \notin Listing => tabAsks'[m].ok = {})
    <3> DEFINE j == Src(n, m)
    <3>1. /\ j \in DOMAIN tabAsks /\ Kin(tabAsks'[m], tabAsks[j]) /\ tabAsks'[m] \in TabCall /\ tabAsks[j] \in TabCall
          /\ done /\ tabAsks'[m].kind \in Listing /\ a.of \notin tabAsks'[m].left => a.of \in tabAsks'[m].old
      BY <1>13
    <3> HIDE DEF j
    <3>2. WellAsked(tabAsks[j]) /\ TrueReads(tabAsks[j]) /\ (tabAsks[j].kind \notin Listing => tabAsks[j].ok = {})
      BY <1>0, <3>1 DEF CallsSound
    <3>3. PICK c : c = tabAsks'[m]
      OBVIOUS
    <3>4. WellAsked(c) /\ TrueReads(c)'
      BY <1>19, <3>1, <3>2, <3>3, KinSound
    <3>5. TrueReads(tabAsks[m])'
      BY <3>3, <3>4 DEF TrueReads
    <3> QED
      BY <3>1, <3>2, <3>3, <3>4, <3>5 DEF Kin
  <2>2. ASSUME NEW m \in DOMAIN tabReplies' PROVE WellAsked(tabReplies'[m]) /\ TrueReads(tabReplies[m])'
    <3>1. CASE tabReplies'[m] = x
      BY <1>1, <1>10, <1>11, <3>1 DEF TrueReads
    <3>2. CASE tabReplies'[m] # x
      <4>1. /\ m \in DOMAIN tabReplies /\ Kin(tabReplies'[m], tabReplies[m]) /\ tabReplies'[m] \in TabCall /\ tabReplies[m] \in TabCall
            /\ done /\ tabReplies'[m].kind \in Listing /\ a.of \notin tabReplies'[m].left => a.of \in tabReplies'[m].old
        BY <1>14, <3>2
      <4>2. WellAsked(tabReplies[m]) /\ TrueReads(tabReplies[m])
        BY <1>0, <4>1 DEF CallsSound
      <4>3. PICK c : c = tabReplies'[m]
        OBVIOUS
      <4>4. WellAsked(c) /\ TrueReads(c)'
        BY <1>19, <4>1, <4>2, <4>3, KinSound
      <4> QED
        BY <4>3, <4>4 DEF TrueReads
    <3> QED
      BY <3>1, <3>2
  <2>3. ASSUME NEW p \in Tabs PROVE OneOf(p)'
    <3> SUFFICES ASSUME p \notin crossed PROVE OneOf(p)'
      BY <1>2 DEF OneOf
    <3>1. \A m \in DOMAIN tabAsks' : Src(n, m) \in DOMAIN tabAsks \ {n} /\ tabAsks'[m].of = tabAsks[Src(n, m)].of
      BY <1>13 DEF Kin
    <3>2. \A m \in DOMAIN tabReplies' : \/ m = last /\ tabReplies'[m].of = tabAsks[n].of
                                        \/ m \in DOMAIN tabReplies /\ tabReplies'[m].of = tabReplies[m].of
      BY <1>8, <1>10, <1>12, <1>14, <1>16 DEF Kin, a, Grown
    <3>3. /\ \A l, m \in DOMAIN tabAsks : tabAsks[l].of = p /\ tabAsks[m].of = p => l = m
          /\ \A l, m \in DOMAIN tabReplies : tabReplies[l].of = p /\ tabReplies[m].of = p => l = m
          /\ \A l \in DOMAIN tabAsks, m \in DOMAIN tabReplies : ~(tabAsks[l].of = p /\ tabReplies[m].of = p)
      BY <1>6 DEF OneOf
    <3> QED
      BY <1>18, <3>1, <3>2, <3>3 DEF OneOf
  <2> QED
    BY <2>1, <2>2, <2>3 DEF CallsSound, WellAsked
<1>22. FormIsRead' /\ harmed' = {}
  <2>1. \A k \in PageKeys \ a.touched : varRows'[k] = varRows[k] \/ "env" \in crossed
    BY <1>1, <1>5 DEF SavesTouched
  <2>2. "env" \notin unread' \cup crossed' => \A k \in PageKeys \ edited' : form'[k] = Mask(varRows)'[k]
    <3> SUFFICES ASSUME "env" \notin unread' \cup crossed', NEW k \in PageKeys \ edited PROVE form[k] = Mask(varRows)'[k]
      BY <1>2
    <3>1. "env" \notin unread \cup crossed
      BY <1>1, <1>2
    <3>2. form[k] = Mask(varRows)[k]
      BY <1>0, <3>1 DEF FormIsRead
    <3>3. varRows'[k] = varRows[k]
      <4>1. CASE done /\ a.kind = "put"
        <5>1. ~Outdates(a)
          BY <1>1, <1>4, <4>1
        <5> QED
          BY <2>1, <3>1, <4>1, <5>1 DEF Outdates
      <4>2. CASE ~(done /\ a.kind = "put")
        BY <1>1, <4>2
      <4> QED
        BY <4>1, <4>2
    <3> QED
      BY <3>2, <3>3 DEF Mask
  <2>3. ASSUME "env" \notin crossed, NEW m \in DOMAIN tabAsks' PROVE SavesTouched(tabAsks[m])'
    <3> SUFFICES ASSUME tabAsks'[m].kind = "put" PROVE SavesTouched(tabAsks[m])'
      BY DEF SavesTouched
    <3> DEFINE j == Src(n, m)
    <3>1. j \in DOMAIN tabAsks \ {n} /\ Kin(tabAsks'[m], tabAsks[j])
      BY <1>13
    <3> HIDE DEF j
    <3>2. SavesTouched(tabAsks[j]) /\ tabAsks[j].kind = "put" /\ tabAsks[j].of = "env"
      BY <1>0, <2>3, <3>1 DEF FormIsRead, Kin, CallsSound, WellAsked
    <3>3. a.of # "env"
      BY <1>6, <2>3, <3>1, <3>2 DEF OneOf, a, Tabs
    <3>4. varRows' = varRows
      BY <1>1, <1>4, <3>3
    <3> QED
      BY <3>1, <3>2, <3>4 DEF SavesTouched, StoredVars, Kin
  <2>4. harmed' = {}
    BY <1>0, <1>1, <2>1
  <2> QED
    BY <1>0, <1>2, <2>2, <2>3, <2>4 DEF FormIsRead, BoxesFit
<1>23. FqdnsFollow'
  <2> SUFFICES ASSUME "domains" \notin crossed PROVE FqdnsFollow'
    BY <1>2 DEF FqdnsFollow
  <2>1. CASE a.of = "domains"
    <3>1. /\ \A m \in DOMAIN tabAsks \ {n} : tabAsks[m].of # "domains"
          /\ \A m \in DOMAIN tabReplies : tabReplies[m].of # "domains"
      BY <1>6, <2>1 DEF OneOf, a, Tabs
    <3>2. \A m \in DOMAIN tabReplies : tabReplies[m].kind \notin {"add", "drop", "list"}
      BY <1>0, <3>1 DEF CallsSound, WellAsked
    <3>3. \A m \in DOMAIN tabAsks : tabAsks[m].kind # "list"
      BY <1>0, <1>1, <3>1 DEF CallsSound, WellAsked, a, Listing
    <3>4. ~Relists /\ \A m \in DOMAIN tabReplies : ~Dropped(m)
      BY <3>2, <3>3 DEF Relists, Dropped
    <3>5. \A m \in DOMAIN tabReplies' : Dropped(m)' => tabReplies'[m] = x
      BY <1>14, <3>2 DEF Dropped, Kin
    <3>6. "domains" \notin unread => fqdnView = fqdnRows
      BY <1>0, <3>4 DEF FqdnsFollow
    <3>7. CASE ~done
      <4>1. x.ok = {} /\ fqdnRows' = fqdnRows /\ unread' = unread
        BY <1>1, <1>10, <3>7
      <4> QED
        BY <1>2, <3>5, <3>6, <4>1 DEF FqdnsFollow, Dropped
    <3>8. CASE done /\ ~told
      <4>1. x.ok = {} /\ "domains" \in unread'
        BY <1>1, <1>10, <2>1, <3>8
      <4> QED
        BY <3>5, <4>1 DEF FqdnsFollow, Dropped
    <3>9. CASE done /\ told /\ a.kind = "add"
      <4>1. Relists'
        BY <1>10, <1>16, <3>9 DEF Relists
      <4>2. \A m \in DOMAIN tabReplies' : ~Dropped(m)'
        BY <1>10, <3>5, <3>9 DEF Dropped
      <4> QED
        BY <4>1, <4>2 DEF FqdnsFollow
    <3>10. CASE done /\ told /\ a.kind = "drop"
      <4>1. fqdnRows' = fqdnRows \ {x.sends} /\ unread' = unread
        BY <1>1, <1>10, <3>10 DEF Outdates
      <4>2. Dropped(last)'
        BY <1>10, <1>16, <3>10 DEF Dropped
      <4> QED
        BY <1>2, <1>16, <3>5, <3>6, <4>1, <4>2 DEF FqdnsFollow
    <3> QED
      BY <1>4, <2>1, <3>7, <3>8, <3>9, <3>10
  <2>2. CASE a.of # "domains"
    <3>1. fqdnRows' = fqdnRows /\ ("domains" \in unread' <=> "domains" \in unread) /\ a.kind \notin {"add", "drop", "list"}
      BY <1>1, <1>4, <2>2 DEF Listing
    <3>2. Relists => Relists'
      <4>1. ASSUME NEW j \in DOMAIN tabAsks, tabAsks[j].kind = "list" PROVE Relists'
        <5>1. j # n
          BY <3>1, <4>1 DEF a
        <5> QED
          BY <1>13, <1>17, <4>1, <5>1 DEF Relists, Kin
      <4>2. ASSUME NEW j \in DOMAIN tabReplies, tabReplies[j].kind = "list" \/ (tabReplies[j].kind = "add" /\ tabReplies[j].ok # {}) PROVE Relists'
        BY <1>15, <4>2 DEF Relists, Kin
      <4> QED
        BY <4>1, <4>2 DEF Relists
    <3>3. \A m \in DOMAIN tabReplies' : Dropped(m)' => m \in DOMAIN tabReplies /\ Dropped(m) /\ tabReplies'[m].sends = tabReplies[m].sends
      BY <1>10, <1>14, <3>1 DEF Dropped, Kin
    <3>4. \A m \in DOMAIN tabReplies : Dropped(m) => m \in DOMAIN tabReplies' /\ Dropped(m)' /\ tabReplies'[m].sends = tabReplies[m].sends
      BY <1>15 DEF Dropped, Kin
    <3> QED
      BY <1>0, <1>2, <3>1, <3>2, <3>3, <3>4 DEF FqdnsFollow
  <2> QED
    BY <2>1, <2>2
<1>24. HookFollows'
  <2> SUFFICES ASSUME "webhook" \notin crossed PROVE HookFollows'
    BY <1>2 DEF HookFollows
  <2>1. CASE a.of = "webhook"
    <3>1. \A m \in DOMAIN tabReplies : tabReplies[m].of # "webhook"
      BY <1>6, <2>1 DEF OneOf, a, Tabs
    <3>2. \A m \in DOMAIN tabReplies : tabReplies[m].kind # "rotate"
      BY <1>0, <3>1 DEF CallsSound, WellAsked
    <3>3. \A m \in DOMAIN tabReplies' : Rotated(m)' => tabReplies'[m] = x
      BY <1>14, <3>2 DEF Rotated, Kin
    <3>4. "webhook" \notin unread => hookView.known = (hookRow > 0) /\ hookView.secret \in {0, hookRow}
      BY <1>0, <3>2 DEF HookFollows, Rotated
    <3>5. CASE ~done
      <4>1. x.ok = {} /\ hookRow' = hookRow /\ unread' = unread
        BY <1>1, <1>10, <3>5
      <4> QED
        BY <1>2, <3>3, <3>4, <4>1 DEF HookFollows, Rotated
    <3>6. CASE done /\ ~told
      <4>1. x.ok = {} /\ "webhook" \in unread'
        BY <1>1, <1>10, <2>1, <3>6
      <4> QED
        BY <3>3, <4>1 DEF HookFollows, Rotated
    <3>7. CASE done /\ told
      <4>1. x.kind = "rotate" /\ x.ok # {} /\ hookRow' > 0 /\ x.webhook = [known |-> TRUE, secret |-> hookRow']
        BY <1>0, <1>1, <1>4, <1>10, <2>1, <3>7 DEF AppPageTypeOK
      <4>2. Rotated(last)'
        BY <1>16, <4>1 DEF Rotated
      <4> QED
        BY <3>3, <4>1, <4>2 DEF HookFollows
    <3> QED
      BY <3>5, <3>6, <3>7
  <2>2. CASE a.of # "webhook"
    <3>1. hookRow' = hookRow /\ ("webhook" \in unread' <=> "webhook" \in unread) /\ a.kind # "rotate"
      BY <1>1, <1>4, <2>2
    <3>2. \A m \in DOMAIN tabReplies' : Rotated(m)' => m \in DOMAIN tabReplies /\ Rotated(m) /\ tabReplies'[m].webhook = tabReplies[m].webhook
      BY <1>10, <1>14, <3>1 DEF Rotated, Kin
    <3>3. \A m \in DOMAIN tabReplies : Rotated(m) => m \in DOMAIN tabReplies' /\ Rotated(m)'
      BY <1>15 DEF Rotated, Kin
    <3> QED
      BY <1>0, <1>2, <3>1, <3>2, <3>3 DEF HookFollows
  <2> QED
    BY <2>1, <2>2
<1> QED
  BY <1>20, <1>21, <1>22, <1>23, <1>24 DEF AppInv

\* What an answer that arrives leaves of those under way: all but itself, some more marked.
Arrived(n) ==
  /\ tabReplies' \in Seq(TabCall) /\ Len(tabReplies') = Len(tabReplies) - 1
  /\ \A m \in DOMAIN tabReplies' : /\ Src(n, m) \in DOMAIN tabReplies \ {n} /\ Kin(tabReplies'[m], tabReplies[Src(n, m)])
                                   /\ tabReplies'[m] \in TabCall /\ tabReplies[Src(n, m)] \in TabCall
  /\ \A k \in DOMAIN tabReplies \ {n} : \E m \in DOMAIN tabReplies' : Src(n, m) = k /\ Kin(tabReplies'[m], tabReplies[k])
  /\ \A l, m \in DOMAIN tabReplies' : Src(n, l) = Src(n, m) => l = m

LEMMA ArrivedMarked ==
  ASSUME TabsTyped, NEW n \in DOMAIN tabReplies, NEW ps \in SUBSET Parts, tabReplies' = Later(tabReplies, n, ps) PROVE Arrived(n)
BY MarkedLater DEF TabsTyped, Arrived

LEMMA ArrivedPlain ==
  ASSUME TabsTyped, NEW n \in DOMAIN tabReplies, tabReplies' = RemoveAt(tabReplies, n) PROVE Arrived(n)
<1>1. tabReplies' \in Seq(TabCall) /\ Shrunk(tabReplies', tabReplies, n)
  BY Shrinks DEF TabsTyped
<1>2. \A m \in DOMAIN tabReplies : tabReplies[m] \in TabCall
  BY ElementOfSeq, LenProperties DEF TabsTyped
<1> QED
  BY <1>1, <1>2 DEF Shrunk, Arrived, Kin

\* What the pages's requests and answers keep when one arrives, and another read may be asked.
LEMMA TabArrives ==
  ASSUME AppInv, UNCHANGED <<tabClicks, tabFaults, serverTabs, crossed, harmed>>,
         NEW n \in DOMAIN tabReplies, Arrived(n),
         NEW c \in TabCall, WellAsked(c), TrueReads(c), c.kind \in Listing, c.ok = {},
         tabAsks' = tabAsks \/ tabAsks' = Append(tabAsks, c),
         c.of \in Tabs /\ tabAsks' # tabAsks => c.of = tabReplies[n].of,
         appShown' \in BOOLEAN, form' \in [PageKeys -> FormRow], hookView' \in HookView, fqdnView' \subseteq PageFqdns,
         edited' \subseteq PageKeys, unread' \subseteq Parts
  PROVE  /\ TabsTyped' /\ CallsSound' /\ harmed' = {}
         /\ "env" \notin crossed => \A m \in DOMAIN tabAsks' : SavesTouched(tabAsks[m])'
         /\ \A m \in DOMAIN tabAsks : tabAsks[m].kind = "list" => \E l \in DOMAIN tabAsks' : tabAsks'[l].kind = "list"
         /\ tabAsks' = Append(tabAsks, c) => \E l \in DOMAIN tabAsks' : tabAsks'[l] = c
<1>0. TabsTyped /\ CallsSound /\ FormIsRead /\ FqdnsFollow /\ HookFollows /\ harmed = {} /\ AppPageTypeOK
  BY DEF AppInv, TabsTyped
<1>1. UNCHANGED <<varRows, hookRow, fqdnRows, crossed, harmed>>
  BY DEF serverTabs
<1>2. /\ tabAsks' \in Seq(TabCall) /\ Len(tabAsks') <= Len(tabAsks) + 1 /\ Len(tabAsks') \in Nat /\ Len(tabAsks) \in Nat
      /\ \A k \in DOMAIN tabAsks : k \in DOMAIN tabAsks' /\ tabAsks'[k] = tabAsks[k]
      /\ \A m \in DOMAIN tabAsks' : m \in DOMAIN tabAsks \/ (tabAsks'[m] = c /\ m = Len(tabAsks) + 1 /\ tabAsks' # tabAsks)
      /\ tabAsks' = Append(tabAsks, c) => \E l \in DOMAIN tabAsks' : tabAsks'[l] = c
  <2>1. CASE tabAsks' = tabAsks
    <3>1. Len(tabAsks) \in Nat /\ tabAsks \in Seq(TabCall)
      BY <1>0, LenProperties DEF TabsTyped
    <3>2. tabAsks # Append(tabAsks, c)
      <4>1. Len(Append(tabAsks, c)) = Len(tabAsks) + 1
        BY <1>0, Appended DEF TabsTyped
      <4> QED
        BY <3>1, <4>1
    <3> QED
      BY <2>1, <3>1, <3>2
  <2>2. CASE tabAsks' = Append(tabAsks, c)
    <3>1. Append(tabAsks, c) \in Seq(TabCall) /\ Grown(Append(tabAsks, c), tabAsks, c)
      BY <1>0, Grows DEF TabsTyped
    <3>2. tabAsks' # tabAsks
      BY <2>2, <3>1 DEF Grown
    <3>3. tabAsks' \in Seq(TabCall) /\ Grown(tabAsks', tabAsks, c)
      BY <2>2, <3>1
    <3>4. /\ Len(tabAsks') = Len(tabAsks) + 1 /\ Len(tabAsks) \in Nat
          /\ \A k \in DOMAIN tabAsks : k \in DOMAIN tabAsks' /\ tabAsks'[k] = tabAsks[k]
          /\ \A m \in DOMAIN tabAsks' : m \in DOMAIN tabAsks \/ m = Len(tabAsks) + 1
          /\ Len(tabAsks) + 1 \in DOMAIN tabAsks' /\ tabAsks'[Len(tabAsks) + 1] = c
      BY <3>3 DEF Grown
    <3> QED
      BY <3>2, <3>3, <3>4
  <2> QED
    BY <2>1, <2>2
<1>3. TabsTyped'
  <2>1. Len(tabReplies) \in Nat /\ Len(tabReplies') = Len(tabReplies) - 1
    BY <1>0, LenProperties DEF TabsTyped, Arrived
  <2>2. Len(tabAsks') + Len(tabReplies') <= MaxTabCalls + 1
    BY <1>0, <1>2, <2>1, AppPageAssumption DEF AppPageTypeOK
  <2> QED
    BY <1>0, <1>1, <1>2, <2>2 DEF TabsTyped, AppPageTypeOK, Arrived
<1>4. CallsSound'
  <2>1. ASSUME NEW m \in DOMAIN tabAsks'
        PROVE  WellAsked(tabAsks'[m]) /\ TrueReads(tabAsks'[m]) /\ (tabAsks'[m].kind \notin Listing => tabAsks'[m].ok = {})
    BY <1>0, <1>2 DEF CallsSound
  <2>2. ASSUME NEW m \in DOMAIN tabReplies' PROVE WellAsked(tabReplies'[m]) /\ TrueReads(tabReplies'[m])
    <3>1. /\ Src(n, m) \in DOMAIN tabReplies /\ Kin(tabReplies'[m], tabReplies[Src(n, m)])
          /\ tabReplies'[m] \in TabCall /\ tabReplies[Src(n, m)] \in TabCall
      BY DEF Arrived
    <3>2. WellAsked(tabReplies[Src(n, m)]) /\ TrueReads(tabReplies[Src(n, m)])
      BY <1>0, <3>1 DEF CallsSound
    <3> QED
      BY <3>1, <3>2, KinSound
  <2>3. ASSUME NEW p \in Tabs PROVE OneOf(p)'
    <3> SUFFICES ASSUME p \notin crossed PROVE OneOf(p)'
      BY <1>1 DEF OneOf
    <3>1. /\ \A l, m \in DOMAIN tabAsks : tabAsks[l].of = p /\ tabAsks[m].of = p => l = m
          /\ \A l, m \in DOMAIN tabReplies : tabReplies[l].of = p /\ tabReplies[m].of = p => l = m
          /\ \A l \in DOMAIN tabAsks, m \in DOMAIN tabReplies : ~(tabAsks[l].of = p /\ tabReplies[m].of = p)
      BY <1>0 DEF CallsSound, OneOf
    <3>2. \A m \in DOMAIN tabReplies' : Src(n, m) \in DOMAIN tabReplies \ {n} /\ tabReplies'[m].of = tabReplies[Src(n, m)].of
      BY DEF Arrived, Kin
    <3>3. \A l, m \in DOMAIN tabReplies' : Src(n, l) = Src(n, m) => l = m
      BY DEF Arrived
    <3>4. \A m \in DOMAIN tabAsks' : \/ m \in DOMAIN tabAsks /\ tabAsks'[m].of = tabAsks[m].of
                                     \/ m = Len(tabAsks) + 1 /\ (tabAsks'[m].of = p => tabReplies[n].of = p)
      BY <1>2
    <3> QED
      BY <3>1, <3>2, <3>3, <3>4 DEF OneOf
  <2> QED
    BY <1>1, <2>1, <2>2, <2>3 DEF CallsSound, TrueReads, WellAsked
<1>5. "env" \notin crossed => \A m \in DOMAIN tabAsks' : SavesTouched(tabAsks[m])'
  <2>1. "env" \notin crossed => \A m \in DOMAIN tabAsks' : SavesTouched(tabAsks'[m])
    BY <1>0, <1>2 DEF FormIsRead, SavesTouched, Listing
  <2> QED
    BY <1>1, <2>1 DEF SavesTouched, StoredVars
<1> QED
  BY <1>0, <1>1, <1>2, <1>3, <1>4, <1>5

\* The answers before say nothing more than they did.
LEMMA RepliesKept ==
  ASSUME NEW n \in DOMAIN tabReplies, Arrived(n)
  PROVE  /\ \A m \in DOMAIN tabReplies' : /\ Dropped(m)' => \E j \in DOMAIN tabReplies \ {n} : Dropped(j) /\ tabReplies'[m].sends = tabReplies[j].sends
                                          /\ Rotated(m)' => \E j \in DOMAIN tabReplies \ {n} : Rotated(j) /\ tabReplies'[m].webhook = tabReplies[j].webhook
         /\ \A j \in DOMAIN tabReplies \ {n} :
              /\ Dropped(j) => \E m \in DOMAIN tabReplies' : Dropped(m)' /\ tabReplies'[m].sends = tabReplies[j].sends
              /\ Rotated(j) => \E m \in DOMAIN tabReplies' : Rotated(m)'
              /\ tabReplies[j].kind = "list" \/ (tabReplies[j].kind = "add" /\ tabReplies[j].ok # {}) => Relists'
<1>1. /\ \A m \in DOMAIN tabReplies' : Src(n, m) \in DOMAIN tabReplies \ {n} /\ Kin(tabReplies'[m], tabReplies[Src(n, m)])
      /\ \A k \in DOMAIN tabReplies \ {n} : \E m \in DOMAIN tabReplies' : Src(n, m) = k /\ Kin(tabReplies'[m], tabReplies[k])
  BY DEF Arrived
<1> QED
  BY <1>1 DEF Dropped, Rotated, Relists, Kin

\* loadAll.
LEMMA LoadArrives ==
  ASSUME AppInv, UNCHANGED <<tabClicks, tabFaults>>, NEW n \in DOMAIN tabReplies, ArriveLoadAll(n) PROVE AppInv'
<1>0. TabsTyped /\ CallsSound /\ FormIsRead /\ FqdnsFollow /\ HookFollows /\ harmed = {} /\ AppPageTypeOK
  BY DEF AppInv, TabsTyped
<1> DEFINE a == tabReplies[n]
<1>1. a \in TabCall /\ WellAsked(a) /\ TrueReads(a) /\ a.kind = "load"
  BY <1>0, ElementOfSeq, LenProperties DEF TabsTyped, CallsSound, ArriveLoadAll
<1>2. /\ appShown' = (appShown \/ "app" \in a.ok)
      /\ form' = (IF "env" \in a.ok THEN a.env ELSE form) /\ edited' = (IF "env" \in a.ok THEN {} ELSE edited)
      /\ fqdnView' = (IF "domains" \in a.ok THEN a.domains ELSE fqdnView)
      /\ hookView' = (IF "webhook" \in a.ok THEN a.webhook ELSE NoView)
      /\ unread' = (unread \cup (Parts \ a.ok) \cup a.old) \ (a.ok \ a.old)
      /\ UNCHANGED <<serverTabs, tabAsks, crossed, harmed>> /\ tabReplies' = Later(tabReplies, n, a.ok)
  BY DEF ArriveLoadAll
<1> HIDE DEF a
<1>3. a.ok \subseteq Parts /\ a.old \subseteq Parts /\ a.env \in [PageKeys -> FormRow] /\ a.domains \subseteq PageFqdns /\ a.webhook \in HookView
  BY <1>1 DEF TabCall
<1>4. NoView \in HookView
  BY DEF NoView, HookView
<1>5. Arrived(n)
  BY <1>0, <1>2, <1>3, ArrivedMarked
<1>6. UNCHANGED <<varRows, hookRow, fqdnRows>>
  BY <1>2 DEF serverTabs
<1>7. /\ TabsTyped' /\ CallsSound' /\ harmed' = {} /\ ("env" \notin crossed => \A m \in DOMAIN tabAsks' : SavesTouched(tabAsks[m])')
  <2>1. /\ appShown' \in BOOLEAN /\ form' \in [PageKeys -> FormRow] /\ hookView' \in HookView /\ fqdnView' \subseteq PageFqdns
        /\ edited' \subseteq PageKeys /\ unread' \subseteq Parts
    BY <1>0, <1>2, <1>3, <1>4 DEF AppPageTypeOK
  <2> QED
    BY <1>2, <1>5, <2>1, LoadAllTyped, TabArrives DEF Listing
<1>8. \A p \in Parts : p \notin unread' => p \in a.ok \ a.old
  BY <1>2
<1>9. FormIsRead'
  <2>1. BoxesFit(form')
    BY <1>0, <1>1, <1>2 DEF FormIsRead, WellAsked
  <2>2. "env" \notin unread' => form' = Mask(varRows)
    BY <1>1, <1>2, <1>8 DEF TrueReads, Parts, Listing
  <2> QED
    BY <1>2, <1>6, <1>7, <2>1, <2>2 DEF FormIsRead, BoxesFit, Mask
<1>10. FqdnsFollow'
  <2>1. "domains" \notin unread' => fqdnView' = fqdnRows
    BY <1>1, <1>2, <1>8 DEF TrueReads, Parts, Listing
  <2>2. "domains" \notin crossed => \A m \in DOMAIN tabReplies' : Dropped(m)' => tabReplies'[m].sends \notin fqdnRows
    BY <1>0, <1>5, RepliesKept DEF FqdnsFollow
  <2> QED
    BY <1>2, <1>6, <2>1, <2>2 DEF FqdnsFollow
<1>11. HookFollows'
  <2>1. "webhook" \notin unread' => hookView' = [known |-> hookRow > 0, secret |-> 0]
    BY <1>1, <1>2, <1>8 DEF TrueReads, Parts, Listing
  <2>2. "webhook" \notin crossed => \A m \in DOMAIN tabReplies' : Rotated(m)' =>
          hookRow > 0 /\ tabReplies'[m].webhook = [known |-> TRUE, secret |-> hookRow]
    BY <1>0, <1>5, RepliesKept DEF HookFollows
  <2>3. "webhook" \notin unread' => hookView'.known = (hookRow' > 0) /\ hookView'.secret \in {0, hookRow'}
    BY <1>6, <2>1
  <2> QED
    BY <1>2, <1>6, <2>2, <2>3 DEF HookFollows
<1> QED
  BY <1>7, <1>9, <1>10, <1>11 DEF AppInv

\* saveEnv.
LEMMA SavedArrives ==
  ASSUME AppInv, UNCHANGED <<tabClicks, tabFaults>>, NEW n \in DOMAIN tabReplies, ArriveSaved(n) PROVE AppInv'
<1>0. TabsTyped /\ CallsSound /\ FormIsRead /\ FqdnsFollow /\ HookFollows /\ harmed = {} /\ AppPageTypeOK
  BY DEF AppInv, TabsTyped
<1>1. /\ tabReplies[n].kind = "put" /\ tabReplies' = RemoveAt(tabReplies, n)
      /\ tabAsks' = tabAsks \/ tabAsks' = Append(tabAsks, LoadAll)
      /\ UNCHANGED <<serverTabs, appShown, tabs, tabGhosts>>
  BY DEF ArriveSaved
<1>2. UNCHANGED <<varRows, hookRow, fqdnRows, form, hookView, fqdnView, edited, unread, crossed, harmed>>
  BY <1>1 DEF serverTabs, tabs, tabGhosts
<1>3. Arrived(n)
  BY <1>0, <1>1, ArrivedPlain
<1>4. /\ TabsTyped' /\ CallsSound' /\ harmed' = {} /\ ("env" \notin crossed => \A m \in DOMAIN tabAsks' : SavesTouched(tabAsks[m])')
      /\ \A m \in DOMAIN tabAsks : tabAsks[m].kind = "list" => \E l \in DOMAIN tabAsks' : tabAsks'[l].kind = "list"
  <2>1. /\ appShown' \in BOOLEAN /\ form' \in [PageKeys -> FormRow] /\ hookView' \in HookView /\ fqdnView' \subseteq PageFqdns
        /\ edited' \subseteq PageKeys /\ unread' \subseteq Parts
    BY <1>0, <1>1, <1>2 DEF AppPageTypeOK
  <2>2. LoadAll.of \notin Tabs
    BY LoadAllTyped DEF Tabs
  <2> QED
    BY <1>1, <1>2, <1>3, <2>1, <2>2, LoadAllTyped, TabArrives DEF Listing
<1>5. FormIsRead'
  BY <1>0, <1>2, <1>4 DEF FormIsRead, BoxesFit, Mask
<1>6. FqdnsFollow'
  <2>1. Relists => Relists'
    <3>1. ASSUME NEW j \in DOMAIN tabReplies, tabReplies[j].kind = "list" \/ (tabReplies[j].kind = "add" /\ tabReplies[j].ok # {}) PROVE Relists'
      <4>1. j \in DOMAIN tabReplies \ {n}
        BY <1>1, <3>1
      <4> QED
        BY <1>3, <3>1, <4>1, RepliesKept
    <3> QED
      BY <1>4, <3>1 DEF Relists
  <2>2. \A j \in DOMAIN tabReplies : Dropped(j) => j # n
    BY <1>1 DEF Dropped
  <2> QED
    BY <1>0, <1>2, <1>3, <2>1, <2>2, RepliesKept DEF FqdnsFollow
<1>7. HookFollows'
  <2>1. \A j \in DOMAIN tabReplies : Rotated(j) => j # n
    BY <1>1 DEF Rotated
  <2> QED
    BY <1>0, <1>2, <1>3, <2>1, RepliesKept DEF HookFollows
<1> QED
  BY <1>4, <1>5, <1>6, <1>7 DEF AppInv

\* addDomain and removeDomain.
LEMMA FqdnArrives ==
  ASSUME AppInv, UNCHANGED <<tabClicks, tabFaults>>, NEW n \in DOMAIN tabReplies, ArriveFqdn(n) PROVE AppInv'
<1>0. TabsTyped /\ CallsSound /\ FormIsRead /\ FqdnsFollow /\ HookFollows /\ harmed = {} /\ AppPageTypeOK
  BY DEF AppInv, TabsTyped
<1> DEFINE a == tabReplies[n]
           b == TabAsk("list", "domains", "none")
           c == [b EXCEPT !.left = {"domains"}]
<1>1. /\ a.kind \in {"add", "drop"} /\ tabReplies' = RemoveAt(tabReplies, n)
      /\ tabAsks' = (IF a.kind = "add" /\ a.ok # {} THEN Append(tabAsks, c) ELSE tabAsks)
      /\ fqdnView' = (IF a.kind = "drop" /\ a.ok # {} THEN fqdnView \ {a.sends} ELSE fqdnView)
      /\ UNCHANGED <<serverTabs, appShown, form, hookView, tabGhosts>>
  BY DEF ArriveFqdn
<1>2. UNCHANGED <<varRows, hookRow, fqdnRows, form, hookView, edited, unread, crossed, harmed>>
  BY <1>1 DEF serverTabs, tabGhosts
<1>3. a.of = "domains"
  BY <1>0, <1>1 DEF CallsSound, WellAsked
<1>4. c \in TabCall /\ c.kind = "list" /\ c.of = "domains" /\ c.ok = {} /\ WellAsked(c) /\ TrueReads(c)
  <2>1. b \in TabCall /\ b.kind = "list" /\ b.of = "domains" /\ b.ok = {} /\ BoxesFit(b.env)
    BY DEF TabAsk, TabCall, Tabs, Listing, Absent, NoView, FormRow, VarRow, HookView, BoxesFit
  <2>2. c \in TabCall /\ c.kind = "list" /\ c.of = "domains" /\ c.ok = {} /\ c.left = {"domains"} /\ c.env = b.env
    BY <2>1 DEF TabCall, Parts
  <2> HIDE DEF b, c
  <2> QED
    BY <2>1, <2>2 DEF WellAsked, TrueReads, Listing
<1> HIDE DEF a, b, c
<1>5. Arrived(n)
  BY <1>0, <1>1, ArrivedPlain
<1>6. /\ TabsTyped' /\ CallsSound' /\ harmed' = {} /\ ("env" \notin crossed => \A m \in DOMAIN tabAsks' : SavesTouched(tabAsks[m])')
      /\ a.kind = "add" /\ a.ok # {} => \E l \in DOMAIN tabAsks' : tabAsks'[l].kind = "list"
  <2>1. /\ appShown' \in BOOLEAN /\ form' \in [PageKeys -> FormRow] /\ hookView' \in HookView /\ fqdnView' \subseteq PageFqdns
        /\ edited' \subseteq PageKeys /\ unread' \subseteq Parts
    BY <1>0, <1>1, <1>2 DEF AppPageTypeOK
  <2>2. c.of = tabReplies[n].of
    BY <1>3, <1>4 DEF a
  <2>3. tabAsks' = tabAsks \/ tabAsks' = Append(tabAsks, c)
    BY <1>1
  <2>4. /\ TabsTyped' /\ CallsSound' /\ harmed' = {} /\ ("env" \notin crossed => \A m \in DOMAIN tabAsks' : SavesTouched(tabAsks[m])')
        /\ tabAsks' = Append(tabAsks, c) => \E l \in DOMAIN tabAsks' : tabAsks'[l] = c
    BY <1>1, <1>2, <1>4, <1>5, <2>1, <2>2, <2>3, TabArrives DEF Listing
  <2> QED
    BY <1>1, <1>4, <2>4
<1>7. FormIsRead'
  BY <1>0, <1>2, <1>6 DEF FormIsRead, BoxesFit, Mask
<1>8. FqdnsFollow'
  <2> SUFFICES ASSUME "domains" \notin crossed PROVE FqdnsFollow'
    BY <1>2 DEF FqdnsFollow
  <2>1. /\ \A m \in DOMAIN tabAsks : tabAsks[m].of # "domains"
        /\ \A m \in DOMAIN tabReplies \ {n} : tabReplies[m].of # "domains"
    BY <1>0, <1>3 DEF CallsSound, OneOf, Tabs, a
  <2>2. /\ \A m \in DOMAIN tabAsks : tabAsks[m].kind # "list"
        /\ \A m \in DOMAIN tabReplies \ {n} : tabReplies[m].kind \notin {"add", "drop", "list"}
    BY <1>0, <2>1 DEF CallsSound, WellAsked
  <2>3. \A m \in DOMAIN tabReplies' : ~Dropped(m)'
    BY <1>5, <2>2, RepliesKept DEF Dropped
  <2>4. "domains" \notin unread => \/ fqdnView = fqdnRows \/ (a.kind = "add" /\ a.ok # {})
                                   \/ a.kind = "drop" /\ a.ok # {} /\ fqdnView \ {a.sends} = fqdnRows
    BY <1>0, <1>1, <2>2 DEF FqdnsFollow, Relists, Dropped, a
  <2>5. a.kind = "drop" /\ a.ok # {} => a.sends \notin fqdnRows
    BY <1>0 DEF FqdnsFollow, Dropped, a
  <2>6. a.kind = "add" /\ a.ok # {} => Relists'
    BY <1>6 DEF Relists
  <2>7. "domains" \notin unread => fqdnView' = fqdnRows \/ Relists'
    <3>1. CASE a.kind = "add" /\ a.ok # {}
      BY <2>6, <3>1
    <3>2. CASE a.kind = "drop" /\ a.ok # {}
      BY <1>1, <2>4, <2>5, <3>2
    <3>3. CASE a.ok = {}
      BY <1>1, <2>4, <3>3
    <3> QED
      BY <1>1, <3>1, <3>2, <3>3
  <2> QED
    BY <1>2, <2>3, <2>7 DEF FqdnsFollow
<1>9. HookFollows'
  <2>1. \A j \in DOMAIN tabReplies : Rotated(j) => j # n
    BY <1>1 DEF Rotated, a
  <2> QED
    BY <1>0, <1>2, <1>5, <2>1, RepliesKept DEF HookFollows
<1> QED
  BY <1>6, <1>7, <1>8, <1>9 DEF AppInv

\* The list of the domains.
LEMMA FqdnsArrive ==
  ASSUME AppInv, UNCHANGED <<tabClicks, tabFaults>>, NEW n \in DOMAIN tabReplies, ArriveFqdns(n) PROVE AppInv'
<1>0. TabsTyped /\ CallsSound /\ FormIsRead /\ FqdnsFollow /\ HookFollows /\ harmed = {} /\ AppPageTypeOK
  BY DEF AppInv, TabsTyped
<1> DEFINE a == tabReplies[n]
<1>1. a \in TabCall /\ WellAsked(a) /\ TrueReads(a) /\ a.kind = "list"
  BY <1>0, ElementOfSeq, LenProperties DEF TabsTyped, CallsSound, ArriveFqdns
<1>2. /\ tabReplies' = Later(tabReplies, n, a.ok) /\ fqdnView' = (IF a.ok # {} THEN a.domains ELSE fqdnView)
      /\ unread' = (IF a.ok # {} /\ a.old = {} THEN unread \ {"domains"} ELSE unread \cup {"domains"})
      /\ UNCHANGED <<serverTabs, appShown, form, hookView, tabAsks, edited, crossed, harmed>>
  BY DEF ArriveFqdns
<1> HIDE DEF a
<1>3. a.ok \subseteq Parts /\ a.domains \subseteq PageFqdns
  BY <1>1 DEF TabCall
<1>4. Arrived(n)
  BY <1>0, <1>2, <1>3, ArrivedMarked
<1>5. UNCHANGED <<varRows, hookRow, fqdnRows>>
  BY <1>2 DEF serverTabs
<1>6. /\ TabsTyped' /\ CallsSound' /\ harmed' = {} /\ ("env" \notin crossed => \A m \in DOMAIN tabAsks' : SavesTouched(tabAsks[m])')
  <2>1. /\ appShown' \in BOOLEAN /\ form' \in [PageKeys -> FormRow] /\ hookView' \in HookView /\ fqdnView' \subseteq PageFqdns
        /\ edited' \subseteq PageKeys /\ unread' \subseteq Parts
    BY <1>0, <1>2, <1>3 DEF AppPageTypeOK, Parts
  <2> QED
    BY <1>2, <1>4, <2>1, LoadAllTyped, TabArrives DEF Listing
<1>7. FormIsRead'
  BY <1>0, <1>2, <1>5, <1>6 DEF FormIsRead, BoxesFit, Mask
<1>8. FqdnsFollow'
  <2>1. "domains" \notin unread' => fqdnView' = fqdnRows
    <3> SUFFICES ASSUME a.ok # {} /\ a.old = {} PROVE fqdnView' = fqdnRows
      BY <1>2
    <3>1. "domains" \in a.ok \ a.old
      BY <1>1 DEF WellAsked
    <3> QED
      BY <1>1, <1>2, <3>1 DEF TrueReads, Listing
  <2>2. "domains" \notin crossed => \A m \in DOMAIN tabReplies' : Dropped(m)' => tabReplies'[m].sends \notin fqdnRows
    BY <1>0, <1>4, RepliesKept DEF FqdnsFollow
  <2> QED
    BY <1>2, <1>5, <2>1, <2>2 DEF FqdnsFollow
<1>9. HookFollows'
  <2>1. \A j \in DOMAIN tabReplies : Rotated(j) => j # n
    BY <1>1 DEF Rotated, a
  <2>2. "webhook" \in unread' <=> "webhook" \in unread
    BY <1>2
  <2>3. "webhook" \notin crossed => \A m \in DOMAIN tabReplies' : Rotated(m)' =>
          hookRow > 0 /\ tabReplies'[m].webhook = [known |-> TRUE, secret |-> hookRow]
    BY <1>0, <1>4, RepliesKept DEF HookFollows
  <2>4. (\E j \in DOMAIN tabReplies : Rotated(j)) => \E m \in DOMAIN tabReplies' : Rotated(m)'
    BY <1>4, <2>1, RepliesKept
  <2> QED
    BY <1>0, <1>2, <1>5, <2>2, <2>3, <2>4 DEF HookFollows
<1> QED
  BY <1>6, <1>7, <1>8, <1>9 DEF AppInv

\* createWebhook.
LEMMA WebhookArrives ==
  ASSUME AppInv, UNCHANGED <<tabClicks, tabFaults>>, NEW n \in DOMAIN tabReplies, ArriveWebhook(n) PROVE AppInv'
<1>0. TabsTyped /\ CallsSound /\ FormIsRead /\ FqdnsFollow /\ HookFollows /\ harmed = {} /\ AppPageTypeOK
  BY DEF AppInv, TabsTyped
<1> DEFINE a == tabReplies[n]
<1>1. a \in TabCall /\ WellAsked(a) /\ a.kind = "rotate"
  BY <1>0, ElementOfSeq, LenProperties DEF TabsTyped, CallsSound, ArriveWebhook
<1>2. /\ tabReplies' = Later(tabReplies, n, a.ok) /\ hookView' = (IF a.ok # {} THEN a.webhook ELSE hookView)
      /\ unread' = unread \ a.ok
      /\ UNCHANGED <<serverTabs, appShown, form, fqdnView, tabAsks, edited, crossed, harmed>>
  BY DEF ArriveWebhook
<1>3. a.ok \subseteq {"webhook"} /\ a.ok \subseteq Parts /\ a.webhook \in HookView
  BY <1>1 DEF TabCall, WellAsked, Listing
<1> HIDE DEF a
<1>4. Arrived(n)
  BY <1>0, <1>2, <1>3, ArrivedMarked
<1>5. UNCHANGED <<varRows, hookRow, fqdnRows>>
  BY <1>2 DEF serverTabs
<1>6. /\ TabsTyped' /\ CallsSound' /\ harmed' = {} /\ ("env" \notin crossed => \A m \in DOMAIN tabAsks' : SavesTouched(tabAsks[m])')
      /\ \A m \in DOMAIN tabAsks : tabAsks[m].kind = "list" => \E l \in DOMAIN tabAsks' : tabAsks'[l].kind = "list"
  <2>1. /\ appShown' \in BOOLEAN /\ form' \in [PageKeys -> FormRow] /\ hookView' \in HookView /\ fqdnView' \subseteq PageFqdns
        /\ edited' \subseteq PageKeys /\ unread' \subseteq Parts
    BY <1>0, <1>2, <1>3 DEF AppPageTypeOK
  <2> QED
    BY <1>2, <1>4, <2>1, LoadAllTyped, TabArrives DEF Listing
<1>7. FormIsRead'
  <2>1. "env" \in unread' <=> "env" \in unread
    BY <1>2, <1>3
  <2> QED
    BY <1>0, <1>2, <1>5, <1>6, <2>1 DEF FormIsRead, BoxesFit, Mask
<1>8. FqdnsFollow'
  <2>1. Relists => Relists'
    <3>1. ASSUME NEW j \in DOMAIN tabReplies, tabReplies[j].kind = "list" \/ (tabReplies[j].kind = "add" /\ tabReplies[j].ok # {}) PROVE Relists'
      <4>1. j \in DOMAIN tabReplies \ {n}
        BY <1>1, <3>1 DEF a
      <4> QED
        BY <1>4, <3>1, <4>1, RepliesKept
    <3> QED
      BY <1>6, <3>1 DEF Relists
  <2>2. \A j \in DOMAIN tabReplies : Dropped(j) => j # n
    BY <1>1 DEF Dropped, a
  <2>3. "domains" \in unread' <=> "domains" \in unread
    BY <1>2, <1>3
  <2> QED
    BY <1>0, <1>2, <1>4, <1>5, <2>1, <2>2, <2>3, RepliesKept DEF FqdnsFollow
<1>9. HookFollows'
  <2> SUFFICES ASSUME "webhook" \notin crossed PROVE HookFollows'
    BY <1>2 DEF HookFollows
  <2>1. \A m \in DOMAIN tabReplies' : Rotated(m)' => hookRow > 0 /\ tabReplies'[m].webhook = [known |-> TRUE, secret |-> hookRow]
    BY <1>0, <1>4, RepliesKept DEF HookFollows
  <2>2. CASE a.ok # {}
    <3>1. hookRow > 0 /\ a.webhook = [known |-> TRUE, secret |-> hookRow]
      BY <1>0, <1>1, <2>2 DEF HookFollows, Rotated, a
    <3>2. hookView' = [known |-> TRUE, secret |-> hookRow]
      BY <1>2, <2>2, <3>1
    <3>3. hookView'.known = (hookRow' > 0) /\ hookView'.secret \in {0, hookRow'}
      BY <1>5, <3>1, <3>2
    <3> QED
      BY <1>5, <2>1, <3>3 DEF HookFollows
  <2>3. CASE a.ok = {}
    <3>1. hookView' = hookView /\ unread' = unread
      BY <1>2, <2>3
    <3>2. \A j \in DOMAIN tabReplies : Rotated(j) => j # n
      BY <2>3 DEF Rotated, a
    <3> QED
      BY <1>0, <1>4, <1>5, <2>1, <3>1, <3>2, RepliesKept DEF HookFollows
  <2> QED
    BY <2>2, <2>3
<1> QED
  BY <1>6, <1>7, <1>8, <1>9 DEF AppInv

LEMMA AppPageHolds == AppInv /\ [AppPageNext]_appPageVars => AppInv'
<1> SUFFICES ASSUME AppInv, [AppPageNext]_appPageVars PROVE AppInv'
  OBVIOUS
<1>1. ASSUME UNCHANGED tabClicks, NEW fails \in BOOLEAN, fails => tabFaults < MaxTabFaults,
             tabFaults' = tabFaults + (IF fails THEN 1 ELSE 0), NEW n \in DOMAIN tabAsks,
             \/ \E p \in Parts : ServeTab(n, p, fails)
             \/ \E refuses \in {FALSE, fails} : ServeTabWrite(n, refuses, ~fails)
      PROVE  AppInv'
  <2>1. tabFaults' \in 0..MaxTabFaults
    BY <1>1, AppPageAssumption DEF AppInv, TabsTyped, AppPageTypeOK
  <2> QED
    BY <1>1, <2>1, TabServed, TabWriteServed
<1>2. CASE UNCHANGED appPageVars
  <2> USE <1>2 DEF appPageVars, serverTabs, tabs, tabGhosts
  <2>1. TabsTyped'
    BY DEF AppInv, TabsTyped, AppPageTypeOK
  <2>2. CallsSound'
    BY DEF AppInv, CallsSound, WellAsked, TrueReads, OneOf
  <2>3. FormIsRead'
    BY DEF AppInv, FormIsRead, SavesTouched, StoredVars, BoxesFit, Mask
  <2>4. FqdnsFollow' /\ HookFollows'
    BY DEF AppInv, FqdnsFollow, HookFollows, Relists, Dropped, Rotated
  <2> QED
    BY <2>1, <2>2, <2>3, <2>4 DEF AppInv
<1> QED
  BY <1>1, <1>2, UserOnTabs, LoadArrives, SavedArrives, FqdnArrives, FqdnsArrive, WebhookArrives DEF AppPageNext

LEMMA AppPageShown == AppInv => AppPageIsTrue
<1> SUFFICES ASSUME AppInv PROVE AppPageIsTrue
  OBVIOUS
<1>1. TabsQuiet => DOMAIN tabAsks = {} /\ DOMAIN tabReplies = {}
  BY DEF TabsQuiet
<1>2. UntouchedStays
  BY DEF AppInv, UntouchedStays
<1>3. TabsMatchRows /\ SecretIsCurrent
  BY <1>1 DEF AppInv, TabsMatchRows, SecretIsCurrent, FormIsRead, FqdnsFollow, HookFollows, Relists, Dropped, Rotated
<1> QED
  BY <1>2, <1>3 DEF AppPageIsTrue

(***************************************************************************)
(* The mail page.  What is not marked as old is what the server has, or    *)
(* is read again; and what a row or a card that left had asked for is dead.*)
(***************************************************************************)

\* A request of the page and its answer.
MailKinds == RowKinds \cup CardKinds \cup {"list", "connect"}
MailCall  == [kind : MailKinds, of : Panels \cup {"status", "instances", "domains"},
              name : BoxNames \cup AliasNames \cup {"none", "reload", "left"}, dead : BOOLEAN, old : BOOLEAN, ok : BOOLEAN,
              gives : SUBSET (BoxNames \cup AliasNames \cup ZoneStatus)]

WellSent(a) ==
  /\ a.kind = "load" => a.of \in Panels
  /\ a.kind = "status" => a.of = "status"
  /\ a.kind = "list" => a.of \in {"instances", "domains"}
  /\ a.kind \in {"create", "delete"} => a.of \in Lists
  /\ a.kind = "create" /\ a.of = "mailboxes" => a.name \in BoxNames
  /\ a.kind = "create" /\ a.of = "aliases" => a.name \in AliasNames
  /\ a.kind = "verify" => a.of = "dns"
  /\ a.kind = "connect" => a.of = "instances"

\* Whose answer somebody waits for.
Waits(a, kinds) == a.kind \in kinds /\ ~a.dead
OfRow(a)  == Waits(a, RowKinds)
OfCard(a) == Waits(a, CardKinds) \/ (Waits(a, {"list"}) /\ a.of = "domains")
Writing   == {"verify", "create"}

MailTyped ==
  /\ mailRows \in [Lists -> SUBSET (BoxNames \cup AliasNames)] /\ mailZone \in [verdict : ZoneStatus, records : ZoneStatus]
  /\ panel \in [Panels -> [at : PanelState, rows : SUBSET (BoxNames \cup AliasNames \cup ZoneStatus)]]
  /\ MailPageTypeOK /\ asks \in Seq(MailCall) /\ answers \in Seq(MailCall)
  /\ \A n \in DOMAIN asks : WellSent(asks[n])
  /\ \A n \in DOMAIN answers : WellSent(answers[n])

\* Nobody waits for what a row or a card that is not there had asked for.
Mounted ==
  /\ ~CardShown =>
       /\ resource["domains"] = Unread
       /\ \A n \in DOMAIN asks : ~OfCard(asks[n])
       /\ \A n \in DOMAIN answers : ~OfCard(answers[n])
  /\ ~RowShown =>
       /\ panel = AllClosed /\ shownStatus = "pending" /\ ~rowBusy /\ password = "none"
       /\ \A n \in DOMAIN asks : ~OfRow(asks[n])
       /\ \A n \in DOMAIN answers : ~OfRow(answers[n])

\* The row sends one form at a time, and none while a password is on display.
OneForm ==
  /\ \A n \in DOMAIN asks : Waits(asks[n], Writing) => rowBusy /\ password = "none"
  /\ \A n \in DOMAIN answers : Waits(answers[n], Writing) => rowBusy /\ password = "none"
  /\ \A m, n \in DOMAIN asks : Waits(asks[m], Writing) /\ Waits(asks[n], Writing) => m = n
  /\ \A m, n \in DOMAIN answers : Waits(answers[m], Writing) /\ Waits(answers[n], Writing) => m = n
  /\ \A m \in DOMAIN asks, n \in DOMAIN answers : ~(Waits(asks[m], Writing) /\ Waits(answers[n], Writing))

\* The answer that brings a password.
Brings(a, b) == Waits(a, {"create"}) /\ a.of = "mailboxes" /\ a.ok /\ a.name = b
PasswordKept ==
  \A b \in mailRows["mailboxes"] :
    b \in dismissed \cup unshown \cup {password} \/ \E n \in DOMAIN answers : Brings(answers[n], b)

\* A panel will be read after what was written.
LoadOf(a, p) == Waits(a, {"load"}) /\ a.of = p
Wrote(a, p)  == Waits(a, {"create", "delete"}) /\ a.of = p /\ a.ok
Rereads(p) == (\E n \in DOMAIN asks : LoadOf(asks[n], p)) \/ \E n \in DOMAIN answers : Wrote(answers[n], p)

\* An answer that the page will take for what the server has.
Fresh(a) == a.ok /\ ~a.old

ListFollows(p) ==
  /\ \A n \in DOMAIN answers : LoadOf(answers[n], p) /\ Fresh(answers[n]) =>
       answers[n].gives = mailRows[p] \/ Rereads(p) \/ \E m \in DOMAIN answers : n < m /\ LoadOf(answers[m], p)
  /\ p \notin blurred /\ panel[p].at = "shown" =>
       panel[p].rows = mailRows[p] \/ Rereads(p) \/ \E m \in DOMAIN answers : LoadOf(answers[m], p)

\* The server took a request to verify, and the row will hear of it.
Verifies(a) == Waits(a, {"verify"}) /\ a.ok
Reading == {"status", "list"}

StatusFollows ==
  /\ mailZone.verdict \in Settled => mailZone.records = mailZone.verdict
  /\ \A n \in DOMAIN answers : Waits(answers[n], Reading) /\ answers[n].ok => \E v \in ZoneStatus : answers[n].gives = {v}
  /\ \A n \in DOMAIN answers : Waits(answers[n], {"status"}) /\ Fresh(answers[n]) =>
       \/ answers[n].gives \cap Settled \subseteq {mailZone.verdict}
       \/ \E m \in DOMAIN answers : n < m /\ Verifies(answers[m])
  /\ \A n \in DOMAIN answers : Waits(answers[n], {"list"}) /\ answers[n].of = "domains" /\ Fresh(answers[n]) =>
       answers[n].gives \cap Settled \subseteq {mailZone.verdict}
  /\ shownStatus \in Settled /\ "status" \notin blurred =>
       shownStatus = mailZone.verdict \/ \E n \in DOMAIN answers : Verifies(answers[n])

\* The records on display matter once the page may hold the verdict for final.
RecordsMatter ==
  /\ mailZone.records \in Settled
  /\ \/ \E n \in DOMAIN asks : Waits(asks[n], {"status"})
     \/ \E n \in DOMAIN answers : Waits(answers[n], {"status"})
     \/ /\ shownStatus \in Settled /\ "status" \notin blurred
        /\ \A n \in DOMAIN answers : ~Verifies(answers[n])

RecordsFollow ==
  /\ mailZone.records \in Settled =>
       \A n \in DOMAIN answers : LoadOf(answers[n], "dns") /\ Fresh(answers[n]) => answers[n].gives = {mailZone.records}
  /\ RecordsMatter =>
       \/ panel["dns"].at # "shown" \/ "dns" \in blurred \/ panel["dns"].rows = {mailZone.records}
       \/ \E n \in DOMAIN asks : LoadOf(asks[n], "dns")
       \/ \E n \in DOMAIN answers : LoadOf(answers[n], "dns")

MailInv ==
  /\ MailTyped /\ Mounted /\ OneForm /\ PasswordKept
  /\ \A p \in Lists : ListFollows(p)
  /\ StatusFollows /\ RecordsFollow

\* What becomes of an element.
Heir(b, a) ==
  /\ b.kind = a.kind /\ b.of = a.of /\ b.dead = a.dead /\ b.ok = a.ok /\ b.gives = a.gives
  /\ b.kind # "connect" => b.name = a.name
  /\ a.old => b.old

\* A sequence s that loses what is at gone, gets what is in new, and in which what is at marked
\* turns old, is t; the order stays.  The element at m was at f[m], or it is new.
Came(t, s, f, gone, new, marked) ==
  /\ \A m \in DOMAIN t :
       \/ f[m] \in DOMAIN s \ gone /\ Heir(t[m], s[f[m]]) /\ (f[m] \in marked => t[m].old)
       \/ f[m] = 0 /\ t[m] \in new
  /\ \A k \in DOMAIN s \ gone : \E m \in DOMAIN t : f[m] = k
  /\ \A c \in new : \E m \in DOMAIN t : f[m] = 0 /\ t[m] = c
  /\ \A l, m \in DOMAIN t : f[l] # 0 /\ (f[m] = 0 \/ f[l] < f[m]) => l < m
  /\ \A l, m \in DOMAIN t : f[l] = f[m] /\ (f[m] # 0 \/ t[l] = t[m]) => l = m

Moved(t, s, gone, new, marked) ==
  /\ 0 \notin DOMAIN s /\ DOMAIN s \subseteq Nat /\ DOMAIN t \subseteq Nat
  /\ \E f \in [DOMAIN t -> Nat] : Came(t, s, f, gone, new, marked)

\* Requests and answers: an action takes g of the ones and sends n, takes h of the others
\* and adds m, and k turn old.
Traffic(g, n, h, m, k) == Moved(asks', asks, g, n, {}) /\ Moved(answers', answers, h, m, k)

\* An element that is left.
Aging(u, s, marked) ==
  DOMAIN u = DOMAIN s /\ \A k \in DOMAIN s : Heir(u[k], s[k]) /\ (k \in marked => u[k].old)

LEMMA SameLength == ASSUME NEW a \in Nat, NEW b \in Nat, 1..a = 1..b PROVE a = b
<1>1. a > 0 => a \in 1..b
  OBVIOUS
<1>2. b > 0 => b \in 1..a
  OBVIOUS
<1> QED
  BY <1>1, <1>2

LEMMA StaysMoved ==
  ASSUME NEW S, NEW s \in Seq(S), NEW u \in Seq(S), NEW marked, Aging(u, s, marked)
  PROVE  Moved(u, s, {}, {}, marked) /\ Len(u) = Len(s)
<1> DEFINE f == [m \in DOMAIN u |-> m]
<1>1. DOMAIN s = 1..Len(s) /\ Len(s) \in Nat /\ DOMAIN u = 1..Len(u) /\ Len(u) \in Nat /\ DOMAIN u = DOMAIN s
  BY LenProperties DEF Aging
<1>4. Len(u) = Len(s)
  BY <1>1, SameLength
<1>2. f \in [DOMAIN u -> Nat] /\ \A m \in DOMAIN u : f[m] = m
  BY <1>1
<1> HIDE DEF f
<1>3. Came(u, s, f, {}, {}, marked)
  BY <1>1, <1>2 DEF Came, Aging
<1>5. Moved(u, s, {}, {}, marked)
  BY <1>1, <1>2, <1>3 DEF Moved
<1> QED
  BY <1>4, <1>5

LEMMA GrowsMoved ==
  ASSUME NEW S, NEW s \in Seq(S), NEW u \in Seq(S), NEW marked, Aging(u, s, marked), NEW c \in S
  PROVE  /\ Append(u, c) \in Seq(S) /\ Moved(Append(u, c), s, {}, {c}, marked)
         /\ Len(Append(u, c)) = Len(s) + 1
<1> DEFINE t == Append(u, c)
           f == [m \in DOMAIN t |-> IF m \in DOMAIN s THEN m ELSE 0]
<1>1. DOMAIN s = 1..Len(s) /\ Len(s) \in Nat /\ DOMAIN u = 1..Len(u) /\ Len(u) \in Nat /\ DOMAIN u = DOMAIN s
  BY LenProperties DEF Aging
<1>2. t \in Seq(S) /\ Grown(t, u, c) /\ Len(u) = Len(s)
  BY <1>1, Grows, SameLength
<1>3. DOMAIN t = 1..Len(s) + 1 /\ Len(t) = Len(s) + 1
  BY <1>2 DEF Grown
<1> HIDE DEF t
<1>4. f \in [DOMAIN t -> Nat] /\ \A m \in DOMAIN t : f[m] = IF m \in DOMAIN s THEN m ELSE 0
  BY <1>1, <1>3
<1> HIDE DEF f
<1>5. Came(t, s, f, {}, {c}, marked)
  <2>1. \A m \in DOMAIN t : \/ f[m] \in DOMAIN s /\ Heir(t[m], s[f[m]]) /\ (f[m] \in marked => t[m].old)
                            \/ f[m] = 0 /\ t[m] \in {c}
    BY <1>1, <1>2, <1>3, <1>4 DEF Grown, Aging
  <2>2. \A k \in DOMAIN s : \E m \in DOMAIN t : f[m] = k
    BY <1>1, <1>3, <1>4
  <2>3. Len(s) + 1 \in DOMAIN t /\ f[Len(s) + 1] = 0 /\ t[Len(s) + 1] = c
    BY <1>1, <1>2, <1>3, <1>4 DEF Grown
  <2>4. /\ \A l, m \in DOMAIN t : f[l] # 0 /\ (f[m] = 0 \/ f[l] < f[m]) => l < m
        /\ \A l, m \in DOMAIN t : f[l] = f[m] => l = m
    BY <1>1, <1>3, <1>4
  <2> QED
    BY <2>1, <2>2, <2>3, <2>4 DEF Came
<1>6. Moved(t, s, {}, {c}, marked)
  BY <1>1, <1>3, <1>4, <1>5 DEF Moved
<1> QED
  BY <1>2, <1>3, <1>6 DEF t

LEMMA ShrinksMoved ==
  ASSUME NEW S, NEW s \in Seq(S), NEW u \in Seq(S), NEW marked, Aging(u, s, marked), NEW n \in DOMAIN s
  PROVE  /\ RemoveAt(u, n) \in Seq(S) /\ Moved(RemoveAt(u, n), s, {n}, {}, marked)
         /\ Len(RemoveAt(u, n)) = Len(s) - 1
<1> DEFINE t == RemoveAt(u, n)
           f == [m \in DOMAIN t |-> Src(n, m)]
<1>1. DOMAIN s = 1..Len(s) /\ Len(s) \in Nat /\ DOMAIN u = 1..Len(u) /\ Len(u) \in Nat /\ DOMAIN u = DOMAIN s
  BY LenProperties DEF Aging
<1>2. t \in Seq(S) /\ Shrunk(t, u, n) /\ Len(u) = Len(s)
  BY <1>1, Shrinks, SameLength
<1>3. DOMAIN t = 1..Len(t) /\ Len(t) = Len(s) - 1
  BY <1>2, LenProperties DEF Shrunk
<1> HIDE DEF t
<1>4. f \in [DOMAIN t -> Nat] /\ \A m \in DOMAIN t : f[m] = Src(n, m)
  BY <1>1, <1>3 DEF Src
<1> HIDE DEF f
<1>5. Came(t, s, f, {n}, {}, marked)
  <2>1. \A m \in DOMAIN t : f[m] \in DOMAIN s \ {n} /\ Heir(t[m], s[f[m]]) /\ (f[m] \in marked => t[m].old)
    BY <1>1, <1>2, <1>4 DEF Shrunk, Aging
  <2>2. \A k \in DOMAIN s \ {n} : \E m \in DOMAIN t : f[m] = k
    BY <1>1, <1>2, <1>4 DEF Shrunk
  <2>3. \A l, m \in DOMAIN t : (f[l] < f[m] => l < m) /\ (f[l] = f[m] => l = m)
    BY <1>1, <1>3, <1>4 DEF Src
  <2>4. 0 \notin DOMAIN s
    BY <1>1
  <2> QED
    BY <2>1, <2>2, <2>3, <2>4 DEF Came
<1>6. Moved(t, s, {n}, {}, marked)
  BY <1>1, <1>3, <1>4, <1>5 DEF Moved
<1> QED
  BY <1>2, <1>3, <1>6 DEF t

LEMMA TwoMoved ==
  ASSUME NEW S, NEW s \in Seq(S), NEW c \in S, NEW d \in S, c # d
  PROVE  /\ s \o <<c, d>> \in Seq(S) /\ Moved(s \o <<c, d>>, s, {}, {c, d}, {})
         /\ Len(s \o <<c, d>>) = Len(s) + 2
<1> DEFINE t == s \o <<c, d>>
           f == [m \in DOMAIN t |-> IF m \in DOMAIN s THEN m ELSE 0]
<1>1. DOMAIN s = 1..Len(s) /\ Len(s) \in Nat
  BY LenProperties
<1>2. /\ t \in Seq(S) /\ Len(t) = Len(s) + 2 /\ DOMAIN t = 1..Len(s) + 2
      /\ \A m \in 1..Len(s) : t[m] = s[m]
      /\ t[Len(s) + 1] = c /\ t[Len(s) + 2] = d
  <2>1. <<c, d>> \in Seq(S) /\ Len(<<c, d>>) = 2 /\ <<c, d>>[1] = c /\ <<c, d>>[2] = d
    OBVIOUS
  <2>2. /\ t \in Seq(S) /\ Len(t) = Len(s) + 2
        /\ \A m \in 1..Len(s) + 2 : t[m] = IF m <= Len(s) THEN s[m] ELSE <<c, d>>[m - Len(s)]
    BY <2>1, ConcatProperties
  <2> QED
    BY <1>1, <2>1, <2>2, LenProperties
<1> HIDE DEF t
<1>4. f \in [DOMAIN t -> Nat] /\ \A m \in DOMAIN t : f[m] = IF m \in DOMAIN s THEN m ELSE 0
  BY <1>1, <1>2
<1> HIDE DEF f
<1>5. Came(t, s, f, {}, {c, d}, {})
  <2>1. \A m \in DOMAIN t : \/ f[m] \in DOMAIN s /\ Heir(t[m], s[f[m]])
                            \/ f[m] = 0 /\ t[m] \in {c, d}
    BY <1>1, <1>2, <1>4 DEF Heir
  <2>2. \A k \in DOMAIN s : \E m \in DOMAIN t : f[m] = k
    BY <1>1, <1>2, <1>4
  <2>3. \A k \in {c, d} : \E m \in DOMAIN t : f[m] = 0 /\ t[m] = k
    BY <1>1, <1>2, <1>4
  <2>4. \A l, m \in DOMAIN t : f[l] # 0 /\ (f[m] = 0 \/ f[l] < f[m]) => l < m
    BY <1>1, <1>2, <1>4
  <2>5. \A l, m \in DOMAIN t : f[l] = f[m] /\ (f[m] # 0 \/ t[l] = t[m]) => l = m
    BY <1>1, <1>2, <1>4
  <2> QED
    BY <2>1, <2>2, <2>3, <2>4, <2>5 DEF Came
<1>6. Moved(t, s, {}, {c, d}, {})
  BY <1>1, <1>2, <1>4, <1>5 DEF Moved
<1> QED
  BY <1>2, <1>6 DEF t

LEMMA SelfHeirs == \A s : Aging(s, s, {})
BY DEF Aging, Heir

(***************************************************************************)
(* The parts of the invariant, one at a time.                              *)
(***************************************************************************)

\* One form at a time: none is sent.
LEMMA FormsStay ==
  ASSUME OneForm, NEW g, NEW n, NEW h, NEW m, NEW k, Traffic(g, n, h, m, k),
         \A c \in n \cup m : ~Waits(c, Writing), rowBusy' = rowBusy, password' \in {password, "none"}
  PROVE  OneForm'
<1>1. PICK e \in [DOMAIN asks' -> Nat] : Came(asks', asks, e, g, n, {})
  BY DEF Traffic, Moved
<1>2. PICK f \in [DOMAIN answers' -> Nat] : Came(answers', answers, f, h, m, k)
  BY DEF Traffic, Moved
<1>3. \A j \in DOMAIN asks' : Waits(asks'[j], Writing) => e[j] \in DOMAIN asks /\ Waits(asks[e[j]], Writing)
  BY <1>1 DEF Came, Heir, Waits
<1>4. \A j \in DOMAIN answers' : Waits(answers'[j], Writing) => f[j] \in DOMAIN answers /\ Waits(answers[f[j]], Writing)
  BY <1>2 DEF Came, Heir, Waits
<1>5. 0 \notin DOMAIN asks /\ 0 \notin DOMAIN answers
  BY DEF Traffic, Moved
<1>6. \A i, j \in DOMAIN asks' : e[i] = e[j] /\ e[i] # 0 => i = j
  BY <1>1 DEF Came
<1>7. \A i, j \in DOMAIN answers' : f[i] = f[j] /\ f[i] # 0 => i = j
  BY <1>2 DEF Came
<1> QED
  BY <1>3, <1>4, <1>5, <1>6, <1>7 DEF OneForm

\* One is sent by a row that is not busy.
LEMMA FormIsSent ==
  ASSUME OneForm, NEW c, Traffic({}, {c}, {}, {}, {}), ~rowBusy, rowBusy', password' = "none"
  PROVE  OneForm'
<1>1. PICK e \in [DOMAIN asks' -> Nat] : Came(asks', asks, e, {}, {c}, {})
  BY DEF Traffic, Moved
<1>2. PICK f \in [DOMAIN answers' -> Nat] : Came(answers', answers, f, {}, {}, {})
  BY DEF Traffic, Moved
<1>3. \A j \in DOMAIN asks' : Waits(asks'[j], Writing) => e[j] = 0 /\ asks'[j] = c
  BY <1>1 DEF Came, Heir, Waits, OneForm
<1>4. \A j \in DOMAIN answers' : ~Waits(answers'[j], Writing)
  BY <1>2 DEF Came, Heir, Waits, OneForm
<1>5. \A i, j \in DOMAIN asks' : e[i] = e[j] /\ asks'[i] = asks'[j] => i = j
  BY <1>1 DEF Came
<1> QED
  BY <1>3, <1>4, <1>5 DEF OneForm

\* One is served.
LEMMA FormIsServed ==
  ASSUME OneForm, NEW n \in DOMAIN asks, NEW c, NEW k, Traffic({n}, {}, {}, {c}, k),
         Waits(c, Writing) => Waits(asks[n], Writing), rowBusy' = rowBusy, password' = password
  PROVE  OneForm'
<1>1. PICK e \in [DOMAIN asks' -> Nat] : Came(asks', asks, e, {n}, {}, {})
  BY DEF Traffic, Moved
<1>2. PICK f \in [DOMAIN answers' -> Nat] : Came(answers', answers, f, {}, {c}, k)
  BY DEF Traffic, Moved
<1>3. \A j \in DOMAIN asks' : Waits(asks'[j], Writing) => e[j] \in DOMAIN asks \ {n} /\ Waits(asks[e[j]], Writing)
  BY <1>1 DEF Came, Heir, Waits
<1>4. \A j \in DOMAIN answers' : Waits(answers'[j], Writing) =>
        \/ f[j] \in DOMAIN answers /\ Waits(answers[f[j]], Writing)
        \/ f[j] = 0 /\ answers'[j] = c /\ Waits(asks[n], Writing)
  BY <1>2 DEF Came, Heir, Waits
<1>5. 0 \notin DOMAIN asks /\ 0 \notin DOMAIN answers
  BY DEF Traffic, Moved
<1>6. \A i, j \in DOMAIN asks' : e[i] = e[j] /\ e[i] # 0 => i = j
  BY <1>1 DEF Came
<1>7. \A i, j \in DOMAIN answers' : f[i] = f[j] /\ (f[i] # 0 \/ answers'[i] = answers'[j]) => i = j
  BY <1>2 DEF Came
<1>8. \A j \in DOMAIN asks' : ~(Waits(asks'[j], Writing) /\ Waits(asks[n], Writing))
  BY <1>3 DEF OneForm
<1>9. /\ \A j \in DOMAIN asks' : Waits(asks'[j], Writing) => rowBusy' /\ password' = "none"
      /\ \A j \in DOMAIN answers' : Waits(answers'[j], Writing) => rowBusy' /\ password' = "none"
  BY <1>3, <1>4 DEF OneForm
<1>10. \A i, j \in DOMAIN asks' : Waits(asks'[i], Writing) /\ Waits(asks'[j], Writing) => i = j
  BY <1>3, <1>5, <1>6 DEF OneForm
<1>11. \A i, j \in DOMAIN answers' : Waits(answers'[i], Writing) /\ Waits(answers'[j], Writing) => i = j
  BY <1>4, <1>5, <1>7 DEF OneForm
<1>12. \A i \in DOMAIN asks', j \in DOMAIN answers' : ~(Waits(asks'[i], Writing) /\ Waits(answers'[j], Writing))
  BY <1>3, <1>4, <1>8 DEF OneForm
<1> QED
  BY <1>9, <1>10, <1>11, <1>12 DEF OneForm

\* The answer arrives: it was the only one.
LEMMA FormEnds ==
  ASSUME OneForm, NEW i \in DOMAIN answers, Waits(answers[i], Writing), NEW n, NEW k, Traffic({}, n, {i}, {}, k),
         \A c \in n : ~Waits(c, Writing)
  PROVE  OneForm'
<1>1. PICK e \in [DOMAIN asks' -> Nat] : Came(asks', asks, e, {}, n, {})
  BY DEF Traffic, Moved
<1>2. PICK f \in [DOMAIN answers' -> Nat] : Came(answers', answers, f, {i}, {}, k)
  BY DEF Traffic, Moved
<1>3. \A j \in DOMAIN asks' : ~Waits(asks'[j], Writing)
  BY <1>1 DEF Came, Heir, Waits, OneForm
<1>4. \A j \in DOMAIN answers' : ~Waits(answers'[j], Writing)
  BY <1>2 DEF Came, Heir, Waits, OneForm
<1> QED
  BY <1>3, <1>4 DEF OneForm

\* Passwords: none is made, none arrives.
LEMMA PasswordsStay ==
  ASSUME PasswordKept, NEW g, NEW n, NEW h, NEW m, NEW k, Traffic(g, n, h, m, k),
         mailRows'["mailboxes"] \subseteq mailRows["mailboxes"],
         mailRows["mailboxes"] \cap (dismissed \cup unshown \cup {password}) \subseteq dismissed' \cup unshown' \cup {password'},
         \A j \in h : ~Waits(answers[j], {"create"}) \/ ~answers[j].ok \/ answers[j].of # "mailboxes"
  PROVE  PasswordKept'
<1>1. PICK f \in [DOMAIN answers' -> Nat] : Came(answers', answers, f, h, m, k)
  BY DEF Traffic, Moved
<1> SUFFICES ASSUME NEW b \in mailRows'["mailboxes"], b \notin dismissed' \cup unshown' \cup {password'}
             PROVE  \E j \in DOMAIN answers' : Brings(answers'[j], b)
  BY DEF PasswordKept
<1>2. PICK j \in DOMAIN answers : Brings(answers[j], b)
  BY DEF PasswordKept
<1>3. j \in DOMAIN answers \ h
  BY <1>2 DEF Brings
<1>4. PICK l \in DOMAIN answers' : f[l] = j
  BY <1>1, <1>3 DEF Came
<1>5. j # 0
  BY DEF Traffic, Moved
<1>6. Heir(answers'[l], answers[j])
  BY <1>1, <1>4, <1>5 DEF Came
<1> QED
  BY <1>2, <1>6 DEF Heir, Brings, Waits

\* A panel follows the rows when nothing is written to them or arrives for it.
LEMMA ListStays ==
  ASSUME NEW p \in Lists, ListFollows(p), NEW g, NEW n, NEW h, NEW m, NEW k, Traffic(g, n, h, m, k),
         mailRows'[p] = mailRows[p], panel'[p] = panel[p] \/ panel'[p].at # "shown", p \in blurred => p \in blurred',
         \A c \in m : LoadOf(c, p) /\ Fresh(c) => c.gives = mailRows[p],
         \A j \in g : LoadOf(asks[j], p) => \E c \in m : LoadOf(c, p),
         \A j \in h : Wrote(answers[j], p) => \E c \in n : LoadOf(c, p),
         \A j \in h : ~LoadOf(answers[j], p)
  PROVE  ListFollows(p)'
<1>1. PICK e \in [DOMAIN asks' -> Nat] : Came(asks', asks, e, g, n, {})
  BY DEF Traffic, Moved
<1>2. PICK f \in [DOMAIN answers' -> Nat] : Came(answers', answers, f, h, m, k)
  BY DEF Traffic, Moved
<1>3. 0 \notin DOMAIN asks /\ 0 \notin DOMAIN answers /\ DOMAIN answers \subseteq Nat
  BY DEF Traffic, Moved
<1> DEFINE Next1 == \E j \in DOMAIN answers' : f[j] = 0 /\ LoadOf(answers'[j], p)
<1>4. Rereads(p) => Rereads(p)' \/ Next1
  <2>1. ASSUME NEW j \in DOMAIN asks, LoadOf(asks[j], p), j \in g PROVE Next1
    BY <1>2, <2>1 DEF Came
  <2>2. ASSUME NEW j \in DOMAIN asks, LoadOf(asks[j], p), j \notin g PROVE \E l \in DOMAIN asks' : LoadOf(asks'[l], p)
    <3>1. PICK l \in DOMAIN asks' : e[l] = j
      BY <1>1, <2>2 DEF Came
    <3>2. Heir(asks'[l], asks[j])
      BY <1>1, <1>3, <3>1 DEF Came
    <3> QED
      BY <2>2, <3>2 DEF Heir, LoadOf, Waits
  <2>3. ASSUME NEW j \in DOMAIN answers, Wrote(answers[j], p), j \in h PROVE \E l \in DOMAIN asks' : LoadOf(asks'[l], p)
    BY <1>1, <2>3 DEF Came
  <2>4. ASSUME NEW j \in DOMAIN answers, Wrote(answers[j], p), j \notin h PROVE \E l \in DOMAIN answers' : Wrote(answers'[l], p)
    <3>1. PICK l \in DOMAIN answers' : f[l] = j
      BY <1>2, <2>4 DEF Came
    <3>2. Heir(answers'[l], answers[j])
      BY <1>2, <1>3, <3>1 DEF Came
    <3> QED
      BY <2>4, <3>2 DEF Heir, Wrote, Waits
  <2> QED
    BY <2>1, <2>2, <2>3, <2>4 DEF Rereads
<1>5. ASSUME NEW j \in DOMAIN answers, LoadOf(answers[j], p)
      PROVE  \E l \in DOMAIN answers' : f[l] = j /\ LoadOf(answers'[l], p)
  <2>1. PICK l \in DOMAIN answers' : f[l] = j
    BY <1>2, <1>5 DEF Came
  <2>2. Heir(answers'[l], answers[j])
    BY <1>2, <1>3, <2>1 DEF Came
  <2> QED
    BY <1>5, <2>1, <2>2 DEF Heir, LoadOf, Waits
<1>6. ASSUME NEW j \in DOMAIN answers', LoadOf(answers'[j], p), Fresh(answers'[j])
      PROVE  \/ answers'[j].gives = mailRows'[p] \/ Rereads(p)'
             \/ \E l \in DOMAIN answers' : j < l /\ LoadOf(answers'[l], p)
  <2>1. CASE f[j] = 0
    BY <1>2, <1>3, <1>6, <2>1 DEF Came
  <2>2. CASE f[j] # 0
    <3>1. f[j] \in DOMAIN answers /\ Heir(answers'[j], answers[f[j]])
      BY <1>2, <2>2 DEF Came
    <3>2. LoadOf(answers[f[j]], p) /\ Fresh(answers[f[j]]) /\ answers'[j].gives = answers[f[j]].gives
      BY <1>6, <3>1 DEF Heir, LoadOf, Waits, Fresh
    <3>3. CASE Next1
      BY <1>2, <2>2, <3>3 DEF Came
    <3>4. CASE \E l \in DOMAIN answers : f[j] < l /\ LoadOf(answers[l], p)
      <4>1. PICK l \in DOMAIN answers : f[j] < l /\ LoadOf(answers[l], p)
        BY <3>4
      <4>2. PICK q \in DOMAIN answers' : f[q] = l /\ LoadOf(answers'[q], p)
        BY <1>5, <4>1
      <4>3. j < q
        BY <1>2, <2>2, <4>1, <4>2 DEF Came
      <4> QED
        BY <4>2, <4>3
    <3> QED
      BY <1>4, <3>1, <3>2, <3>3, <3>4 DEF ListFollows
  <2> QED
    BY <2>1, <2>2
<1>7. ASSUME p \notin blurred', panel'[p].at = "shown"
      PROVE  panel'[p].rows = mailRows'[p] \/ Rereads(p)' \/ \E j \in DOMAIN answers' : LoadOf(answers'[j], p)
  BY <1>4, <1>5, <1>7 DEF ListFollows
<1> QED
  BY <1>6, <1>7 DEF ListFollows

\* An element that is left or came.
LEMMA TrafficHeirs ==
  ASSUME NEW g, NEW n, NEW h, NEW m, NEW k, Traffic(g, n, h, m, k)
  PROVE  /\ \A j \in DOMAIN asks' : asks'[j] \in n \/ \E l \in DOMAIN asks \ g : Heir(asks'[j], asks[l])
         /\ \A j \in DOMAIN answers' :
              \/ answers'[j] \in m
              \/ \E l \in DOMAIN answers \ h : Heir(answers'[j], answers[l]) /\ (l \in k => answers'[j].old)
         /\ \A l \in DOMAIN asks \ g : \E j \in DOMAIN asks' : Heir(asks'[j], asks[l])
         /\ \A l \in DOMAIN answers \ h : \E j \in DOMAIN answers' : Heir(answers'[j], answers[l])
         /\ \A c \in n : \E j \in DOMAIN asks' : asks'[j] = c
         /\ \A c \in m : \E j \in DOMAIN answers' : answers'[j] = c
<1>1. PICK e \in [DOMAIN asks' -> Nat] : Came(asks', asks, e, g, n, {})
  BY DEF Traffic, Moved
<1>2. PICK f \in [DOMAIN answers' -> Nat] : Came(answers', answers, f, h, m, k)
  BY DEF Traffic, Moved
<1>3. 0 \notin DOMAIN asks /\ 0 \notin DOMAIN answers
  BY DEF Traffic, Moved
<1>4. \A j \in DOMAIN asks' : asks'[j] \in n \/ \E l \in DOMAIN asks \ g : Heir(asks'[j], asks[l])
  BY <1>1 DEF Came
<1>5. \A j \in DOMAIN answers' :
              \/ answers'[j] \in m
              \/ \E l \in DOMAIN answers \ h : Heir(answers'[j], answers[l]) /\ (l \in k => answers'[j].old)
  BY <1>2 DEF Came
<1>6. \A l \in DOMAIN asks \ g : \E j \in DOMAIN asks' : Heir(asks'[j], asks[l])
  BY <1>1, <1>3 DEF Came
<1>7. \A l \in DOMAIN answers \ h : \E j \in DOMAIN answers' : Heir(answers'[j], answers[l])
  BY <1>2, <1>3 DEF Came
<1>8. \A c \in n : \E j \in DOMAIN asks' : asks'[j] = c
  BY <1>1 DEF Came
<1>9. \A c \in m : \E j \in DOMAIN answers' : answers'[j] = c
  BY <1>2 DEF Came
<1> QED
  BY <1>4, <1>5, <1>6, <1>7, <1>8, <1>9

LEMMA StaySent ==
  ASSUME MailTyped, NEW g, NEW n, NEW h, NEW m, NEW k, Traffic(g, n, h, m, k), \A c \in n \cup m : WellSent(c)
  PROVE  (\A j \in DOMAIN asks' : WellSent(asks'[j])) /\ \A j \in DOMAIN answers' : WellSent(answers'[j])
<1>1. /\ \A j \in DOMAIN asks' : asks'[j] \in n \/ \E l \in DOMAIN asks : Heir(asks'[j], asks[l])
      /\ \A j \in DOMAIN answers' : answers'[j] \in m \/ \E l \in DOMAIN answers : Heir(answers'[j], answers[l])
  BY TrafficHeirs
<1>2. ASSUME NEW a, NEW b, WellSent(a), Heir(b, a) PROVE WellSent(b)
  BY <1>2 DEF WellSent, Heir
<1> QED
  BY <1>1, <1>2 DEF MailTyped

\* What is on the page has been asked for by what is on the page.
LEMMA MountedStays ==
  ASSUME Mounted, NEW g, NEW n, NEW h, NEW m, NEW k, Traffic(g, n, h, m, k), resource' = resource,
         RowShown \/ (panel' = panel /\ shownStatus' = shownStatus /\ rowBusy' = rowBusy /\ password' = password),
         \A c \in n \cup m : (OfCard(c) => CardShown) /\ (OfRow(c) => RowShown)
  PROVE  Mounted'
<1>1. CardShown' = CardShown /\ RowShown' = RowShown
  BY DEF CardShown, RowShown, Listed
<1>2. /\ \A j \in DOMAIN asks' : asks'[j] \in n \/ \E l \in DOMAIN asks : Heir(asks'[j], asks[l])
      /\ \A j \in DOMAIN answers' : answers'[j] \in m \/ \E l \in DOMAIN answers : Heir(answers'[j], answers[l])
  BY TrafficHeirs
<1>3. ASSUME NEW a, NEW b, Heir(b, a) PROVE (OfRow(b) = OfRow(a)) /\ (OfCard(b) = OfCard(a))
  BY <1>3 DEF OfRow, OfCard, Heir, Waits
<1>4. ASSUME ~CardShown
      PROVE  /\ resource'["domains"] = Unread
             /\ \A j \in DOMAIN asks' : ~OfCard(asks'[j])
             /\ \A j \in DOMAIN answers' : ~OfCard(answers'[j])
  BY <1>2, <1>3, <1>4 DEF Mounted
<1>5. ASSUME ~RowShown
      PROVE  /\ panel' = AllClosed /\ shownStatus' = "pending" /\ ~rowBusy' /\ password' = "none"
             /\ \A j \in DOMAIN asks' : ~OfRow(asks'[j])
             /\ \A j \in DOMAIN answers' : ~OfRow(answers'[j])
  BY <1>2, <1>3, <1>5 DEF Mounted
<1> QED
  BY <1>1, <1>4, <1>5 DEF Mounted

\* A panel is read.
LEMMA ListIsRead ==
  ASSUME NEW p \in Lists, ListFollows(p), NEW i \in DOMAIN answers, LoadOf(answers[i], p), NEW k,
         Traffic({}, {}, {i}, {}, k), {j \in DOMAIN answers : j < i /\ answers[j].of = p} \subseteq k,
         mailRows'[p] = mailRows[p], panel'[p].rows = answers[i].gives, p \notin blurred' => Fresh(answers[i])
  PROVE  ListFollows(p)'
<1>1. PICK e \in [DOMAIN asks' -> Nat] : Came(asks', asks, e, {}, {}, {})
  BY DEF Traffic, Moved
<1>2. PICK f \in [DOMAIN answers' -> Nat] : Came(answers', answers, f, {i}, {}, k)
  BY DEF Traffic, Moved
<1>3. 0 \notin DOMAIN asks /\ 0 \notin DOMAIN answers /\ DOMAIN answers \subseteq Nat
  BY DEF Traffic, Moved
<1>4. Rereads(p) => Rereads(p)'
  <2>1. (\E l \in DOMAIN asks : LoadOf(asks[l], p)) => \E j \in DOMAIN asks' : LoadOf(asks'[j], p)
    BY TrafficHeirs DEF Heir, LoadOf, Waits
  <2>2. (\E l \in DOMAIN answers : Wrote(answers[l], p)) => \E j \in DOMAIN answers' : Wrote(answers'[j], p)
    BY TrafficHeirs DEF Heir, LoadOf, Wrote, Waits
  <2> QED
    BY <2>1, <2>2 DEF Rereads
<1>5. ASSUME NEW j \in DOMAIN answers \ {i}, LoadOf(answers[j], p)
      PROVE  \E l \in DOMAIN answers' : f[l] = j /\ LoadOf(answers'[l], p)
  <2>1. PICK l \in DOMAIN answers' : f[l] = j
    BY <1>2, <1>5 DEF Came
  <2>2. Heir(answers'[l], answers[j])
    BY <1>2, <1>3, <2>1 DEF Came
  <2> QED
    BY <1>5, <2>1, <2>2 DEF Heir, LoadOf, Waits
<1>6. ASSUME NEW j \in DOMAIN answers', LoadOf(answers'[j], p), Fresh(answers'[j])
      PROVE  \/ answers'[j].gives = mailRows'[p] \/ Rereads(p)'
             \/ \E l \in DOMAIN answers' : j < l /\ LoadOf(answers'[l], p)
  <2>1. f[j] \in DOMAIN answers \ {i} /\ Heir(answers'[j], answers[f[j]]) /\ f[j] \notin k
    BY <1>2, <1>6 DEF Came, Fresh
  <2>2. LoadOf(answers[f[j]], p) /\ Fresh(answers[f[j]]) /\ answers'[j].gives = answers[f[j]].gives
    BY <1>6, <2>1 DEF Heir, LoadOf, Waits, Fresh
  <2>3. ~(f[j] < i)
    BY <2>1, <2>2 DEF LoadOf
  <2>4. CASE \E l \in DOMAIN answers : f[j] < l /\ LoadOf(answers[l], p)
    <3>1. PICK l \in DOMAIN answers : f[j] < l /\ LoadOf(answers[l], p)
      BY <2>4
    <3>2. l # i
      BY <1>3, <2>3, <3>1
    <3>3. PICK q \in DOMAIN answers' : f[q] = l /\ LoadOf(answers'[q], p)
      BY <1>5, <3>1, <3>2
    <3>4. j < q
      BY <1>2, <1>3, <2>1, <3>1, <3>3 DEF Came
    <3> QED
      BY <3>3, <3>4
  <2> QED
    BY <1>4, <2>1, <2>2, <2>4 DEF ListFollows
<1>7. ASSUME p \notin blurred'
      PROVE  panel'[p].rows = mailRows'[p] \/ Rereads(p)' \/ \E j \in DOMAIN answers' : LoadOf(answers'[j], p)
  <2>1. answers[i].gives = mailRows[p] \/ Rereads(p) \/ \E j \in DOMAIN answers : i < j /\ LoadOf(answers[j], p)
    BY <1>7 DEF ListFollows
  <2>2. ASSUME NEW j \in DOMAIN answers, i < j, LoadOf(answers[j], p) PROVE \E l \in DOMAIN answers' : LoadOf(answers'[l], p)
    BY <1>3, <1>5, <2>2
  <2> QED
    BY <1>4, <2>1, <2>2
<1> QED
  BY <1>6, <1>7 DEF ListFollows

\* Its rows are written: the answer will make the row read it, or the server has told no one.
LEMMA ListIsWritten ==
  ASSUME NEW p \in Lists, NEW n \in DOMAIN asks, NEW c, NEW k, Traffic({n}, {}, {}, {c}, k),
         \/ Wrote(c, p)
         \/ /\ c.kind # "load" /\ p \in blurred'
            /\ {j \in DOMAIN answers : answers[j].of = p /\ answers[j].kind = "load"} \subseteq k
  PROVE  ListFollows(p)'
<1>1. CASE Wrote(c, p)
  <2>1. \A d \in {c} : \E j \in DOMAIN answers' : answers'[j] = d
    BY TrafficHeirs
  <2> QED
    BY <1>1, <2>1 DEF ListFollows, Rereads
<1>2. CASE ~Wrote(c, p)
  <2>0. \A j \in DOMAIN answers' :
          answers'[j] \in {c} \/ \E l \in DOMAIN answers \ {} : Heir(answers'[j], answers[l]) /\ (l \in k => answers'[j].old)
    BY TrafficHeirs
  <2>1. \A j \in DOMAIN answers' : answers'[j] = c \/ \E l \in DOMAIN answers : Heir(answers'[j], answers[l]) /\ (l \in k => answers'[j].old)
    BY <2>0
  <2>2. \A j \in DOMAIN answers' : LoadOf(answers'[j], p) => ~Fresh(answers'[j])
    BY <1>2, <2>1 DEF LoadOf, Waits, Fresh, Heir
  <2> QED
    BY <1>2, <2>2 DEF ListFollows
<1> QED
  BY <1>1, <1>2

\* The status, when no answer about it arrives and no request to verify is taken.
LEMMA StatusStays ==
  ASSUME StatusFollows, NEW g, NEW n, NEW h, NEW m, NEW k, Traffic(g, n, h, m, k),
         mailZone.verdict \in ZoneStatus, mailZone'.verdict \in Settled => mailZone'.records = mailZone'.verdict,
         mailZone'.verdict = mailZone.verdict \/ mailZone.verdict \notin Settled,
         shownStatus' = shownStatus, "status" \in blurred => "status" \in blurred',
         \A c \in m : Waits(c, Reading) /\ c.ok => c.gives = {mailZone.verdict},
         \A j \in h : ~Verifies(answers[j])
  PROVE  StatusFollows'
<1>1. PICK f \in [DOMAIN answers' -> Nat] : Came(answers', answers, f, h, m, k)
  BY DEF Traffic, Moved
<1>2. 0 \notin DOMAIN answers
  BY DEF Traffic, Moved
<1>3. ASSUME NEW j \in DOMAIN answers, Verifies(answers[j])
      PROVE  \E l \in DOMAIN answers' : f[l] = j /\ Verifies(answers'[l])
  <2>1. PICK l \in DOMAIN answers' : f[l] = j
    BY <1>1, <1>3 DEF Came
  <2>2. Heir(answers'[l], answers[j])
    BY <1>1, <1>2, <2>1 DEF Came
  <2> QED
    BY <1>3, <2>1, <2>2 DEF Heir, Verifies, Waits
<1>4. ASSUME NEW j \in DOMAIN answers'
      PROVE  \/ answers'[j] \in m
             \/ f[j] \in DOMAIN answers /\ f[j] # 0 /\ Heir(answers'[j], answers[f[j]])
  BY <1>1, <1>2 DEF Came
<1>5. ASSUME NEW a, NEW b, Heir(b, a)
      PROVE  /\ Waits(b, Reading) /\ b.ok => Waits(a, Reading) /\ a.ok /\ b.gives = a.gives
             /\ Waits(b, {"status"}) /\ Fresh(b) => Waits(a, {"status"}) /\ Fresh(a) /\ b.gives = a.gives
             /\ Waits(b, {"list"}) /\ Fresh(b) => Waits(a, {"list"}) /\ Fresh(a) /\ b.gives = a.gives /\ b.of = a.of
  BY <1>5 DEF Heir, Waits, Fresh
<1>6. \A S : S \cap Settled \subseteq {mailZone.verdict} => S \cap Settled \subseteq {mailZone'.verdict}
  OBVIOUS
<1>7. \A c : Waits(c, {"status"}) \/ Waits(c, {"list"}) => Waits(c, Reading)
  BY DEF Waits, Reading
<1>8. ASSUME NEW j \in DOMAIN answers', Waits(answers'[j], Reading), answers'[j].ok
      PROVE  \E v \in ZoneStatus : answers'[j].gives = {v}
  BY <1>4, <1>5, <1>8 DEF StatusFollows
<1>9. ASSUME NEW j \in DOMAIN answers', Waits(answers'[j], {"status"}), Fresh(answers'[j])
      PROVE  \/ answers'[j].gives \cap Settled \subseteq {mailZone'.verdict}
             \/ \E l \in DOMAIN answers' : j < l /\ Verifies(answers'[l])
  <2>1. CASE answers'[j] \in m
    BY <1>6, <1>7, <1>9, <2>1 DEF Fresh
  <2>2. CASE answers'[j] \notin m
    <3>1. f[j] \in DOMAIN answers /\ f[j] # 0 /\ Waits(answers[f[j]], {"status"}) /\ Fresh(answers[f[j]]) /\ answers'[j].gives = answers[f[j]].gives
      BY <1>4, <1>5, <1>9, <2>2
    <3>2. CASE \E l \in DOMAIN answers : f[j] < l /\ Verifies(answers[l])
      <4>1. PICK l \in DOMAIN answers : f[j] < l /\ Verifies(answers[l])
        BY <3>2
      <4>2. PICK q \in DOMAIN answers' : f[q] = l /\ Verifies(answers'[q])
        BY <1>3, <4>1
      <4>3. j < q
        BY <1>1, <3>1, <4>1, <4>2 DEF Came
      <4> QED
        BY <4>2, <4>3
    <3> QED
      BY <1>6, <3>1, <3>2 DEF StatusFollows
  <2> QED
    BY <2>1, <2>2
<1>10. ASSUME NEW j \in DOMAIN answers', Waits(answers'[j], {"list"}), answers'[j].of = "domains", Fresh(answers'[j])
       PROVE  answers'[j].gives \cap Settled \subseteq {mailZone'.verdict}
  <2>1. CASE answers'[j] \in m
    BY <1>6, <1>7, <1>10, <2>1 DEF Fresh
  <2>2. CASE answers'[j] \notin m
    BY <1>4, <1>5, <1>6, <1>10, <2>2 DEF StatusFollows
  <2> QED
    BY <2>1, <2>2
<1>11. shownStatus' \in Settled /\ "status" \notin blurred' =>
         shownStatus' = mailZone'.verdict \/ \E j \in DOMAIN answers' : Verifies(answers'[j])
  BY <1>3 DEF StatusFollows
<1> QED
  BY <1>8, <1>9, <1>10, <1>11 DEF StatusFollows

\* A request to verify is taken.
LEMMA StatusIsReset ==
  ASSUME StatusFollows, NEW n \in DOMAIN asks, NEW c, NEW k, Traffic({n}, {}, {}, {c}, k), c.kind = "verify",
         mailZone' = [verdict |-> "verifying", records |-> "verifying"], shownStatus' = shownStatus,
         \A j \in DOMAIN answers : answers[j].kind = "list" /\ answers[j].of = "domains" => j \in k,
         \/ Verifies(c)
         \/ "status" \in blurred' /\ \A j \in DOMAIN answers : answers[j].kind = "status" => j \in k
  PROVE  StatusFollows'
<1>1. PICK f \in [DOMAIN answers' -> Nat] : Came(answers', answers, f, {}, {c}, k)
  BY DEF Traffic, Moved
<1>2. 0 \notin DOMAIN answers
  BY DEF Traffic, Moved
<1>3. PICK q \in DOMAIN answers' : f[q] = 0 /\ answers'[q] = c
  BY <1>1 DEF Came
<1>4. ASSUME NEW j \in DOMAIN answers', Waits(answers'[j], Reading)
      PROVE  f[j] \in DOMAIN answers /\ f[j] # 0 /\ Heir(answers'[j], answers[f[j]]) /\ (f[j] \in k => answers'[j].old)
  BY <1>1, <1>2, <1>4 DEF Came, Waits, Reading
<1>5. \A a : Waits(a, {"status"}) \/ Waits(a, {"list"}) => Waits(a, Reading)
  BY DEF Waits, Reading
<1>6. ASSUME NEW j \in DOMAIN answers', Waits(answers'[j], Reading), answers'[j].ok
      PROVE  \E v \in ZoneStatus : answers'[j].gives = {v}
  <2>1. Waits(answers[f[j]], Reading) /\ answers[f[j]].ok /\ answers'[j].gives = answers[f[j]].gives
    BY <1>4, <1>6 DEF Heir, Waits
  <2> QED
    BY <1>4, <1>6, <2>1 DEF StatusFollows
<1>7. ASSUME NEW j \in DOMAIN answers', Waits(answers'[j], {"status"}), Fresh(answers'[j])
      PROVE  \E l \in DOMAIN answers' : j < l /\ Verifies(answers'[l])
  <2>1. f[j] # 0 /\ f[j] \in DOMAIN answers /\ answers[f[j]].kind = "status" /\ f[j] \notin k
    BY <1>4, <1>5, <1>7 DEF Heir, Waits, Fresh
  <2>2. j < q /\ Verifies(answers'[q])
    BY <1>1, <1>3, <2>1 DEF Came
  <2> QED
    BY <2>2
<1>8. ASSUME NEW j \in DOMAIN answers', Waits(answers'[j], {"list"}), answers'[j].of = "domains", Fresh(answers'[j])
      PROVE  FALSE
  BY <1>4, <1>5, <1>8 DEF Heir, Waits, Fresh
<1>9. mailZone'.verdict = "verifying" /\ "verifying" \notin Settled
  BY DEF Settled
<1>10. "status" \in blurred' \/ Verifies(answers'[q])
  BY <1>3
<1> QED
  BY <1>6, <1>7, <1>8, <1>9, <1>10 DEF StatusFollows

\* The row reads its status.
LEMMA StatusIsRead ==
  ASSUME StatusFollows, NEW i \in DOMAIN answers, Waits(answers[i], {"status"}), NEW k, Traffic({}, {}, {i}, {}, k),
         \A j \in DOMAIN answers : j < i /\ answers[j].kind = "status" => j \in k,
         UNCHANGED mailZone,
         shownStatus' = IF answers[i].ok THEN CHOOSE v \in answers[i].gives : TRUE ELSE shownStatus,
         "status" \notin blurred' => (answers[i].ok => Fresh(answers[i])) /\ (~answers[i].ok => "status" \notin blurred)
  PROVE  StatusFollows'
<1>1. PICK f \in [DOMAIN answers' -> Nat] : Came(answers', answers, f, {i}, {}, k)
  BY DEF Traffic, Moved
<1>2. 0 \notin DOMAIN answers /\ DOMAIN answers \subseteq Nat
  BY DEF Traffic, Moved
<1>0. ~Verifies(answers[i])
  BY DEF Verifies, Waits
<1>3. ASSUME NEW j \in DOMAIN answers, Verifies(answers[j])
      PROVE  \E l \in DOMAIN answers' : f[l] = j /\ Verifies(answers'[l])
  <2>1. PICK l \in DOMAIN answers' : f[l] = j
    BY <1>0, <1>1, <1>3 DEF Came
  <2>2. Heir(answers'[l], answers[j])
    BY <1>1, <1>2, <2>1 DEF Came
  <2> QED
    BY <1>3, <2>1, <2>2 DEF Heir, Verifies, Waits
<1>4. ASSUME NEW j \in DOMAIN answers'
      PROVE  f[j] \in DOMAIN answers \ {i} /\ f[j] # 0 /\ Heir(answers'[j], answers[f[j]]) /\ (f[j] \in k => answers'[j].old)
  BY <1>1, <1>2 DEF Came
<1>6. ASSUME NEW j \in DOMAIN answers', Waits(answers'[j], Reading), answers'[j].ok
      PROVE  \E v \in ZoneStatus : answers'[j].gives = {v}
  <2>1. Waits(answers[f[j]], Reading) /\ answers[f[j]].ok /\ answers'[j].gives = answers[f[j]].gives
    BY <1>4, <1>6 DEF Heir, Waits
  <2> QED
    BY <1>4, <2>1 DEF StatusFollows
<1>7. ASSUME NEW j \in DOMAIN answers', Waits(answers'[j], {"status"}), Fresh(answers'[j])
      PROVE  \/ answers'[j].gives \cap Settled \subseteq {mailZone'.verdict}
             \/ \E l \in DOMAIN answers' : j < l /\ Verifies(answers'[l])
  <2>1. Waits(answers[f[j]], {"status"}) /\ Fresh(answers[f[j]]) /\ answers'[j].gives = answers[f[j]].gives
    BY <1>4, <1>7 DEF Heir, Waits, Fresh
  <2>2. CASE \E l \in DOMAIN answers : f[j] < l /\ Verifies(answers[l])
    <3>1. PICK l \in DOMAIN answers : f[j] < l /\ Verifies(answers[l])
      BY <2>2
    <3>2. PICK q \in DOMAIN answers' : f[q] = l /\ Verifies(answers'[q])
      BY <1>3, <3>1
    <3>3. j < q
      BY <1>1, <1>4, <3>1, <3>2 DEF Came
    <3> QED
      BY <3>2, <3>3
  <2> QED
    BY <1>4, <2>1, <2>2 DEF StatusFollows
<1>8. ASSUME NEW j \in DOMAIN answers', Waits(answers'[j], {"list"}), answers'[j].of = "domains", Fresh(answers'[j])
      PROVE  answers'[j].gives \cap Settled \subseteq {mailZone'.verdict}
  <2>1. Waits(answers[f[j]], {"list"}) /\ answers[f[j]].of = "domains" /\ Fresh(answers[f[j]]) /\ answers'[j].gives = answers[f[j]].gives
    BY <1>4, <1>8 DEF Heir, Waits, Fresh
  <2> QED
    BY <1>4, <2>1 DEF StatusFollows
<1>9. ASSUME shownStatus' \in Settled, "status" \notin blurred'
      PROVE  shownStatus' = mailZone'.verdict \/ \E j \in DOMAIN answers' : Verifies(answers'[j])
  <2>1. CASE ~answers[i].ok
    BY <1>3, <1>9, <2>1 DEF StatusFollows
  <2>2. CASE answers[i].ok
    <3>1. Waits(answers[i], Reading)
      BY DEF Waits, Reading
    <3>2. PICK v \in ZoneStatus : answers[i].gives = {v}
      BY <2>2, <3>1 DEF StatusFollows
    <3>3. shownStatus' = v
      BY <2>2, <3>2
    <3>4. Fresh(answers[i])
      BY <1>9, <2>2
    <3>5. \/ answers[i].gives \cap Settled \subseteq {mailZone.verdict}
          \/ \E l \in DOMAIN answers : i < l /\ Verifies(answers[l])
      BY <3>4 DEF StatusFollows
    <3> QED
      BY <1>3, <1>9, <3>2, <3>3, <3>5
  <2> QED
    BY <2>1, <2>2
<1>10. mailZone.verdict \in Settled => mailZone.records = mailZone.verdict
  BY DEF StatusFollows
<1> QED
  BY <1>6, <1>7, <1>8, <1>9, <1>10 DEF StatusFollows

\* The answer to a request to verify arrives.
LEMMA StatusIsVerified ==
  ASSUME StatusFollows, NEW i \in DOMAIN answers, NEW k, NEW n, Traffic({}, n, {i}, {}, k), answers[i].kind = "verify",
         \A j \in DOMAIN answers : answers[i].ok /\ j < i /\ answers[j].kind = "status" => j \in k,
         UNCHANGED <<mailZone, blurred>>,
         shownStatus' = IF answers[i].ok THEN "verifying" ELSE shownStatus
  PROVE  StatusFollows'
<1>1. PICK f \in [DOMAIN answers' -> Nat] : Came(answers', answers, f, {i}, {}, k)
  BY DEF Traffic, Moved
<1>2. 0 \notin DOMAIN answers /\ DOMAIN answers \subseteq Nat
  BY DEF Traffic, Moved
<1>3. ASSUME NEW j \in DOMAIN answers \ {i}, Verifies(answers[j])
      PROVE  \E l \in DOMAIN answers' : f[l] = j /\ Verifies(answers'[l])
  <2>1. PICK l \in DOMAIN answers' : f[l] = j
    BY <1>1, <1>3 DEF Came
  <2>2. Heir(answers'[l], answers[j])
    BY <1>1, <1>2, <2>1 DEF Came
  <2> QED
    BY <1>3, <2>1, <2>2 DEF Heir, Verifies, Waits
<1>4. ASSUME NEW j \in DOMAIN answers'
      PROVE  f[j] \in DOMAIN answers \ {i} /\ f[j] # 0 /\ Heir(answers'[j], answers[f[j]]) /\ (f[j] \in k => answers'[j].old)
  BY <1>1, <1>2 DEF Came
<1>6. ASSUME NEW j \in DOMAIN answers', Waits(answers'[j], Reading), answers'[j].ok
      PROVE  \E v \in ZoneStatus : answers'[j].gives = {v}
  <2>1. Waits(answers[f[j]], Reading) /\ answers[f[j]].ok /\ answers'[j].gives = answers[f[j]].gives
    BY <1>4, <1>6 DEF Heir, Waits
  <2> QED
    BY <1>4, <2>1 DEF StatusFollows
<1>7. ASSUME NEW j \in DOMAIN answers', Waits(answers'[j], {"status"}), Fresh(answers'[j])
      PROVE  \/ answers'[j].gives \cap Settled \subseteq {mailZone'.verdict}
             \/ \E l \in DOMAIN answers' : j < l /\ Verifies(answers'[l])
  <2>1. Waits(answers[f[j]], {"status"}) /\ Fresh(answers[f[j]]) /\ answers'[j].gives = answers[f[j]].gives /\ f[j] \notin k
    BY <1>4, <1>7 DEF Heir, Waits, Fresh
  <2>2. CASE \E l \in DOMAIN answers : f[j] < l /\ Verifies(answers[l])
    <3>1. PICK l \in DOMAIN answers : f[j] < l /\ Verifies(answers[l])
      BY <2>2
    <3>0. l # i
      BY <1>4, <2>1, <3>1 DEF Verifies, Waits
    <3>2. PICK q \in DOMAIN answers' : f[q] = l /\ Verifies(answers'[q])
      BY <1>3, <3>1, <3>0
    <3>3. j < q
      BY <1>1, <1>4, <3>1, <3>2 DEF Came
    <3> QED
      BY <3>2, <3>3
  <2> QED
    BY <1>4, <2>1, <2>2 DEF StatusFollows
<1>8. ASSUME NEW j \in DOMAIN answers', Waits(answers'[j], {"list"}), answers'[j].of = "domains", Fresh(answers'[j])
      PROVE  answers'[j].gives \cap Settled \subseteq {mailZone'.verdict}
  <2>1. Waits(answers[f[j]], {"list"}) /\ answers[f[j]].of = "domains" /\ Fresh(answers[f[j]]) /\ answers'[j].gives = answers[f[j]].gives
    BY <1>4, <1>8 DEF Heir, Waits, Fresh
  <2> QED
    BY <1>4, <2>1 DEF StatusFollows
<1>9. ASSUME shownStatus' \in Settled, "status" \notin blurred'
      PROVE  shownStatus' = mailZone'.verdict \/ \E j \in DOMAIN answers' : Verifies(answers'[j])
  <2>1. ~answers[i].ok
    BY <1>9 DEF Settled
  <2>2. ~Verifies(answers[i])
    BY <2>1 DEF Verifies
  <2> QED
    BY <1>3, <1>9, <2>1, <2>2 DEF StatusFollows
<1>10. mailZone.verdict \in Settled => mailZone.records = mailZone.verdict
  BY DEF StatusFollows
<1> QED
  BY <1>6, <1>7, <1>8, <1>9, <1>10 DEF StatusFollows

\* The records, when no answer about them arrives and the server does not look them up.
LEMMA MatterStays ==
  ASSUME NEW g, NEW n, NEW h, NEW m, NEW k, Traffic(g, n, h, m, k),
         mailZone'.records = mailZone.records, shownStatus' = shownStatus, "status" \in blurred => "status" \in blurred',
         \A c \in n : ~Waits(c, {"status"}),
         \A c \in m : Waits(c, {"status"}) => \E j \in g : j \in DOMAIN asks /\ Waits(asks[j], {"status"}),
         \A j \in h : ~Verifies(answers[j])
  PROVE  RecordsMatter' => RecordsMatter
<1>1. ASSUME NEW j \in DOMAIN asks', Waits(asks'[j], {"status"}) PROVE \E l \in DOMAIN asks : Waits(asks[l], {"status"})
  <2>1. PICK l \in DOMAIN asks \ g : Heir(asks'[j], asks[l])
    BY <1>1, TrafficHeirs
  <2> QED
    BY <1>1, <2>1 DEF Heir, Waits
<1>2. ASSUME NEW j \in DOMAIN answers', Waits(answers'[j], {"status"})
      PROVE  (\E l \in DOMAIN asks : Waits(asks[l], {"status"})) \/ \E l \in DOMAIN answers : Waits(answers[l], {"status"})
  <2>1. answers'[j] \in m \/ \E l \in DOMAIN answers \ h : Heir(answers'[j], answers[l])
    BY TrafficHeirs
  <2> QED
    BY <1>2, <2>1 DEF Heir, Waits
<1>3. ASSUME NEW j \in DOMAIN answers, Verifies(answers[j]) PROVE \E l \in DOMAIN answers' : Verifies(answers'[l])
  <2>1. PICK l \in DOMAIN answers' : Heir(answers'[l], answers[j])
    BY <1>3, TrafficHeirs
  <2> QED
    BY <1>3, <2>1 DEF Heir, Verifies, Waits
<1> QED
  BY <1>1, <1>2, <1>3 DEF RecordsMatter

LEMMA RecordsStay ==
  ASSUME RecordsFollow, NEW g, NEW n, NEW h, NEW m, NEW k, Traffic(g, n, h, m, k),
         mailZone'.records = mailZone.records,
         RecordsMatter' => RecordsMatter \/ \E c \in n : LoadOf(c, "dns"),
         panel'["dns"] = panel["dns"] \/ panel'["dns"].at # "shown", "dns" \in blurred => "dns" \in blurred',
         \A c \in m : LoadOf(c, "dns") /\ Fresh(c) => c.gives = {mailZone.records},
         \A j \in g : LoadOf(asks[j], "dns") => \E c \in m : LoadOf(c, "dns"),
         \A j \in h : ~LoadOf(answers[j], "dns")
  PROVE  RecordsFollow'
<1>1. ASSUME mailZone'.records \in Settled, NEW j \in DOMAIN answers', LoadOf(answers'[j], "dns"), Fresh(answers'[j])
      PROVE  answers'[j].gives = {mailZone'.records}
  <2>1. answers'[j] \in m \/ \E l \in DOMAIN answers \ h : Heir(answers'[j], answers[l])
    BY TrafficHeirs
  <2> QED
    BY <1>1, <2>1 DEF RecordsFollow, Heir, LoadOf, Waits, Fresh
<1> DEFINE Loads == (\E j \in DOMAIN asks' : LoadOf(asks'[j], "dns")) \/ \E j \in DOMAIN answers' : LoadOf(answers'[j], "dns")
<1>2. ASSUME NEW c \in n, LoadOf(c, "dns") PROVE Loads
  BY <1>2, TrafficHeirs
<1>3. ASSUME NEW c \in m, LoadOf(c, "dns") PROVE Loads
  BY <1>3, TrafficHeirs
<1>4. ASSUME NEW j \in DOMAIN asks, LoadOf(asks[j], "dns") PROVE Loads
  <2>1. CASE j \in g
    BY <1>3, <1>4, <2>1
  <2>2. CASE j \notin g
    <3>1. PICK l \in DOMAIN asks' : Heir(asks'[l], asks[j])
      BY <2>2, TrafficHeirs
    <3> QED
      BY <1>4, <3>1 DEF Heir, LoadOf, Waits
  <2> QED
    BY <2>1, <2>2
<1>5. ASSUME NEW j \in DOMAIN answers, LoadOf(answers[j], "dns") PROVE Loads
  <2>1. PICK l \in DOMAIN answers' : Heir(answers'[l], answers[j])
    BY <1>5, TrafficHeirs
  <2> QED
    BY <1>5, <2>1 DEF Heir, LoadOf, Waits
<1> HIDE DEF Loads
<1>6. ASSUME RecordsMatter' PROVE panel'["dns"].at # "shown" \/ "dns" \in blurred' \/ panel'["dns"].rows = {mailZone'.records} \/ Loads
  BY <1>2, <1>4, <1>5, <1>6 DEF RecordsFollow
<1> QED
  BY <1>1, <1>6 DEF RecordsFollow, Loads

\* The records are read.
LEMMA RecordsAreRead ==
  ASSUME RecordsFollow, NEW i \in DOMAIN answers, LoadOf(answers[i], "dns"), NEW k, Traffic({}, {}, {i}, {}, k),
         mailZone' = mailZone, panel'["dns"].rows = answers[i].gives, "dns" \notin blurred' => Fresh(answers[i])
  PROVE  RecordsFollow'
<1>1. ASSUME mailZone'.records \in Settled, NEW j \in DOMAIN answers', LoadOf(answers'[j], "dns"), Fresh(answers'[j])
      PROVE  answers'[j].gives = {mailZone'.records}
  <2>1. PICK l \in DOMAIN answers : Heir(answers'[j], answers[l])
    BY TrafficHeirs
  <2> QED
    BY <1>1, <2>1 DEF RecordsFollow, Heir, LoadOf, Waits, Fresh
<1>2. RecordsMatter' => "dns" \in blurred' \/ panel'["dns"].rows = {mailZone'.records}
  BY DEF RecordsFollow, RecordsMatter
<1> QED
  BY <1>1, <1>2 DEF RecordsFollow

\* A row that is not there, or has just come, waits for nothing.
LEMMA RowHasGone ==
  ASSUME StatusFollows,
         \A j \in DOMAIN asks' : ~OfRow(asks'[j]),
         \A j \in DOMAIN answers' : ~OfRow(answers'[j]),
         \A j \in DOMAIN answers' : ~answers'[j].dead => \E l \in DOMAIN answers : Heir(answers'[j], answers[l]),
         panel' = AllClosed, UNCHANGED mailZone,
         shownStatus' \in Settled /\ "status" \notin blurred' => shownStatus' = mailZone.verdict
  PROVE  OneForm' /\ (\A p \in Lists : ListFollows(p)') /\ StatusFollows' /\ RecordsFollow'
<1>1. \A a, S : ~OfRow(a) /\ S \subseteq RowKinds => ~Waits(a, S)
  BY DEF OfRow, Waits
<1>2. Writing \subseteq RowKinds /\ {"load"} \subseteq RowKinds /\ {"status"} \subseteq RowKinds /\ {"verify"} \subseteq RowKinds
  BY DEF Writing, RowKinds
<1>3. OneForm'
  BY <1>1, <1>2 DEF OneForm
<1>4. \A p \in Panels : panel'[p].at = "closed" /\ "closed" # "shown"
  BY DEF AllClosed, ClosedPanel
<1>5. ASSUME NEW p \in Lists PROVE ListFollows(p)'
  <2>1. \A j \in DOMAIN answers' : ~LoadOf(answers'[j], p)
    BY <1>1, <1>2 DEF LoadOf
  <2>2. panel'[p].at # "shown"
    BY <1>4 DEF Panels
  <2> QED
    BY <2>1, <2>2 DEF ListFollows
<1>6. ASSUME NEW j \in DOMAIN answers', Waits(answers'[j], Reading), answers'[j].ok
      PROVE  \E v \in ZoneStatus : answers'[j].gives = {v}
  <2>1. PICK l \in DOMAIN answers : Heir(answers'[j], answers[l])
    BY <1>6 DEF Waits
  <2> QED
    BY <1>6, <2>1 DEF StatusFollows, Heir, Waits
<1>7. ASSUME NEW j \in DOMAIN answers', Waits(answers'[j], {"list"}), answers'[j].of = "domains", Fresh(answers'[j])
      PROVE  answers'[j].gives \cap Settled \subseteq {mailZone'.verdict}
  <2>1. PICK l \in DOMAIN answers : Heir(answers'[j], answers[l])
    BY <1>7 DEF Waits
  <2> QED
    BY <1>7, <2>1 DEF StatusFollows, Heir, Waits, Fresh
<1>8. \A j \in DOMAIN answers' : ~Waits(answers'[j], {"status"})
  BY <1>1, <1>2
<1>9. StatusFollows'
  BY <1>6, <1>7, <1>8 DEF StatusFollows
<1>10. RecordsFollow'
  <2>1. \A j \in DOMAIN answers' : ~LoadOf(answers'[j], "dns")
    BY <1>1, <1>2 DEF LoadOf
  <2>2. panel'["dns"].at # "shown"
    BY <1>4 DEF Panels
  <2> QED
    BY <2>1, <2>2 DEF RecordsFollow
<1> QED
  BY <1>3, <1>5, <1>9, <1>10

(***************************************************************************)
(* The steps of the page.                                                  *)
(***************************************************************************)
LEMMA NothingMoves ==
  ASSUME MailTyped
  PROVE  /\ Moved(asks, asks, {}, {}, {}) /\ Moved(answers, answers, {}, {}, {})
         /\ Len(asks) \in Nat /\ Len(answers) \in Nat
BY StaysMoved, SelfHeirs, LenProperties DEF MailTyped

LEMMA MailPanels == ASSUME NEW p \in Lists PROVE p \in Panels /\ p # "dns" /\ p # "status"
BY DEF Panels, Lists

\* The page asks for something.
LEMMA MailAsked ==
  ASSUME MailInv, NEW c \in MailCall, WellSent(c), c.kind # "status", asks' = Append(asks, c), answers' = answers, Room,
         OfCard(c) => CardShown, OfRow(c) => RowShown,
         UNCHANGED <<serverSide, resource, shownStatus, password, ghosts>>,
         \/ rowBusy' = rowBusy /\ ~Waits(c, Writing)
         \/ RowShown /\ ~rowBusy /\ rowBusy' = TRUE /\ password = "none",
         panel' = panel \/ RowShown, panel' \in [Panels -> [at : PanelState, rows : SUBSET (BoxNames \cup AliasNames \cup ZoneStatus)]],
         \A p \in Panels : panel'[p] = panel[p] \/ panel'[p].at # "shown",
         connecting' \in DialogState
  PROVE  MailInv'
<1>0. MailTyped /\ Mounted /\ OneForm /\ PasswordKept /\ (\A p \in Lists : ListFollows(p)) /\ StatusFollows /\ RecordsFollow
  BY DEF MailInv
<1>1. asks' \in Seq(MailCall) /\ Moved(asks', asks, {}, {c}, {}) /\ Len(asks') = Len(asks) + 1
  <2>1. asks \in Seq(MailCall) /\ Aging(asks, asks, {})
    BY <1>0, SelfHeirs DEF MailTyped
  <2>2. /\ Append(asks, c) \in Seq(MailCall) /\ Moved(Append(asks, c), asks, {}, {c}, {})
        /\ Len(Append(asks, c)) = Len(asks) + 1
    BY <2>1, GrowsMoved
  <2> QED
    BY <2>2
<1>2. Moved(answers', answers, {}, {}, {}) /\ Len(asks) \in Nat /\ Len(answers) \in Nat
  BY <1>0, NothingMoves
<1>3. Traffic({}, {c}, {}, {}, {})
  BY <1>1, <1>2 DEF Traffic
<1>4. /\ mailRows' = mailRows /\ mailZone' = mailZone /\ resource' = resource /\ shownStatus' = shownStatus /\ password' = password
      /\ dismissed' = dismissed /\ unshown' = unshown /\ blurred' = blurred
  BY DEF serverSide, ghosts
<1>5. MailTyped'
  <2>1. (\A j \in DOMAIN asks' : WellSent(asks'[j])) /\ \A j \in DOMAIN answers' : WellSent(answers'[j])
    BY <1>0, <1>3, StaySent
  <2>2. Len(asks') + Len(answers') <= MaxMailCalls + 1
    BY <1>1, <1>2, MailPageAssumption DEF Room
  <2>3. \A p \in Panels : panel'[p].at \in PanelState
    OBVIOUS
  <2>4. rowBusy' \in BOOLEAN
    BY <1>0 DEF MailTyped, MailPageTypeOK
  <2>5. MailPageTypeOK'
    BY <1>0, <1>4, <2>2, <2>3, <2>4 DEF MailTyped, MailPageTypeOK
  <2> QED
    BY <1>0, <1>1, <1>4, <2>1, <2>5 DEF MailTyped
<1>6. Mounted'
  <2>1. RowShown \/ (panel' = panel /\ shownStatus' = shownStatus /\ rowBusy' = rowBusy /\ password' = password)
    BY <1>4
  <2> QED
    BY <1>0, <1>3, <1>4, <2>1, MountedStays
<1>7. OneForm'
  <2>1. CASE rowBusy' = rowBusy /\ ~Waits(c, Writing)
    BY <1>0, <1>3, <1>4, <2>1, FormsStay
  <2>2. CASE ~rowBusy /\ rowBusy' = TRUE /\ password = "none"
    BY <1>0, <1>3, <1>4, <2>2, FormIsSent
  <2> QED
    BY <2>1, <2>2
<1>8. PasswordKept'
  BY <1>0, <1>3, <1>4, PasswordsStay
<1>9. ASSUME NEW p \in Lists PROVE ListFollows(p)'
  <2>1. panel'[p] = panel[p] \/ panel'[p].at # "shown"
    BY MailPanels
  <2> QED
    BY <1>0, <1>3, <1>4, <2>1, ListStays
<1>10. StatusFollows'
  <2>1. mailZone.verdict \in ZoneStatus /\ (mailZone'.verdict \in Settled => mailZone'.records = mailZone'.verdict)
    BY <1>0, <1>4 DEF MailTyped, StatusFollows
  <2> QED
    BY <1>0, <1>3, <1>4, <2>1, StatusStays
<1>11. RecordsFollow'
  <2>1. \A d \in {c} : ~Waits(d, {"status"})
    BY DEF Waits
  <2>2. RecordsMatter' => RecordsMatter
    BY <1>3, <1>4, <2>1, MatterStays
  <2>3. panel'["dns"] = panel["dns"] \/ panel'["dns"].at # "shown"
    BY DEF Panels
  <2> QED
    BY <1>0, <1>3, <1>4, <2>2, <2>3, RecordsStay
<1> QED
  BY <1>5, <1>6, <1>7, <1>8, <1>9, <1>10, <1>11 DEF MailInv

\* Nothing is asked, served or answered.
LEMMA MailRests ==
  ASSUME MailInv, asks' \in Seq(MailCall), Moved(asks', asks, {}, {}, {}), Len(asks') = Len(asks),
         answers' \in Seq(MailCall), Moved(answers', answers, {}, {}, {}), Len(answers') = Len(answers),
         UNCHANGED <<serverSide, resource, shownStatus, rowBusy, unshown, blurred>>,
         \/ UNCHANGED <<password, dismissed>>
         \/ password # "none" /\ password' = "none" /\ dismissed' = dismissed \cup {password},
         panel' = panel \/ RowShown, panel' \in [Panels -> [at : PanelState, rows : SUBSET (BoxNames \cup AliasNames \cup ZoneStatus)]],
         \A p \in Panels : panel'[p] = panel[p] \/ panel'[p].at # "shown",
         connecting' \in DialogState
  PROVE  MailInv'
<1>0. MailTyped /\ Mounted /\ OneForm /\ PasswordKept /\ (\A p \in Lists : ListFollows(p)) /\ StatusFollows /\ RecordsFollow
  BY DEF MailInv
<1>3. Traffic({}, {}, {}, {}, {})
  BY DEF Traffic
<1>4. /\ mailRows' = mailRows /\ mailZone' = mailZone /\ resource' = resource /\ shownStatus' = shownStatus
      /\ unshown' = unshown /\ blurred' = blurred /\ rowBusy' = rowBusy
  BY DEF serverSide
<1>5. MailTyped'
  <2>1. (\A j \in DOMAIN asks' : WellSent(asks'[j])) /\ \A j \in DOMAIN answers' : WellSent(answers'[j])
    BY <1>0, <1>3, StaySent
  <2>3. \A p \in Panels : panel'[p].at \in PanelState
    OBVIOUS
  <2>4. password' \in ShownSecret /\ dismissed' \subseteq BoxNames
    BY <1>0 DEF MailTyped, MailPageTypeOK, ShownSecret
  <2>5. MailPageTypeOK'
    BY <1>0, <1>4, <2>3, <2>4 DEF MailTyped, MailPageTypeOK
  <2> QED
    BY <1>0, <1>4, <2>1, <2>5 DEF MailTyped
<1>6. Mounted'
  <2>1. RowShown \/ (panel' = panel /\ shownStatus' = shownStatus /\ rowBusy' = rowBusy /\ password' = password)
    BY <1>0, <1>4 DEF Mounted
  <2> QED
    BY <1>0, <1>3, <1>4, <2>1, MountedStays
<1>7. OneForm'
  BY <1>0, <1>3, <1>4, FormsStay
<1>8. PasswordKept'
  BY <1>0, <1>3, <1>4, PasswordsStay
<1>9. ASSUME NEW p \in Lists PROVE ListFollows(p)'
  <2>1. panel'[p] = panel[p] \/ panel'[p].at # "shown"
    BY MailPanels
  <2> QED
    BY <1>0, <1>3, <1>4, <2>1, ListStays
<1>10. StatusFollows'
  <2>1. mailZone.verdict \in ZoneStatus /\ (mailZone'.verdict \in Settled => mailZone'.records = mailZone'.verdict)
    BY <1>0, <1>4 DEF MailTyped, StatusFollows
  <2> QED
    BY <1>0, <1>3, <1>4, <2>1, StatusStays
<1>11. RecordsFollow'
  <2>2. RecordsMatter' => RecordsMatter
    BY <1>3, <1>4, MatterStays
  <2>3. panel'["dns"] = panel["dns"] \/ panel'["dns"].at # "shown"
    BY DEF Panels
  <2> QED
    BY <1>0, <1>3, <1>4, <2>2, <2>3, RecordsStay
<1> QED
  BY <1>5, <1>6, <1>7, <1>8, <1>9, <1>10, <1>11 DEF MailInv

LEMMA MailAskTyped ==
  ASSUME NEW kind \in MailKinds, NEW of \in Panels \cup {"status", "instances", "domains"},
         NEW name \in BoxNames \cup AliasNames \cup {"none", "reload", "left"}
  PROVE  /\ MailAsk(kind, of, name) \in MailCall
         /\ MailAsk(kind, of, name).kind = kind /\ MailAsk(kind, of, name).of = of /\ MailAsk(kind, of, name).name = name
         /\ ~MailAsk(kind, of, name).dead /\ ~MailAsk(kind, of, name).ok /\ ~MailAsk(kind, of, name).old
BY DEF MailAsk, MailCall

LEMMA PanelTypes ==
  ASSUME MailTyped, NEW p \in Panels, NEW d \in PanelState, NEW r \in SUBSET (BoxNames \cup AliasNames \cup ZoneStatus)
  PROVE  /\ [panel EXCEPT ![p] = [at |-> d, rows |-> r]] \in [Panels -> [at : PanelState, rows : SUBSET (BoxNames \cup AliasNames \cup ZoneStatus)]]
         /\ \A q \in Panels : [panel EXCEPT ![p] = [at |-> d, rows |-> r]][q] = IF q = p THEN [at |-> d, rows |-> r] ELSE panel[q]
BY DEF MailTyped

\* The user, on the row.
LEMMA PanelToggles == ASSUME MailInv, NEW p \in Panels, Toggle(p) PROVE MailInv'
<1>0. MailTyped /\ panel \in [Panels -> [at : PanelState, rows : SUBSET (BoxNames \cup AliasNames \cup ZoneStatus)]] /\ connecting \in DialogState
  BY DEF MailInv, MailTyped, MailPageTypeOK
<1>1. RowShown
  BY DEF Toggle, Clickable
<1>2. UNCHANGED <<serverSide, resource, shownStatus, rowBusy, password, connecting, answers, ghosts>>
  BY DEF Toggle
<1>3. CASE panel[p].at = "closed"
  <2> DEFINE c == MailAsk("load", p, "none")
  <2>1. c \in MailCall /\ c.kind = "load" /\ c.of = p
    BY MailAskTyped DEF MailKinds, RowKinds
  <2> HIDE DEF c
  <2>2. WellSent(c) /\ ~Waits(c, Writing) /\ c.kind # "status" /\ ~OfCard(c)
    BY <2>1 DEF WellSent, Waits, Writing, OfCard, CardKinds
  <2>3. asks' = Append(asks, c) /\ Room /\ panel' = [panel EXCEPT ![p].at = "loading"]
    BY <1>3 DEF Toggle, c
  <2>4. "loading" \in PanelState
    BY DEF PanelState
  <2>5. /\ panel' \in [Panels -> [at : PanelState, rows : SUBSET (BoxNames \cup AliasNames \cup ZoneStatus)]]
        /\ \A q \in Panels : panel'[q] = panel[q] \/ panel'[q].at # "shown"
    BY <1>0, <2>3, <2>4
  <2> QED
    BY <1>0, <1>1, <1>2, <2>1, <2>2, <2>3, <2>5, MailAsked
<1>4. CASE panel[p].at # "closed"
  <2>1. asks' = asks /\ answers' = answers /\ panel' = [panel EXCEPT ![p] = ClosedPanel]
    BY <1>2, <1>4 DEF Toggle
  <2>2. "closed" \in PanelState /\ {} \in SUBSET (BoxNames \cup AliasNames \cup ZoneStatus) /\ ClosedPanel = [at |-> "closed", rows |-> {}]
    BY DEF PanelState, ClosedPanel
  <2>3. /\ panel' \in [Panels -> [at : PanelState, rows : SUBSET (BoxNames \cup AliasNames \cup ZoneStatus)]]
        /\ \A q \in Panels : panel'[q] = panel[q] \/ panel'[q].at # "shown"
    BY <1>0, <2>1, <2>2, PanelTypes
  <2>4. /\ asks' \in Seq(MailCall) /\ Moved(asks', asks, {}, {}, {}) /\ Len(asks') = Len(asks)
        /\ answers' \in Seq(MailCall) /\ Moved(answers', answers, {}, {}, {}) /\ Len(answers') = Len(answers)
    BY <1>0, <2>1, NothingMoves DEF MailTyped
  <2>5. UNCHANGED <<serverSide, resource, shownStatus, rowBusy, unshown, blurred>> /\ UNCHANGED <<password, dismissed>> /\ connecting' \in DialogState
    BY <1>0, <1>2 DEF ghosts
  <2> QED
    BY <1>0, <1>1, <2>3, <2>4, <2>5, MailRests
<1> QED
  BY <1>3, <1>4

\* One more request, and nothing else than the row being busy with it.
LEMMA UserSends ==
  ASSUME MailInv, NEW c \in MailCall, WellSent(c), c.kind # "status", asks' = Append(asks, c), answers' = answers, Room,
         OfCard(c) => CardShown, OfRow(c) => RowShown,
         UNCHANGED <<serverSide, resource, panel, shownStatus, password, ghosts>>, connecting' \in DialogState,
         \/ rowBusy' = rowBusy /\ ~Waits(c, Writing)
         \/ RowShown /\ ~rowBusy /\ rowBusy' = TRUE /\ password = "none"
  PROVE  MailInv'
<1>1. /\ panel' = panel /\ panel' \in [Panels -> [at : PanelState, rows : SUBSET (BoxNames \cup AliasNames \cup ZoneStatus)]]
      /\ \A p \in Panels : panel'[p] = panel[p]
  BY DEF MailInv, MailTyped
<1> QED
  BY <1>1, MailAsked

LEMMA VerifyIsSent == ASSUME MailInv, Verify PROVE MailInv'
<1> DEFINE c == MailAsk("verify", "dns", IF panel["dns"].at = "shown" THEN "reload" ELSE "none")
<1>1. c \in MailCall /\ c.kind = "verify" /\ c.of = "dns"
  <2>1. /\ "verify" \in MailKinds /\ "dns" \in Panels \cup {"status", "instances", "domains"}
        /\ (IF panel["dns"].at = "shown" THEN "reload" ELSE "none") \in BoxNames \cup AliasNames \cup {"none", "reload", "left"}
    BY DEF MailKinds, RowKinds, Panels
  <2> QED
    BY <2>1, MailAskTyped
<1>2. asks' = Append(asks, c) /\ Room /\ RowShown /\ password = "none" /\ ~rowBusy /\ rowBusy' = TRUE
  BY DEF Verify, Clickable
<1> HIDE DEF c
<1>3. WellSent(c) /\ c.kind # "status" /\ ~OfCard(c)
  BY <1>1 DEF WellSent, Waits, OfCard, CardKinds
<1>4. UNCHANGED <<serverSide, resource, panel, shownStatus, password, ghosts>> /\ answers' = answers /\ connecting' \in DialogState
  BY DEF Verify, MailInv, MailTyped, MailPageTypeOK
<1> QED
  BY <1>1, <1>2, <1>3, <1>4, UserSends

LEMMA EntryIsAdded ==
  ASSUME MailInv, NEW p \in Lists, NEW b, p = "mailboxes" => b \in BoxNames, p = "aliases" => b \in AliasNames, AddEntry(p, b)
  PROVE  MailInv'
<1> DEFINE c == MailAsk("create", p, b)
<1>1. c \in MailCall /\ c.kind = "create" /\ c.of = p /\ c.name = b
  <2>1. "create" \in MailKinds /\ p \in Panels \cup {"status", "instances", "domains"} /\ b \in BoxNames \cup AliasNames \cup {"none", "reload", "left"}
    BY DEF MailKinds, RowKinds, Panels, Lists
  <2> QED
    BY <2>1, MailAskTyped
<1>2. asks' = Append(asks, c) /\ Room /\ RowShown /\ password = "none" /\ ~rowBusy /\ rowBusy' = TRUE
  BY DEF AddEntry, Clickable
<1> HIDE DEF c
<1>3. WellSent(c) /\ c.kind # "status" /\ ~OfCard(c)
  BY <1>1 DEF WellSent, Waits, OfCard, CardKinds
<1>4. UNCHANGED <<serverSide, resource, panel, shownStatus, password, ghosts>> /\ answers' = answers /\ connecting' \in DialogState
  BY DEF AddEntry, MailInv, MailTyped, MailPageTypeOK
<1> QED
  BY <1>1, <1>2, <1>3, <1>4, UserSends

LEMMA EntryIsDeleted ==
  ASSUME MailInv, NEW p \in Lists, NEW b \in BoxNames \cup AliasNames, DeleteEntry(p, b) PROVE MailInv'
<1> DEFINE c == MailAsk("delete", p, b)
<1>1. c \in MailCall /\ c.kind = "delete" /\ c.of = p
  <2>1. "delete" \in MailKinds /\ p \in Panels \cup {"status", "instances", "domains"} /\ b \in BoxNames \cup AliasNames \cup {"none", "reload", "left"}
    BY DEF MailKinds, RowKinds, Panels, Lists
  <2> QED
    BY <2>1, MailAskTyped
<1>2. asks' = Append(asks, c) /\ Room /\ RowShown
  BY DEF DeleteEntry, Clickable
<1> HIDE DEF c
<1>3. WellSent(c) /\ c.kind # "status" /\ ~OfCard(c) /\ ~Waits(c, Writing)
  BY <1>1 DEF WellSent, Waits, OfCard, CardKinds, Writing
<1>4. UNCHANGED <<serverSide, resource, panel, shownStatus, rowBusy, password, ghosts>> /\ answers' = answers /\ connecting' \in DialogState
  BY DEF DeleteEntry, rowSide, MailInv, MailTyped, MailPageTypeOK
<1> QED
  BY <1>1, <1>2, <1>3, <1>4, UserSends

LEMMA PasswordIsDismissed == ASSUME MailInv, DismissPassword PROVE MailInv'
<1>1. MailTyped /\ connecting' \in DialogState
  BY DEF MailInv, MailTyped, MailPageTypeOK, DismissPassword
<1>2. /\ panel' = panel /\ panel' \in [Panels -> [at : PanelState, rows : SUBSET (BoxNames \cup AliasNames \cup ZoneStatus)]]
      /\ \A p \in Panels : panel'[p] = panel[p]
  BY <1>1 DEF MailTyped, DismissPassword
<1>3. /\ asks' \in Seq(MailCall) /\ Moved(asks', asks, {}, {}, {}) /\ Len(asks') = Len(asks)
      /\ answers' \in Seq(MailCall) /\ Moved(answers', answers, {}, {}, {}) /\ Len(answers') = Len(answers)
  BY <1>1, NothingMoves DEF MailTyped, DismissPassword
<1>4. /\ UNCHANGED <<serverSide, resource, shownStatus, rowBusy, unshown, blurred>>
      /\ password # "none" /\ password' = "none" /\ dismissed' = dismissed \cup {password}
  BY DEF DismissPassword
<1> QED
  BY <1>1, <1>2, <1>3, <1>4, MailRests

\* The user, on the page.
LEMMA DomainIsAdded == ASSUME MailInv, AddMailDomain PROVE MailInv'
<1> DEFINE c == MailAsk("addDomain", "domains", "none")
<1>1. c \in MailCall /\ c.kind = "addDomain" /\ c.of = "domains"
  <2>1. "addDomain" \in MailKinds /\ "domains" \in Panels \cup {"status", "instances", "domains"}
    BY DEF MailKinds, CardKinds
  <2> QED
    BY <2>1, MailAskTyped
<1>2. asks' = Append(asks, c) /\ Room /\ CardShown
  BY DEF AddMailDomain
<1> HIDE DEF c
<1>3. WellSent(c) /\ c.kind # "status" /\ ~OfRow(c) /\ ~Waits(c, Writing)
  BY <1>1 DEF WellSent, Waits, OfRow, RowKinds, Writing
<1>4. UNCHANGED <<serverSide, resource, panel, shownStatus, rowBusy, password, ghosts>> /\ answers' = answers /\ connecting' \in DialogState
  BY DEF AddMailDomain, rowSide, MailInv, MailTyped, MailPageTypeOK
<1> QED
  BY <1>1, <1>2, <1>3, <1>4, UserSends

LEMMA ListIsRetried == ASSUME MailInv, NEW l \in {"instances", "domains"}, RetryList(l) PROVE MailInv'
<1> DEFINE c == MailAsk("list", l, "none")
<1>1. c \in MailCall /\ c.kind = "list" /\ c.of = l
  <2>1. "list" \in MailKinds /\ l \in Panels \cup {"status", "instances", "domains"}
    BY DEF MailKinds
  <2> QED
    BY <2>1, MailAskTyped
<1>2. asks' = Append(asks, c) /\ Room /\ (l = "domains" => CardShown)
  BY DEF RetryList
<1> HIDE DEF c
<1>3. WellSent(c) /\ c.kind # "status" /\ ~OfRow(c) /\ ~Waits(c, Writing) /\ (OfCard(c) => CardShown)
  BY <1>1, <1>2 DEF WellSent, Waits, OfRow, RowKinds, Writing, OfCard, CardKinds
<1>4. UNCHANGED <<serverSide, resource, panel, shownStatus, rowBusy, password, ghosts>> /\ answers' = answers /\ connecting' \in DialogState
  BY DEF RetryList, rowSide, MailInv, MailTyped, MailPageTypeOK
<1> QED
  BY <1>1, <1>2, <1>3, <1>4, UserSends

LEMMA ConnectIsSent == ASSUME MailInv, SubmitConnect PROVE MailInv'
<1> DEFINE c == MailAsk("connect", "instances", "none")
<1>1. c \in MailCall /\ c.kind = "connect" /\ c.of = "instances"
  BY MailAskTyped DEF MailKinds
<1>2. asks' = Append(asks, c) /\ Room
  BY DEF SubmitConnect
<1> HIDE DEF c
<1>3. WellSent(c) /\ c.kind # "status" /\ ~OfRow(c) /\ ~Waits(c, Writing) /\ ~OfCard(c)
  BY <1>1 DEF WellSent, Waits, OfRow, RowKinds, Writing, OfCard, CardKinds
<1>4. UNCHANGED <<serverSide, resource, panel, shownStatus, rowBusy, password, ghosts>> /\ answers' = answers /\ connecting' \in DialogState
  BY DEF SubmitConnect, rowSide, DialogState
<1> QED
  BY <1>1, <1>2, <1>3, <1>4, UserSends

LEMMA ConnectIsLeft ==
  ASSUME NEW s \in Seq(MailCall)
  PROVE  Leave(s) \in Seq(MailCall) /\ Moved(Leave(s), s, {}, {}, {}) /\ Len(Leave(s)) = Len(s)
<1> DEFINE u == Leave(s)
<1>1. DOMAIN u = DOMAIN s /\ \A k \in DOMAIN s : u[k] = IF s[k].kind = "connect" THEN [s[k] EXCEPT !.name = "left"] ELSE s[k]
  BY DEF Leave
<1> HIDE DEF u
<1>2. ASSUME NEW k \in DOMAIN s PROVE u[k] \in MailCall /\ Heir(u[k], s[k])
  <2>1. s[k] \in MailCall
    BY ElementOfSeq, LenProperties
  <2> QED
    BY <1>1, <2>1 DEF MailCall, Heir
<1>3. u \in Seq(MailCall)
  <2>1. DOMAIN u = 1..Len(s) /\ Len(s) \in Nat
    BY <1>1, LenProperties
  <2>2. u = [k \in 1..Len(s) |-> u[k]]
    BY <2>1 DEF u, Leave
  <2> QED
    BY <1>1, <1>2, <2>1, <2>2
<1>4. Aging(u, s, {})
  BY <1>1, <1>2 DEF Aging
<1> QED
  BY <1>3, <1>4, StaysMoved DEF u

LEMMA DialogMoves == ASSUME MailInv, OpenConnect \/ CloseConnect PROVE MailInv'
<1>1. MailTyped /\ connecting' \in DialogState
  BY DEF MailInv, OpenConnect, CloseConnect, DialogState
<1>2. /\ panel' = panel /\ panel' \in [Panels -> [at : PanelState, rows : SUBSET (BoxNames \cup AliasNames \cup ZoneStatus)]]
      /\ \A p \in Panels : panel'[p] = panel[p]
  BY <1>1 DEF MailTyped, OpenConnect, CloseConnect, rowSide
<1>3. /\ asks' \in Seq(MailCall) /\ Moved(asks', asks, {}, {}, {}) /\ Len(asks') = Len(asks)
      /\ answers' \in Seq(MailCall) /\ Moved(answers', answers, {}, {}, {}) /\ Len(answers') = Len(answers)
  <2>1. asks \in Seq(MailCall) /\ answers \in Seq(MailCall)
    BY <1>1 DEF MailTyped
  <2>2. CASE asks' = asks /\ answers' = answers
    BY <1>1, <2>1, <2>2, NothingMoves
  <2>3. CASE asks' = Leave(asks) /\ answers' = Leave(answers)
    BY <2>1, <2>3, ConnectIsLeft
  <2> QED
    BY <2>2, <2>3 DEF OpenConnect, CloseConnect
<1>4. UNCHANGED <<serverSide, resource, shownStatus, rowBusy, unshown, blurred, password, dismissed>>
  BY DEF OpenConnect, CloseConnect, rowSide, ghosts
<1> QED
  BY <1>1, <1>2, <1>3, <1>4, MailRests

\* The timer asks for the status and the records.
LEMMA PanelTicks == ASSUME MailInv, Tick PROVE MailInv'
<1>0. MailTyped /\ Mounted /\ OneForm /\ PasswordKept /\ (\A p \in Lists : ListFollows(p)) /\ StatusFollows /\ RecordsFollow
  BY DEF MailInv
<1> DEFINE c == MailAsk("status", "status", "none")
           d == MailAsk("load", "dns", "none")
<1>1. /\ c \in MailCall /\ c.kind = "status" /\ c.of = "status"
      /\ d \in MailCall /\ d.kind = "load" /\ d.of = "dns" /\ ~d.dead
  <2>1. {"load", "status"} \subseteq MailKinds /\ {"status", "dns"} \subseteq Panels \cup {"status", "instances", "domains"}
    BY DEF MailKinds, RowKinds, Panels
  <2> QED
    BY <2>1, MailAskTyped
<1>2. asks' = asks \o <<c, d>> /\ Len(asks) + Len(answers) + 1 < MaxMailCalls /\ RowShown
  BY DEF Tick
<1> HIDE DEF c, d
<1>3. asks' \in Seq(MailCall) /\ Moved(asks', asks, {}, {c, d}, {}) /\ Len(asks') = Len(asks) + 2
  <2>1. asks \in Seq(MailCall) /\ c # d
    BY <1>0, <1>1 DEF MailTyped
  <2> QED
    BY <1>1, <1>2, <2>1, TwoMoved
<1>4. /\ mailRows' = mailRows /\ mailZone' = mailZone /\ resource' = resource /\ shownStatus' = shownStatus /\ password' = password
      /\ dismissed' = dismissed /\ unshown' = unshown /\ blurred' = blurred /\ panel' = panel /\ rowBusy' = rowBusy
      /\ connecting' = connecting /\ answers' = answers
  BY DEF Tick, serverSide, rowSide, ghosts
<1>5. Traffic({}, {c, d}, {}, {}, {}) /\ Len(asks) \in Nat /\ Len(answers) \in Nat
  BY <1>0, <1>3, <1>4, NothingMoves DEF Traffic
<1>6. \A e \in {c, d} : WellSent(e) /\ ~OfCard(e) /\ ~Waits(e, Writing)
  BY <1>1 DEF WellSent, Waits, Writing, OfCard, CardKinds, Panels
<1>7. MailTyped'
  <2>1. (\A j \in DOMAIN asks' : WellSent(asks'[j])) /\ \A j \in DOMAIN answers' : WellSent(answers'[j])
    BY <1>0, <1>5, <1>6, StaySent
  <2>2. Len(asks') + Len(answers') <= MaxMailCalls + 1
    BY <1>2, <1>3, <1>4, <1>5, MailPageAssumption
  <2>3. MailPageTypeOK'
    BY <1>0, <1>4, <2>2 DEF MailTyped, MailPageTypeOK
  <2> QED
    BY <1>0, <1>3, <1>4, <2>1, <2>3 DEF MailTyped
<1>8. Mounted'
  BY <1>0, <1>2, <1>4, <1>5, <1>6, MountedStays
<1>9. OneForm'
  BY <1>0, <1>4, <1>5, <1>6, FormsStay
<1>10. PasswordKept'
  BY <1>0, <1>4, <1>5, PasswordsStay
<1>11. ASSUME NEW p \in Lists PROVE ListFollows(p)'
  BY <1>0, <1>4, <1>5, ListStays
<1>12. StatusFollows'
  <2>1. mailZone.verdict \in ZoneStatus /\ (mailZone'.verdict \in Settled => mailZone'.records = mailZone'.verdict)
    BY <1>0, <1>4 DEF MailTyped, StatusFollows
  <2> QED
    BY <1>0, <1>4, <1>5, <2>1, StatusStays
<1>13. RecordsFollow'
  <2>1. \E e \in {c, d} : LoadOf(e, "dns")
    BY <1>1 DEF LoadOf, Waits
  <2> QED
    BY <1>0, <1>4, <1>5, <2>1, RecordsStay
<1> QED
  BY <1>7, <1>8, <1>9, <1>10, <1>11, <1>12, <1>13 DEF MailInv

\* The answers that turn old when what was read of x is no longer what the server has.
Outdated(x) == {j \in DOMAIN answers : answers[j].of \in x /\ answers[j].kind \in {"load", "status", "list"}}

\* An answer to a.
Answered(c, a, ok, gives) == c = [a EXCEPT !.ok = ok, !.gives = gives]

\* The answers that a served request or a look-up makes older than what the server has.
LEMMA AgedMoved ==
  ASSUME NEW s \in Seq(MailCall), NEW x
  PROVE  Aged(s, x) \in Seq(MailCall) /\ Aging(Aged(s, x), s, {j \in DOMAIN s : s[j].of \in x /\ s[j].kind \in {"load", "status", "list"}})
<1> DEFINE u == Aged(s, x)
<1>1. /\ DOMAIN u = DOMAIN s
      /\ \A k \in DOMAIN s : u[k] = IF s[k].of \in x /\ s[k].kind \in {"load", "status", "list"} THEN [s[k] EXCEPT !.old = TRUE] ELSE s[k]
  BY DEF Aged
<1>2. u = [k \in DOMAIN s |-> u[k]]
  BY DEF Aged
<1> HIDE DEF u
<1>3. ASSUME NEW k \in DOMAIN s
      PROVE  u[k] \in MailCall /\ Heir(u[k], s[k]) /\ (s[k].of \in x /\ s[k].kind \in {"load", "status", "list"} => u[k].old)
  <2>1. s[k] \in MailCall
    BY ElementOfSeq, LenProperties
  <2> QED
    BY <1>1, <2>1 DEF MailCall, Heir
<1>4. u \in Seq(MailCall)
  <2>1. DOMAIN s = 1..Len(s) /\ Len(s) \in Nat
    BY LenProperties
  <2>2. u = [k \in 1..Len(s) |-> u[k]]
    BY <1>2, <2>1
  <2> QED
    BY <1>3, <2>1, <2>2
<1> QED
  BY <1>1, <1>3, <1>4 DEF Aging, u

\* A request is served: its answer is on its way, behind the others.
AnswerSent(n, c, x, ok, gives) ==
  /\ asks' \in Seq(MailCall) /\ answers' \in Seq(MailCall) /\ Len(asks') + Len(answers') <= MaxMailCalls + 1
  /\ Traffic({n}, {}, {}, {c}, Outdated(x))
  /\ c \in MailCall /\ c.kind = asks[n].kind /\ c.of = asks[n].of /\ c.name = asks[n].name /\ c.dead = asks[n].dead
  /\ c.ok = ok /\ c.gives = gives /\ WellSent(c)

LEMMA MailServed ==
  ASSUME MailTyped, NEW n \in DOMAIN asks, NEW x, NEW ok \in BOOLEAN, NEW gives \in SUBSET (BoxNames \cup AliasNames \cup ZoneStatus),
         NEW c, Answered(c, asks[n], ok, gives), Serve(n, c, Aged(answers, x)) \/ (x = {} /\ Serve(n, c, answers))
  PROVE  AnswerSent(n, c, x, ok, gives)
<1>1. asks \in Seq(MailCall) /\ answers \in Seq(MailCall) /\ asks[n] \in MailCall /\ WellSent(asks[n])
      /\ Len(asks) + Len(answers) <= MaxMailCalls + 1
  BY ElementOfSeq, LenProperties DEF MailTyped, MailPageTypeOK
<1>2. /\ c \in MailCall /\ c.kind = asks[n].kind /\ c.of = asks[n].of /\ c.name = asks[n].name /\ c.dead = asks[n].dead
      /\ c.ok = ok /\ c.gives = gives
  BY <1>1 DEF MailCall, Answered
<1>3. WellSent(c)
  BY <1>1, <1>2 DEF WellSent
<1> DEFINE old == Outdated(x)
<1>4. asks' = RemoveAt(asks, n) /\ asks' \in Seq(MailCall) /\ Moved(asks', asks, {n}, {}, {}) /\ Len(asks') = Len(asks) - 1
  <2>1. Aging(asks, asks, {})
    BY SelfHeirs
  <2>2. RemoveAt(asks, n) \in Seq(MailCall) /\ Moved(RemoveAt(asks, n), asks, {n}, {}, {}) /\ Len(RemoveAt(asks, n)) = Len(asks) - 1
    BY <1>1, <2>1, ShrinksMoved
  <2> QED
    BY <2>2 DEF Serve
<1>5. PICK u : u \in Seq(MailCall) /\ Aging(u, answers, old) /\ answers' = Append(u, c)
  <2>1. CASE Serve(n, c, Aged(answers, x))
    BY <1>1, <2>1, AgedMoved DEF Serve, Outdated
  <2>2. CASE x = {} /\ Serve(n, c, answers)
    <3>1. old = {} /\ Aging(answers, answers, {})
      BY <2>2, SelfHeirs DEF Outdated
    <3> QED
      BY <1>1, <2>2, <3>1 DEF Serve
  <2> QED
    BY <2>1, <2>2
<1> HIDE DEF old
<1>6. /\ Append(u, c) \in Seq(MailCall) /\ Moved(Append(u, c), answers, {}, {c}, old)
      /\ Len(Append(u, c)) = Len(answers) + 1
  BY <1>1, <1>2, <1>5, GrowsMoved
<1>7. Traffic({n}, {}, {}, {c}, old)
  BY <1>4, <1>5, <1>6 DEF Traffic
<1>8. Len(asks') + Len(answers') <= MaxMailCalls + 1
  <2>1. Len(asks) \in Nat /\ Len(answers) \in Nat
    BY <1>1, LenProperties
  <2> QED
    BY <1>1, <1>4, <1>5, <1>6, <2>1, MailPageAssumption
<1> QED
  BY <1>2, <1>3, <1>4, <1>5, <1>6, <1>7, <1>8 DEF old, AnswerSent

\* What of the invariant no served request touches.
LEMMA ServedMounts ==
  ASSUME MailTyped, Mounted, NEW n \in DOMAIN asks, NEW c, NEW k, Traffic({n}, {}, {}, {c}, k),
         c.kind = asks[n].kind, c.of = asks[n].of, c.dead = asks[n].dead, resource' = resource, UNCHANGED rowSide
  PROVE  Mounted'
<1>1. (OfCard(c) => OfCard(asks[n])) /\ (OfRow(c) => OfRow(asks[n]))
  BY DEF OfCard, OfRow, Waits
<1>2. (OfCard(c) => CardShown) /\ (OfRow(c) => RowShown)
  BY <1>1 DEF Mounted
<1>3. panel' = panel /\ shownStatus' = shownStatus /\ rowBusy' = rowBusy /\ password' = password
  BY DEF rowSide
<1> QED
  BY <1>2, <1>3, MountedStays

LEMMA ServedForms ==
  ASSUME OneForm, NEW n \in DOMAIN asks, NEW c, NEW k, Traffic({n}, {}, {}, {c}, k),
         c.kind = asks[n].kind, c.dead = asks[n].dead, UNCHANGED rowSide
  PROVE  OneForm'
<1>1. Waits(c, Writing) => Waits(asks[n], Writing)
  BY DEF Waits
<1> QED
  BY <1>1, FormIsServed DEF rowSide

LEMMA ServedTypes ==
  ASSUME MailTyped, NEW n \in DOMAIN asks, NEW c, NEW k, Traffic({n}, {}, {}, {c}, k), WellSent(c),
         asks' \in Seq(MailCall), answers' \in Seq(MailCall), Len(asks') + Len(answers') <= MaxMailCalls + 1,
         resource' = resource, UNCHANGED rowSide, connecting' = connecting,
         mailRows' \in [Lists -> SUBSET (BoxNames \cup AliasNames)],
         mailRows'["mailboxes"] \subseteq BoxNames, mailRows'["aliases"] \subseteq AliasNames,
         mailZone' \in [verdict : ZoneStatus, records : ZoneStatus],
         dismissed' \cup unshown' \subseteq BoxNames, blurred' \subseteq Panels \cup {"status"}
  PROVE  MailTyped'
<1>1. (\A j \in DOMAIN asks' : WellSent(asks'[j])) /\ \A j \in DOMAIN answers' : WellSent(answers'[j])
  BY StaySent
<1>2. panel' = panel /\ shownStatus' = shownStatus /\ rowBusy' = rowBusy /\ password' = password
  BY DEF rowSide
<1>3. mailZone'.verdict \in ZoneStatus /\ mailZone'.records \in ZoneStatus
  OBVIOUS
<1>4. MailPageTypeOK'
  BY <1>2, <1>3 DEF MailTyped, MailPageTypeOK
<1> QED
  BY <1>1, <1>2, <1>4 DEF MailTyped

LEMMA MailRead == ASSUME MailInv, NEW n \in DOMAIN asks, ServeRead(n) PROVE MailInv'
<1>0. MailTyped /\ Mounted /\ OneForm /\ PasswordKept /\ (\A p \in Lists : ListFollows(p)) /\ StatusFollows /\ RecordsFollow
  BY DEF MailInv
<1> DEFINE a == asks[n]
           read == CASE a.of = "mailboxes" -> ListMailboxes [] a.of = "aliases" -> ListAliases [] a.of = "dns" -> {mailZone.records}
                     [] OTHER -> {mailZone.verdict}
<1>1. PICK ok \in BOOLEAN : /\ a.kind \in {"load", "status", "list"}
                            /\ Serve(n, [a EXCEPT !.ok = ok, !.gives = IF ok THEN read ELSE {}], answers)
                            /\ UNCHANGED <<serverSide, resource, rowSide, connecting, ghosts>>
  BY DEF ServeRead
<1>2. WellSent(a)
  BY <1>0 DEF MailTyped
<1>3. mailZone.verdict \in ZoneStatus /\ mailZone.records \in ZoneStatus /\ mailRows \in [Lists -> SUBSET (BoxNames \cup AliasNames)]
  BY <1>0 DEF MailTyped
<1>4. /\ a.of \in Lists => read = mailRows[a.of]
      /\ a.of = "dns" => read = {mailZone.records}
      /\ a.of \notin Panels => read = {mailZone.verdict}
  BY DEF ListMailboxes, ListAliases, Lists, Panels
<1>5. read \in SUBSET (BoxNames \cup AliasNames \cup ZoneStatus)
  BY <1>3, <1>4 DEF Panels
<1> HIDE DEF read
<1> DEFINE gives == IF ok THEN read ELSE {}
           c == [a EXCEPT !.ok = ok, !.gives = gives]
<1>6. gives \in SUBSET (BoxNames \cup AliasNames \cup ZoneStatus)
  BY <1>5
<1>7. Serve(n, c, answers)
  BY <1>1
<1>8. Answered(c, asks[n], ok, gives)
  BY DEF Answered
<1> HIDE DEF c, gives
<1>20. MailTyped
  BY <1>0
<1>21. AnswerSent(n, c, {}, ok, gives)
  BY <1>20, <1>6, <1>7, <1>8, MailServed
<1>9. /\ asks' \in Seq(MailCall) /\ answers' \in Seq(MailCall) /\ Len(asks') + Len(answers') <= MaxMailCalls + 1
      /\ Traffic({n}, {}, {}, {c}, Outdated({}))
      /\ c \in MailCall /\ c.kind = a.kind /\ c.of = a.of /\ c.name = a.name /\ c.dead = a.dead
      /\ c.ok = ok /\ c.gives = gives /\ WellSent(c)
  BY <1>21 DEF AnswerSent
<1> HIDE DEF a
<1>10. PICK k : Traffic({n}, {}, {}, {c}, k)
  BY <1>9
<1>11. /\ mailRows' = mailRows /\ mailZone' = mailZone /\ resource' = resource /\ connecting' = connecting
       /\ panel' = panel /\ shownStatus' = shownStatus /\ rowBusy' = rowBusy /\ password' = password
       /\ dismissed' = dismissed /\ unshown' = unshown /\ blurred' = blurred /\ UNCHANGED rowSide
  BY <1>1 DEF serverSide, rowSide, ghosts
<1>12. MailTyped'
  BY <1>0, <1>9, <1>10, <1>11, ServedTypes DEF MailTyped, MailPageTypeOK
<1>13. Mounted' /\ OneForm'
  BY <1>0, <1>9, <1>10, <1>11, ServedMounts, ServedForms DEF a
<1>14. PasswordKept'
  BY <1>0, <1>10, <1>11, PasswordsStay
<1>15. LoadOf(a, a.of) => a.of \in Panels
  BY <1>2 DEF LoadOf, Waits, WellSent
<1>16. \A p : LoadOf(c, p) = LoadOf(a, p)
  BY <1>9 DEF LoadOf, Waits
<1>17. ASSUME NEW p \in Lists PROVE ListFollows(p)'
  <2>1. \A d \in {c} : LoadOf(d, p) /\ Fresh(d) => d.gives = mailRows[p]
    BY <1>4, <1>9 DEF LoadOf, Fresh, gives
  <2>2. \A j \in {n} : LoadOf(asks[j], p) => \E d \in {c} : LoadOf(d, p)
    BY <1>16 DEF a
  <2> QED
    BY <1>0, <1>10, <1>11, <2>1, <2>2, ListStays
<1>18. StatusFollows'
  <2>1. mailZone.verdict \in ZoneStatus /\ (mailZone'.verdict \in Settled => mailZone'.records = mailZone'.verdict)
    BY <1>0, <1>3, <1>11 DEF StatusFollows
  <2>2. Waits(c, Reading) => a.of \notin Panels
    BY <1>2, <1>9 DEF Waits, Reading, WellSent, Panels, Lists
  <2>3. \A d \in {c} : Waits(d, Reading) /\ d.ok => d.gives = {mailZone.verdict}
    BY <1>4, <1>9, <2>2 DEF gives
  <2> QED
    BY <1>0, <1>10, <1>11, <2>1, <2>3, StatusStays
<1>19. RecordsFollow'
  <2>1. \A d \in {c} : Waits(d, {"status"}) => \E j \in {n} : j \in DOMAIN asks /\ Waits(asks[j], {"status"})
    BY <1>9 DEF Waits, a
  <2>2. RecordsMatter' => RecordsMatter
    BY <1>10, <1>11, <2>1, MatterStays
  <2>3. \A d \in {c} : LoadOf(d, "dns") /\ Fresh(d) => d.gives = {mailZone.records}
    BY <1>4, <1>9 DEF LoadOf, Fresh, gives
  <2>4. \A j \in {n} : LoadOf(asks[j], "dns") => \E d \in {c} : LoadOf(d, "dns")
    BY <1>16 DEF a
  <2> QED
    BY <1>0, <1>10, <1>11, <2>2, <2>3, <2>4, RecordsStay
<1> QED
  BY <1>12, <1>13, <1>14, <1>17, <1>18, <1>19 DEF MailInv

\* A new domain or server is none of those the page shows.
LEMMA OtherIsAdded == ASSUME MailInv, NEW n \in DOMAIN asks, ServeAdd(n) PROVE MailInv'
<1>0. MailTyped /\ Mounted /\ OneForm /\ PasswordKept /\ (\A p \in Lists : ListFollows(p)) /\ StatusFollows /\ RecordsFollow
  BY DEF MailInv
<1> DEFINE a == asks[n]
<1>1. PICK ok \in BOOLEAN : /\ a.kind \in {"addDomain", "connect"} /\ Serve(n, [a EXCEPT !.ok = ok], answers)
                            /\ UNCHANGED <<serverSide, resource, rowSide, connecting, ghosts>>
  BY DEF ServeAdd
<1> DEFINE c == [a EXCEPT !.ok = ok, !.gives = a.gives]
<1>2. a \in MailCall
  BY <1>0, ElementOfSeq, LenProperties DEF MailTyped
<1>3. c = [a EXCEPT !.ok = ok] /\ a.gives \in SUBSET (BoxNames \cup AliasNames \cup ZoneStatus)
  BY <1>2 DEF MailCall
<1>4. Serve(n, c, answers) /\ Answered(c, asks[n], ok, a.gives)
  BY <1>1, <1>3 DEF Answered
<1> DEFINE gives == a.gives
<1> HIDE DEF c, gives
<1>8. Answered(c, asks[n], ok, gives) /\ gives \in SUBSET (BoxNames \cup AliasNames \cup ZoneStatus)
  BY <1>3, <1>4 DEF gives
<1>20. MailTyped
  BY <1>0
<1>21. AnswerSent(n, c, {}, ok, gives)
  BY <1>20, <1>4, <1>8, MailServed
<1>9. /\ asks' \in Seq(MailCall) /\ answers' \in Seq(MailCall) /\ Len(asks') + Len(answers') <= MaxMailCalls + 1
      /\ Traffic({n}, {}, {}, {c}, Outdated({}))
      /\ c \in MailCall /\ c.kind = a.kind /\ c.of = a.of /\ c.name = a.name /\ c.dead = a.dead
      /\ c.ok = ok /\ c.gives = gives /\ WellSent(c)
  BY <1>21 DEF AnswerSent
<1> HIDE DEF a
<1>10. PICK k : Traffic({n}, {}, {}, {c}, k)
  BY <1>9
<1>11. /\ mailRows' = mailRows /\ mailZone' = mailZone /\ resource' = resource /\ connecting' = connecting
       /\ panel' = panel /\ shownStatus' = shownStatus /\ rowBusy' = rowBusy /\ password' = password
       /\ dismissed' = dismissed /\ unshown' = unshown /\ blurred' = blurred /\ UNCHANGED rowSide
  BY <1>1 DEF serverSide, rowSide, ghosts
<1>12. MailTyped'
  BY <1>0, <1>9, <1>10, <1>11, ServedTypes DEF MailTyped, MailPageTypeOK
<1>13. Mounted' /\ OneForm'
  BY <1>0, <1>9, <1>10, <1>11, ServedMounts, ServedForms DEF a
<1>14. PasswordKept'
  BY <1>0, <1>10, <1>11, PasswordsStay
<1>15. /\ \A p : ~LoadOf(c, p) /\ ~LoadOf(asks[n], p)
       /\ ~Waits(c, Reading) /\ ~Waits(c, {"status"})
  BY <1>1, <1>9 DEF LoadOf, Waits, Reading, a
<1>17. ASSUME NEW p \in Lists PROVE ListFollows(p)'
  BY <1>0, <1>10, <1>11, <1>15, ListStays
<1>18. StatusFollows'
  <2>1. mailZone.verdict \in ZoneStatus /\ (mailZone'.verdict \in Settled => mailZone'.records = mailZone'.verdict)
    BY <1>0, <1>11 DEF StatusFollows, MailTyped
  <2> QED
    BY <1>0, <1>10, <1>11, <1>15, <2>1, StatusStays
<1>19. RecordsFollow'
  <2>2. RecordsMatter' => RecordsMatter
    BY <1>10, <1>11, <1>15, MatterStays
  <2> QED
    BY <1>0, <1>10, <1>11, <1>15, <2>2, RecordsStay
<1> QED
  BY <1>12, <1>13, <1>14, <1>17, <1>18, <1>19 DEF MailInv

\* The server takes a request to verify, or refuses it, or fails.
LEMMA DomainIsVerified == ASSUME MailInv, NEW n \in DOMAIN asks, ServeVerify(n) PROVE MailInv'
<1>0. MailTyped /\ Mounted /\ OneForm /\ PasswordKept /\ (\A p \in Lists : ListFollows(p)) /\ StatusFollows /\ RecordsFollow
  BY DEF MailInv
<1> DEFINE a == asks[n]
<1>1. PICK ok \in BOOLEAN, told \in BOOLEAN :
        /\ a.kind = "verify" /\ (told => ok)
        /\ mailZone' = IF ok THEN [verdict |-> "verifying", records |-> "verifying"] ELSE mailZone
        /\ Serve(n, [a EXCEPT !.ok = told],
                 Aged(answers, IF ok /\ (a.dead \/ ~told) THEN {"status", "domains"} ELSE IF ok THEN {"domains"} ELSE {}))
        /\ blurred' = IF ok /\ (a.dead \/ ~told) THEN blurred \cup {"status"} ELSE blurred
        /\ UNCHANGED <<mailRows, resource, rowSide, connecting, dismissed, unshown, removed>>
  BY DEF ServeVerify
<1> DEFINE x == IF ok /\ (a.dead \/ ~told) THEN {"status", "domains"} ELSE IF ok THEN {"domains"} ELSE {}
           c == [a EXCEPT !.ok = told, !.gives = a.gives]
           old == Outdated(x)
<1>2. a \in MailCall /\ WellSent(a)
  BY <1>0, ElementOfSeq, LenProperties DEF MailTyped
<1>3. c = [a EXCEPT !.ok = told] /\ a.gives \in SUBSET (BoxNames \cup AliasNames \cup ZoneStatus)
  BY <1>2 DEF MailCall
<1>4. Serve(n, c, Aged(answers, x)) /\ Answered(c, asks[n], told, a.gives)
  BY <1>1, <1>3 DEF Answered
<1> DEFINE gives == a.gives
<1> HIDE DEF c, gives
<1>8. Answered(c, asks[n], told, gives) /\ gives \in SUBSET (BoxNames \cup AliasNames \cup ZoneStatus)
  BY <1>3, <1>4 DEF gives
<1>5. /\ ok /\ (a.dead \/ ~told) => "status" \in x /\ "domains" \in x
      /\ ok => "domains" \in x
  OBVIOUS
<1> HIDE DEF x
<1>9. /\ asks' \in Seq(MailCall) /\ answers' \in Seq(MailCall) /\ Len(asks') + Len(answers') <= MaxMailCalls + 1
      /\ Traffic({n}, {}, {}, {c}, old)
      /\ c \in MailCall /\ c.kind = "verify" /\ c.of = a.of /\ c.name = a.name /\ c.dead = a.dead
      /\ c.ok = told /\ c.gives = gives /\ WellSent(c)
  <2>20. MailTyped
    BY <1>0
  <2>21. AnswerSent(n, c, x, told, gives)
    BY <2>20, <1>4, <1>8, MailServed
  <2>1. /\ asks' \in Seq(MailCall) /\ answers' \in Seq(MailCall) /\ Len(asks') + Len(answers') <= MaxMailCalls + 1
        /\ Traffic({n}, {}, {}, {c}, Outdated(x))
        /\ c \in MailCall /\ c.kind = asks[n].kind /\ c.of = asks[n].of /\ c.name = asks[n].name /\ c.dead = asks[n].dead
        /\ c.ok = told /\ c.gives = gives /\ WellSent(c)
    BY <2>21 DEF AnswerSent
  <2> QED
    BY <1>1, <2>1
<1>6. /\ ok /\ (a.dead \/ ~told) => \A j \in DOMAIN answers : answers[j].kind = "status" => j \in old
      /\ ok => \A j \in DOMAIN answers : answers[j].kind = "list" /\ answers[j].of = "domains" => j \in old
  BY <1>0, <1>5 DEF MailTyped, WellSent, Outdated
<1> HIDE DEF a, old
<1>11. /\ mailRows' = mailRows /\ resource' = resource /\ connecting' = connecting
       /\ panel' = panel /\ shownStatus' = shownStatus /\ rowBusy' = rowBusy /\ password' = password
       /\ dismissed' = dismissed /\ unshown' = unshown /\ UNCHANGED rowSide
       /\ blurred \subseteq blurred' /\ blurred' \subseteq blurred \cup {"status"}
  BY <1>1 DEF rowSide
<1>12. MailTyped'
  <2>1. mailZone' \in [verdict : ZoneStatus, records : ZoneStatus]
    BY <1>0, <1>1 DEF MailTyped, ZoneStatus
  <2> QED
    BY <1>0, <1>9, <1>11, <2>1, ServedTypes DEF MailTyped, MailPageTypeOK
<1>7. asks[n].kind = c.kind /\ asks[n].of = c.of /\ asks[n].dead = c.dead
  BY <1>1, <1>9 DEF a
<1>13. Mounted' /\ OneForm'
  BY <1>0, <1>7, <1>9, <1>11, ServedMounts, ServedForms
<1>14. PasswordKept'
  BY <1>0, <1>9, <1>11, PasswordsStay
<1>15. /\ \A p : ~LoadOf(c, p) /\ ~LoadOf(asks[n], p)
       /\ ~Waits(c, Reading) /\ ~Waits(c, {"status"})
  BY <1>7, <1>9 DEF LoadOf, Waits, Reading
<1>17. ASSUME NEW p \in Lists PROVE ListFollows(p)'
  BY <1>0, <1>9, <1>11, <1>15, ListStays
<1>18. StatusFollows'
  <2>1. CASE ok
    <3>1. a.dead \/ ~told \/ Verifies(c)
      BY <1>9 DEF Verifies, Waits
    <3>2. a.dead \/ ~told => "status" \in blurred'
      BY <1>1, <2>1
    <3>3. \/ Verifies(c)
          \/ "status" \in blurred' /\ \A j \in DOMAIN answers : answers[j].kind = "status" => j \in old
      BY <1>6, <2>1, <3>1, <3>2
    <3>4. mailZone' = [verdict |-> "verifying", records |-> "verifying"]
      BY <1>1, <2>1
    <3> QED
      BY <1>0, <1>6, <1>9, <1>11, <2>1, <3>3, <3>4, StatusIsReset
  <2>2. CASE ~ok
    <3>1. mailZone' = mailZone
      BY <1>1, <2>2
    <3>2. mailZone.verdict \in ZoneStatus /\ (mailZone'.verdict \in Settled => mailZone'.records = mailZone'.verdict)
      BY <1>0, <3>1 DEF StatusFollows, MailTyped
    <3> QED
      BY <1>0, <1>9, <1>11, <1>15, <3>1, <3>2, StatusStays
  <2> QED
    BY <2>1, <2>2
<1>19. RecordsFollow'
  <2>1. CASE ok
    <3>1. mailZone'.records \notin Settled
      BY <1>1, <2>1 DEF Settled
    <3> QED
      BY <3>1 DEF RecordsFollow, RecordsMatter
  <2>2. CASE ~ok
    <3>1. mailZone' = mailZone
      BY <1>1, <2>2
    <3>2. RecordsMatter' => RecordsMatter
      BY <1>9, <1>11, <1>15, <3>1, MatterStays
    <3> QED
      BY <1>0, <1>9, <1>11, <1>15, <3>1, <3>2, RecordsStay
  <2> QED
    BY <2>1, <2>2
<1> QED
  BY <1>12, <1>13, <1>14, <1>17, <1>18, <1>19 DEF MailInv

\* The list a request writes to, and whether anybody hears of it.
LEMMA WriteIsServed ==
  ASSUME MailInv, NEW n \in DOMAIN asks, asks[n].kind \in {"create", "delete"}, NEW ok \in BOOLEAN, NEW told \in BOOLEAN, told => ok,
         NEW unheard \in BOOLEAN, unheard = (ok /\ (asks[n].dead \/ ~told)),
         Serve(n, [asks[n] EXCEPT !.ok = told], IF unheard THEN Aged(answers, {asks[n].of}) ELSE answers),
         blurred' = IF unheard THEN blurred \cup {asks[n].of} ELSE blurred,
         \A p \in Lists : mailRows'[p] = mailRows[p] \/ (ok /\ p = asks[n].of),
         mailRows' \in [Lists -> SUBSET (BoxNames \cup AliasNames)],
         mailRows'["mailboxes"] \subseteq BoxNames, mailRows'["aliases"] \subseteq AliasNames,
         dismissed' \cup unshown' \subseteq BoxNames, UNCHANGED <<mailZone, resource, rowSide, connecting>>
  PROVE  /\ MailTyped' /\ Mounted' /\ OneForm' /\ (\A p \in Lists : ListFollows(p)') /\ StatusFollows' /\ RecordsFollow'
         /\ \E c, k : /\ Traffic({n}, {}, {}, {c}, k) /\ c.kind = asks[n].kind /\ c.of = asks[n].of /\ c.name = asks[n].name
                      /\ c.dead = asks[n].dead /\ c.ok = told
<1>0. MailTyped /\ Mounted /\ OneForm /\ (\A p \in Lists : ListFollows(p)) /\ StatusFollows /\ RecordsFollow
  BY DEF MailInv
<1> DEFINE a == asks[n]
           x == IF unheard THEN {a.of} ELSE {}
           c == [a EXCEPT !.ok = told, !.gives = a.gives]
           old == Outdated(x)
<1>2. a \in MailCall /\ WellSent(a)
  BY <1>0, ElementOfSeq, LenProperties DEF MailTyped
<1>3. c = [a EXCEPT !.ok = told] /\ a.gives \in SUBSET (BoxNames \cup AliasNames \cup ZoneStatus)
  BY <1>2 DEF MailCall
<1>4. /\ Serve(n, c, Aged(answers, x)) \/ (x = {} /\ Serve(n, c, answers))
      /\ Answered(c, asks[n], told, a.gives)
  BY <1>3 DEF Answered
<1>5. unheard => a.of \in x
  OBVIOUS
<1> DEFINE gives == a.gives
<1> HIDE DEF c, gives, x
<1>8. Answered(c, asks[n], told, gives) /\ gives \in SUBSET (BoxNames \cup AliasNames \cup ZoneStatus)
  BY <1>3, <1>4 DEF gives
<1>20. MailTyped
  BY <1>0
<1>21. AnswerSent(n, c, x, told, gives)
  BY <1>20, <1>4, <1>8, MailServed
<1>9. /\ asks' \in Seq(MailCall) /\ answers' \in Seq(MailCall) /\ Len(asks') + Len(answers') <= MaxMailCalls + 1
      /\ Traffic({n}, {}, {}, {c}, Outdated(x))
      /\ c \in MailCall /\ c.kind = asks[n].kind /\ c.of = asks[n].of /\ c.name = asks[n].name /\ c.dead = asks[n].dead
      /\ c.ok = told /\ c.gives = gives /\ WellSent(c)
  BY <1>21 DEF AnswerSent
<1>6. unheard => {j \in DOMAIN answers : answers[j].of = a.of /\ answers[j].kind = "load"} \subseteq old
  BY <1>5 DEF Outdated
<1>10. a.of \in Lists /\ a.of # "status" /\ a.of # "dns"
  BY <1>2 DEF WellSent, Lists
<1>7. asks[n].kind = c.kind /\ asks[n].of = c.of /\ asks[n].dead = c.dead /\ a.of = c.of /\ a.dead = c.dead /\ c.kind \in {"create", "delete"}
  BY <1>9
<1> HIDE DEF a, old
<1>11. /\ mailZone' = mailZone /\ resource' = resource /\ connecting' = connecting
       /\ panel' = panel /\ shownStatus' = shownStatus /\ rowBusy' = rowBusy /\ password' = password
       /\ UNCHANGED rowSide /\ blurred \subseteq blurred' /\ blurred' \subseteq blurred \cup {c.of} /\ (unheard => c.of \in blurred')
  BY <1>7 DEF rowSide
<1>12. MailTyped'
  <2>1. mailZone' \in [verdict : ZoneStatus, records : ZoneStatus]
    BY <1>0, <1>11 DEF MailTyped
  <2>2. blurred' \subseteq Panels \cup {"status"}
    BY <1>0, <1>7, <1>10, <1>11, MailPanels DEF MailTyped, MailPageTypeOK
  <2>3. Traffic({n}, {}, {}, {c}, old)
    BY <1>9 DEF old
  <2> QED
    BY <1>0, <1>9, <1>11, <2>1, <2>2, <2>3, ServedTypes
<1>13. Mounted' /\ OneForm'
  BY <1>0, <1>7, <1>9, <1>11, ServedMounts, ServedForms
<1>15. /\ \A p : ~LoadOf(c, p) /\ ~LoadOf(asks[n], p)
       /\ ~Waits(c, Reading) /\ ~Waits(c, {"status"})
  BY <1>7 DEF LoadOf, Waits, Reading
<1>17. ASSUME NEW p \in Lists PROVE ListFollows(p)'
  <2>1. CASE mailRows'[p] = mailRows[p]
    BY <1>0, <1>9, <1>11, <1>15, <2>1, ListStays
  <2>2. CASE ok /\ p = asks[n].of
    <3>1. CASE unheard
      BY <1>6, <1>7, <1>9, <1>11, <2>2, <3>1, ListIsWritten DEF old, a
    <3>2. CASE ~unheard
      <4>1. Wrote(c, p)
        BY <1>7, <1>9, <2>2, <3>2 DEF Wrote, Waits
      <4> QED
        BY <1>9, <4>1, ListIsWritten
    <3> QED
      BY <3>1, <3>2
  <2> QED
    BY <2>1, <2>2
<1>18. StatusFollows'
  <2>1. mailZone.verdict \in ZoneStatus /\ (mailZone'.verdict \in Settled => mailZone'.records = mailZone'.verdict)
    BY <1>0, <1>11 DEF StatusFollows, MailTyped
  <2> QED
    BY <1>0, <1>9, <1>11, <1>15, <2>1, StatusStays
<1>19. RecordsFollow'
  <2>2. RecordsMatter' => RecordsMatter
    BY <1>9, <1>11, <1>15, MatterStays
  <2> QED
    BY <1>0, <1>9, <1>11, <1>15, <2>2, RecordsStay
<1> QED
  BY <1>9, <1>12, <1>13, <1>17, <1>18, <1>19

LEMMA EntryIsCreated == ASSUME MailInv, NEW n \in DOMAIN asks, ServeCreate(n) PROVE MailInv'
<1>0. MailTyped /\ PasswordKept
  BY DEF MailInv
<1> DEFINE a == asks[n]
<1>1. PICK ok \in BOOLEAN, told \in BOOLEAN :
        LET unheard == ok /\ (a.dead \/ ~told)
            made == IF ok /\ a.of = "mailboxes" THEN {a.name} ELSE {} IN
        /\ a.kind = "create" /\ (told => ok) /\ (ok => a.name \notin mailRows[a.of] \cup removed)
        /\ mailRows' = [mailRows EXCEPT ![a.of] = IF ok THEN @ \cup {a.name} ELSE @]
        /\ Serve(n, [a EXCEPT !.ok = told], IF unheard THEN Aged(answers, {a.of}) ELSE answers)
        /\ blurred' = IF unheard THEN blurred \cup {a.of} ELSE blurred
        /\ dismissed' = dismissed \ made
        /\ unshown' = IF unheard THEN unshown \cup made ELSE unshown \ made
        /\ UNCHANGED <<mailZone, resource, rowSide, connecting, removed>>
  BY DEF ServeCreate
<1> DEFINE unheard == ok /\ (a.dead \/ ~told)
           made == IF ok /\ a.of = "mailboxes" THEN {a.name} ELSE {}
<1>2. a \in MailCall /\ WellSent(a)
  BY <1>0, ElementOfSeq, LenProperties DEF MailTyped
<1>3. /\ a.of \in Lists /\ a.name \in BoxNames \cup AliasNames
      /\ a.of = "mailboxes" => a.name \in BoxNames
      /\ a.of = "aliases" => a.name \in AliasNames
  BY <1>1, <1>2 DEF WellSent, Lists
<1>4. mailRows \in [Lists -> SUBSET (BoxNames \cup AliasNames)] /\ mailRows["mailboxes"] \subseteq BoxNames /\ mailRows["aliases"] \subseteq AliasNames
      /\ dismissed \cup unshown \subseteq BoxNames /\ {"mailboxes", "aliases"} = Lists
  BY <1>0 DEF MailTyped, MailPageTypeOK, Lists
<1>5. \A p \in Lists : mailRows'[p] = IF ok /\ p = a.of THEN mailRows[p] \cup {a.name} ELSE mailRows[p]
  BY <1>1, <1>4
<1>6. /\ mailRows' \in [Lists -> SUBSET (BoxNames \cup AliasNames)]
      /\ mailRows'["mailboxes"] \subseteq BoxNames /\ mailRows'["aliases"] \subseteq AliasNames
  <2>1. mailRows' \in [Lists -> SUBSET (BoxNames \cup AliasNames)]
    BY <1>1, <1>3, <1>4
  <2> QED
    BY <1>3, <1>4, <1>5, <2>1
<1>7. made \subseteq BoxNames /\ dismissed' \cup unshown' \subseteq BoxNames
  BY <1>1, <1>3, <1>4
<1>8. unheard \in BOOLEAN /\ (unheard = (ok /\ (asks[n].dead \/ ~told))) /\ a.kind = "create" /\ (told => ok)
      /\ Serve(n, [a EXCEPT !.ok = told], IF unheard THEN Aged(answers, {a.of}) ELSE answers)
      /\ blurred' = (IF unheard THEN blurred \cup {a.of} ELSE blurred)
      /\ dismissed' = dismissed \ made
      /\ unshown' = (IF unheard THEN unshown \cup made ELSE unshown \ made)
      /\ UNCHANGED <<mailZone, resource, rowSide, connecting>>
  BY <1>1
<1>13. made = IF ok /\ a.of = "mailboxes" THEN {a.name} ELSE {}
  OBVIOUS
<1> HIDE DEF unheard, made
<1>9. \A p \in Lists : mailRows'[p] = mailRows[p] \/ (ok /\ p = asks[n].of)
  BY <1>5
<1>10. /\ MailTyped' /\ Mounted' /\ OneForm' /\ (\A p \in Lists : ListFollows(p)') /\ StatusFollows' /\ RecordsFollow'
       /\ \E c, k : /\ Traffic({n}, {}, {}, {c}, k) /\ c.kind = asks[n].kind /\ c.of = asks[n].of /\ c.name = asks[n].name
                    /\ c.dead = asks[n].dead /\ c.ok = told
  BY <1>6, <1>7, <1>8, <1>9, WriteIsServed
<1>11. PasswordKept'
  <2>1. PICK c, k : /\ Traffic({n}, {}, {}, {c}, k) /\ c.kind = a.kind /\ c.of = a.of /\ c.name = a.name
                    /\ c.dead = a.dead /\ c.ok = told
    BY <1>10
  <2>2. password' = password
    BY <1>8 DEF rowSide
  <2>6. \A d \in {c} : \E j \in DOMAIN answers' : answers'[j] = d
    BY <2>1, TrafficHeirs
  <2>7. \A l \in DOMAIN answers \ {} : \E j \in DOMAIN answers' : Heir(answers'[j], answers[l])
    BY <2>1, TrafficHeirs
  <2>3. (\E j \in DOMAIN answers' : answers'[j] = c) /\ \A l \in DOMAIN answers : \E j \in DOMAIN answers' : Heir(answers'[j], answers[l])
    BY <2>6, <2>7
  <2> SUFFICES ASSUME NEW b \in mailRows'["mailboxes"], b \notin dismissed' \cup unshown' \cup {password'}
               PROVE  \E j \in DOMAIN answers' : Brings(answers'[j], b)
    BY DEF PasswordKept
  <2>4. CASE b \in made
    <3>1. ok /\ a.of = "mailboxes" /\ b = a.name /\ ~unheard
      BY <1>8, <1>13, <2>4
    <3>2. told /\ ~a.dead
      BY <1>8, <3>1
    <3>3. Brings(c, b)
      BY <1>8, <2>1, <3>1, <3>2 DEF Brings, Waits
    <3> QED
      BY <2>3, <3>3
  <2>5. CASE b \notin made
    <3>1. b \in mailRows["mailboxes"]
      BY <1>4, <1>5, <1>13, <2>5
    <3>2. b \notin dismissed \cup unshown \cup {password}
      BY <1>8, <2>2, <2>5
    <3>3. PICK l \in DOMAIN answers : Brings(answers[l], b)
      BY <1>0, <3>1, <3>2 DEF PasswordKept
    <3>4. PICK j \in DOMAIN answers' : Heir(answers'[j], answers[l])
      BY <2>3
    <3> QED
      BY <3>3, <3>4 DEF Heir, Brings, Waits
  <2> QED
    BY <2>4, <2>5
<1> QED
  BY <1>10, <1>11 DEF MailInv

LEMMA EntryIsGone == ASSUME MailInv, NEW n \in DOMAIN asks, ServeDelete(n) PROVE MailInv'
<1>0. MailTyped /\ PasswordKept
  BY DEF MailInv
<1> DEFINE a == asks[n]
<1>1. PICK ok \in BOOLEAN, told \in BOOLEAN :
        LET unheard == ok /\ (a.dead \/ ~told) IN
        /\ a.kind = "delete" /\ (told => ok) /\ (ok => a.name \in mailRows[a.of])
        /\ mailRows' = [mailRows EXCEPT ![a.of] = IF ok THEN @ \ {a.name} ELSE @]
        /\ removed' = IF ok THEN removed \cup {a.name} ELSE removed
        /\ Serve(n, [a EXCEPT !.ok = told], IF unheard THEN Aged(answers, {a.of}) ELSE answers)
        /\ blurred' = IF unheard THEN blurred \cup {a.of} ELSE blurred
        /\ UNCHANGED <<mailZone, resource, rowSide, connecting, dismissed, unshown>>
  BY DEF ServeDelete
<1> DEFINE unheard == ok /\ (a.dead \/ ~told)
<1>2. a \in MailCall /\ WellSent(a)
  BY <1>0, ElementOfSeq, LenProperties DEF MailTyped
<1>3. a.of \in Lists
  BY <1>1, <1>2 DEF WellSent, Lists
<1>4. mailRows \in [Lists -> SUBSET (BoxNames \cup AliasNames)] /\ mailRows["mailboxes"] \subseteq BoxNames /\ mailRows["aliases"] \subseteq AliasNames
      /\ dismissed \cup unshown \subseteq BoxNames /\ {"mailboxes", "aliases"} = Lists
  BY <1>0 DEF MailTyped, MailPageTypeOK, Lists
<1>5. \A p \in Lists : mailRows'[p] = IF ok /\ p = a.of THEN mailRows[p] \ {a.name} ELSE mailRows[p]
  BY <1>1, <1>4
<1>6. /\ mailRows' \in [Lists -> SUBSET (BoxNames \cup AliasNames)]
      /\ mailRows'["mailboxes"] \subseteq BoxNames /\ mailRows'["aliases"] \subseteq AliasNames
  <2>1. mailRows' \in [Lists -> SUBSET (BoxNames \cup AliasNames)]
    BY <1>1, <1>3, <1>4
  <2> QED
    BY <1>3, <1>4, <1>5, <2>1
<1>8. unheard \in BOOLEAN /\ (unheard = (ok /\ (asks[n].dead \/ ~told))) /\ a.kind = "delete" /\ (told => ok)
      /\ Serve(n, [a EXCEPT !.ok = told], IF unheard THEN Aged(answers, {a.of}) ELSE answers)
      /\ blurred' = (IF unheard THEN blurred \cup {a.of} ELSE blurred)
      /\ dismissed' = dismissed /\ unshown' = unshown
      /\ UNCHANGED <<mailZone, resource, rowSide, connecting>>
  BY <1>1
<1> HIDE DEF unheard
<1>7. dismissed' \cup unshown' \subseteq BoxNames /\ asks[n].kind \in {"create", "delete"}
  BY <1>4, <1>8
<1>9. \A p \in Lists : mailRows'[p] = mailRows[p] \/ (ok /\ p = asks[n].of)
  BY <1>5
<1>10. /\ MailTyped' /\ Mounted' /\ OneForm' /\ (\A p \in Lists : ListFollows(p)') /\ StatusFollows' /\ RecordsFollow'
       /\ \E c, k : /\ Traffic({n}, {}, {}, {c}, k) /\ c.kind = asks[n].kind /\ c.of = asks[n].of /\ c.name = asks[n].name
                    /\ c.dead = asks[n].dead /\ c.ok = told
  BY <1>6, <1>7, <1>8, <1>9, WriteIsServed
<1>11. PasswordKept'
  <2>1. PICK c, k : Traffic({n}, {}, {}, {c}, k)
    BY <1>10
  <2>2. password' = password /\ mailRows'["mailboxes"] \subseteq mailRows["mailboxes"]
    BY <1>4, <1>5, <1>8 DEF rowSide
  <2> QED
    BY <1>0, <1>8, <2>1, <2>2, PasswordsStay
<1> QED
  BY <1>10, <1>11 DEF MailInv

\* The server looks the records up.
LEMMA RecordsAreSwept == ASSUME MailInv, SweepRecords PROVE MailInv'
<1>0. MailTyped /\ Mounted /\ OneForm /\ PasswordKept /\ (\A p \in Lists : ListFollows(p)) /\ StatusFollows /\ RecordsFollow
  BY DEF MailInv
<1>1. PICK s \in SweepFinds : s # mailZone.records /\ mailZone' = [mailZone EXCEPT !.records = s]
  BY DEF SweepRecords
<1>2. mailZone \in [verdict : ZoneStatus, records : ZoneStatus] /\ mailZone.verdict \notin Settled /\ s \in ZoneStatus
  BY <1>0, <1>1, MailPageAssumption DEF SweepRecords, MailTyped
<1>3. mailZone' \in [verdict : ZoneStatus, records : ZoneStatus] /\ mailZone'.verdict = mailZone.verdict /\ mailZone'.records = s
  BY <1>1, <1>2
<1>4. /\ answers' = Aged(answers, {"dns"}) /\ asks' = asks
      /\ blurred' = IF InFlight("status") THEN blurred \cup {"dns"} ELSE blurred
      /\ mailRows' = mailRows /\ resource' = resource /\ connecting' = connecting
      /\ panel' = panel /\ shownStatus' = shownStatus /\ rowBusy' = rowBusy /\ password' = password
      /\ dismissed' = dismissed /\ unshown' = unshown
  BY DEF SweepRecords, rowSide
<1>5. asks \in Seq(MailCall) /\ answers \in Seq(MailCall)
  BY <1>0 DEF MailTyped
<1> DEFINE old == Outdated({"dns"})
<1>6. answers' \in Seq(MailCall) /\ Moved(answers', answers, {}, {}, old) /\ Len(answers') = Len(answers)
  BY <1>4, <1>5, AgedMoved, StaysMoved DEF Outdated
<1>7. \A j \in DOMAIN answers : LoadOf(answers[j], "dns") => j \in old
  BY DEF LoadOf, Waits, Outdated
<1> HIDE DEF old
<1>8. Traffic({}, {}, {}, {}, old)
  BY <1>0, <1>4, <1>6, NothingMoves DEF Traffic
<1>9. MailTyped'
  <2>1. (\A j \in DOMAIN asks' : WellSent(asks'[j])) /\ \A j \in DOMAIN answers' : WellSent(answers'[j])
    BY <1>0, <1>8, StaySent
  <2>2. mailZone'.verdict \in ZoneStatus /\ mailZone'.records \in ZoneStatus
    BY <1>3
  <2>3. blurred' \subseteq Panels \cup {"status"}
    BY <1>0, <1>4 DEF MailTyped, MailPageTypeOK, Panels
  <2>4. MailPageTypeOK'
    BY <1>0, <1>4, <1>6, <2>2, <2>3 DEF MailTyped, MailPageTypeOK
  <2> QED
    BY <1>0, <1>3, <1>4, <1>6, <2>1, <2>4 DEF MailTyped
<1>10. Mounted' /\ OneForm' /\ PasswordKept'
  BY <1>0, <1>4, <1>8, MountedStays, FormsStay, PasswordsStay
<1>11. ASSUME NEW p \in Lists PROVE ListFollows(p)'
  BY <1>0, <1>4, <1>8, ListStays
<1>12. StatusFollows'
  <2>1. mailZone.verdict \in ZoneStatus /\ (mailZone'.verdict \in Settled => mailZone'.records = mailZone'.verdict)
    BY <1>2, <1>3
  <2>2. "status" \in blurred => "status" \in blurred'
    BY <1>4
  <2> QED
    BY <1>0, <1>3, <1>4, <1>8, <2>1, <2>2, StatusStays
<1>13. RecordsFollow'
  <2>1. ASSUME NEW j \in DOMAIN answers', LoadOf(answers'[j], "dns") PROVE ~Fresh(answers'[j])
    <3>1. answers'[j] \in {} \/ \E l \in DOMAIN answers \ {} : Heir(answers'[j], answers[l]) /\ (l \in old => answers'[j].old)
      BY <1>8, TrafficHeirs
    <3> QED
      BY <1>7, <2>1, <3>1 DEF Heir, LoadOf, Waits, Fresh
  <2>2. CASE InFlight("status")
    BY <1>4, <2>1, <2>2 DEF RecordsFollow
  <2>3. CASE ~InFlight("status")
    <3>1. /\ \A j \in DOMAIN asks : ~Waits(asks[j], {"status"})
          /\ \A j \in DOMAIN answers : ~Waits(answers[j], {"status"})
      BY <2>3 DEF InFlight, Waits, ToSet
    <3>2. ASSUME RecordsMatter' PROVE FALSE
      <4>1. \A j \in DOMAIN asks' : ~Waits(asks'[j], {"status"})
        BY <1>4, <3>1
      <4>2. \A j \in DOMAIN answers' : ~Waits(answers'[j], {"status"})
        <5>1. \A j \in DOMAIN answers' : answers'[j] \in {} \/ \E l \in DOMAIN answers \ {} : Heir(answers'[j], answers[l]) /\ (l \in old => answers'[j].old)
          BY <1>8, TrafficHeirs
        <5> QED
          BY <3>1, <5>1 DEF Heir, Waits
      <4>3. shownStatus \in Settled /\ "status" \notin blurred /\ \A j \in DOMAIN answers' : ~Verifies(answers'[j])
        BY <1>4, <2>3, <3>2, <4>1, <4>2 DEF RecordsMatter
      <4>4. PICK j \in DOMAIN answers : Verifies(answers[j])
        BY <1>0, <1>2, <4>3 DEF StatusFollows
      <4>5. \A l \in DOMAIN answers \ {} : \E i \in DOMAIN answers' : Heir(answers'[i], answers[l])
        BY <1>8, TrafficHeirs
      <4> QED
        BY <4>3, <4>4, <4>5 DEF Heir, Verifies, Waits
    <3> QED
      BY <2>1, <3>2 DEF RecordsFollow
  <2> QED
    BY <2>2, <2>3
<1> QED
  BY <1>9, <1>10, <1>11, <1>12, <1>13 DEF MailInv

\* And settles the verdict.
LEMMA VerdictIsSettled == ASSUME MailInv, SweepVerdict PROVE MailInv'
<1>0. MailTyped /\ Mounted /\ OneForm /\ PasswordKept /\ (\A p \in Lists : ListFollows(p)) /\ StatusFollows /\ RecordsFollow
  BY DEF MailInv
<1>2. mailZone \in [verdict : ZoneStatus, records : ZoneStatus] /\ mailZone.verdict \notin Settled /\ mailZone' = [mailZone EXCEPT !.verdict = mailZone.records]
  BY <1>0 DEF SweepVerdict, MailTyped
<1>3. mailZone' \in [verdict : ZoneStatus, records : ZoneStatus] /\ mailZone'.verdict = mailZone.records /\ mailZone'.records = mailZone.records
  BY <1>2
<1>4. /\ answers' = answers /\ asks' = asks /\ blurred' = blurred
      /\ mailRows' = mailRows /\ resource' = resource /\ connecting' = connecting
      /\ panel' = panel /\ shownStatus' = shownStatus /\ rowBusy' = rowBusy /\ password' = password
      /\ dismissed' = dismissed /\ unshown' = unshown
  BY DEF SweepVerdict, rowSide, ghosts
<1>8. Traffic({}, {}, {}, {}, {})
  BY <1>0, <1>4, NothingMoves DEF Traffic
<1>9. MailTyped'
  <2>2. mailZone'.verdict \in ZoneStatus /\ mailZone'.records \in ZoneStatus
    BY <1>3
  <2>4. MailPageTypeOK'
    BY <1>0, <1>4, <2>2 DEF MailTyped, MailPageTypeOK
  <2> QED
    BY <1>0, <1>3, <1>4, <2>4 DEF MailTyped
<1>10. Mounted' /\ OneForm' /\ PasswordKept'
  BY <1>0, <1>4, <1>8, MountedStays, FormsStay, PasswordsStay
<1>11. ASSUME NEW p \in Lists PROVE ListFollows(p)'
  BY <1>0, <1>4, <1>8, ListStays
<1>12. StatusFollows'
  <2>1. mailZone.verdict \in ZoneStatus /\ (mailZone'.verdict \in Settled => mailZone'.records = mailZone'.verdict)
    BY <1>2, <1>3
  <2> QED
    BY <1>0, <1>2, <1>4, <1>8, <2>1, StatusStays
<1>13. RecordsFollow'
  <2>1. RecordsMatter' => RecordsMatter
    BY <1>3, <1>4, <1>8, MatterStays
  <2> QED
    BY <1>0, <1>3, <1>4, <1>8, <2>1, RecordsStay
<1> QED
  BY <1>9, <1>10, <1>11, <1>12, <1>13 DEF MailInv

(***************************************************************************)
(* The answers that arrive.                                                *)
(***************************************************************************)
LEMMA OlderMoved ==
  ASSUME NEW s \in Seq(MailCall), NEW i \in DOMAIN s
  PROVE  Older(s, i) \in Seq(MailCall) /\ Aging(Older(s, i), s, {j \in DOMAIN s : j < i /\ s[j].of = s[i].of})
<1> DEFINE u == Older(s, i)
<1>1. /\ DOMAIN u = DOMAIN s
      /\ \A k \in DOMAIN s : u[k] = IF k < i /\ s[k].of = s[i].of THEN [s[k] EXCEPT !.old = TRUE] ELSE s[k]
  BY DEF Older
<1>2. u = [k \in DOMAIN s |-> u[k]]
  BY DEF Older
<1> HIDE DEF u
<1>3. ASSUME NEW k \in DOMAIN s
      PROVE  u[k] \in MailCall /\ Heir(u[k], s[k]) /\ (k < i /\ s[k].of = s[i].of => u[k].old)
  <2>1. s[k] \in MailCall
    BY ElementOfSeq, LenProperties
  <2> QED
    BY <1>1, <2>1 DEF MailCall, Heir
<1>4. u \in Seq(MailCall)
  <2>1. DOMAIN s = 1..Len(s) /\ Len(s) \in Nat
    BY LenProperties
  <2>2. u = [k \in 1..Len(s) |-> u[k]]
    BY <1>2, <2>1
  <2> QED
    BY <1>3, <2>1, <2>2
<1> QED
  BY <1>1, <1>3, <1>4 DEF Aging, u

\* An answer is taken, and perhaps something is asked for.
LEMMA MailTaken ==
  ASSUME MailTyped, NEW i \in DOMAIN answers, NEW u \in Seq(MailCall), NEW k, Aging(u, answers, k), answers' = RemoveAt(u, i),
         NEW c \in MailCall, NEW n, (n = {} /\ asks' = asks) \/ (n = {c} /\ asks' = Append(asks, c)), WellSent(c)
  PROVE  /\ asks' \in Seq(MailCall) /\ answers' \in Seq(MailCall) /\ Len(asks') + Len(answers') <= MaxMailCalls + 1
         /\ Traffic({}, n, {i}, {}, k)
         /\ (\A j \in DOMAIN asks' : WellSent(asks'[j])) /\ \A j \in DOMAIN answers' : WellSent(answers'[j])
<1>1. asks \in Seq(MailCall) /\ answers \in Seq(MailCall) /\ Len(asks) \in Nat /\ Len(answers) \in Nat
      /\ Len(asks) + Len(answers) <= MaxMailCalls + 1
  BY LenProperties DEF MailTyped, MailPageTypeOK
<1>2. answers' \in Seq(MailCall) /\ Moved(answers', answers, {i}, {}, k) /\ Len(answers') = Len(answers) - 1
  BY <1>1, ShrinksMoved
<1>3. asks' \in Seq(MailCall) /\ Moved(asks', asks, {}, n, {}) /\ Len(asks') <= Len(asks) + 1 /\ Len(asks') \in Nat
  <2>1. CASE n = {} /\ asks' = asks
    BY <1>1, <2>1, NothingMoves
  <2>2. CASE n = {c} /\ asks' = Append(asks, c)
    <3>1. Aging(asks, asks, {})
      BY SelfHeirs
    <3>2. Append(asks, c) \in Seq(MailCall) /\ Moved(Append(asks, c), asks, {}, {c}, {}) /\ Len(Append(asks, c)) = Len(asks) + 1
      BY <1>1, <3>1, GrowsMoved
    <3> QED
      BY <1>1, <2>2, <3>2
  <2> QED
    BY <2>1, <2>2
<1>4. Traffic({}, n, {i}, {}, k)
  BY <1>2, <1>3 DEF Traffic
<1>5. \A d \in n \cup {} : WellSent(d)
  OBVIOUS
<1>6. (\A j \in DOMAIN asks' : WellSent(asks'[j])) /\ \A j \in DOMAIN answers' : WellSent(answers'[j])
  BY <1>4, <1>5, StaySent
<1>7. Len(asks') + Len(answers') <= MaxMailCalls + 1
  BY <1>1, <1>2, <1>3, MailPageAssumption
<1> QED
  BY <1>2, <1>3, <1>4, <1>6, <1>7

\* The types, when what is sent is typed.
LEMMA ArrivedTypes ==
  ASSUME MailTyped, asks' \in Seq(MailCall), answers' \in Seq(MailCall), Len(asks') + Len(answers') <= MaxMailCalls + 1,
         (\A j \in DOMAIN asks' : WellSent(asks'[j])) /\ \A j \in DOMAIN answers' : WellSent(answers'[j]),
         UNCHANGED <<mailRows, mailZone, dismissed>>,
         resource' \in [{"instances", "domains"} -> ListState], connecting' \in DialogState,
         panel' \in [Panels -> [at : PanelState, rows : SUBSET (BoxNames \cup AliasNames \cup ZoneStatus)]],
         shownStatus' \in ZoneStatus, rowBusy' \in BOOLEAN, password' \in ShownSecret,
         unshown' \subseteq BoxNames, blurred' \subseteq Panels \cup {"status"}
  PROVE  MailTyped'
<1>1. \A p \in Panels : panel'[p].at \in PanelState
  OBVIOUS
<1>2. MailPageTypeOK'
  BY <1>1 DEF MailTyped, MailPageTypeOK
<1> QED
  BY <1>2 DEF MailTyped

\* An answer that changes nothing of what the row shows.
LEMMA RowIsLeftAlone ==
  ASSUME MailInv, NEW i \in DOMAIN answers, NEW n, NEW k, Traffic({}, n, {i}, {}, k),
         \A c \in n : ~Waits(c, {"status"}),
         \A p \in Panels : ~LoadOf(answers[i], p) /\ (Wrote(answers[i], p) => \E c \in n : LoadOf(c, p)),
         ~Verifies(answers[i]), UNCHANGED <<serverSide, panel, shownStatus, blurred>>
  PROVE  (\A p \in Lists : ListFollows(p)') /\ StatusFollows' /\ RecordsFollow'
<1>0. MailTyped /\ (\A p \in Lists : ListFollows(p)) /\ StatusFollows /\ RecordsFollow
  BY DEF MailInv
<1>4. mailRows' = mailRows /\ mailZone' = mailZone /\ panel' = panel /\ shownStatus' = shownStatus /\ blurred' = blurred
  BY DEF serverSide
<1>5. ~LoadOf(answers[i], "dns") /\ \A p \in Lists : ~LoadOf(answers[i], p) /\ (Wrote(answers[i], p) => \E c \in n : LoadOf(c, p))
  BY MailPanels DEF Panels
<1>11. ASSUME NEW p \in Lists PROVE ListFollows(p)'
  BY <1>0, <1>4, <1>5, ListStays
<1>12. StatusFollows'
  <2>1. mailZone.verdict \in ZoneStatus /\ (mailZone'.verdict \in Settled => mailZone'.records = mailZone'.verdict)
    BY <1>0, <1>4 DEF StatusFollows, MailTyped
  <2> QED
    BY <1>0, <1>4, <2>1, StatusStays
<1>13. RecordsFollow'
  <2>1. RecordsMatter' => RecordsMatter
    BY <1>4, MatterStays
  <2> QED
    BY <1>0, <1>4, <1>5, <2>1, RecordsStay
<1> QED
  BY <1>11, <1>12, <1>13

\* A panel reads its rows.
LEMMA LoadIsTaken == ASSUME MailInv, NEW i \in DOMAIN answers, ArriveLoad(i) PROVE MailInv'
<1>0. MailTyped /\ Mounted /\ OneForm /\ PasswordKept /\ (\A p \in Lists : ListFollows(p)) /\ StatusFollows /\ RecordsFollow
  BY DEF MailInv
<1> DEFINE a == answers[i]
<1>1. /\ a.kind = "load" /\ ~a.dead /\ answers' = RemoveAt(Older(answers, i), i)
      /\ panel' = [panel EXCEPT ![a.of] = [at |-> "shown", rows |-> a.gives]]
      /\ blurred' = IF a.ok /\ ~a.old THEN blurred \ {a.of} ELSE blurred \cup {a.of}
      /\ UNCHANGED <<serverSide, resource, shownStatus, rowBusy, password, connecting, asks, dismissed, unshown, removed>>
  BY DEF ArriveLoad, Alive, Take, BlurredBy
<1>2. a \in MailCall /\ WellSent(a) /\ answers \in Seq(MailCall)
  BY <1>0, ElementOfSeq, LenProperties DEF MailTyped
<1>3. a.of \in Panels /\ LoadOf(a, a.of) /\ a.gives \in SUBSET (BoxNames \cup AliasNames \cup ZoneStatus) /\ "shown" \in PanelState
  BY <1>1, <1>2 DEF WellSent, LoadOf, Waits, MailCall, PanelState
<1> DEFINE old == {j \in DOMAIN answers : j < i /\ answers[j].of = answers[i].of}
<1>4. Older(answers, i) \in Seq(MailCall) /\ Aging(Older(answers, i), answers, old)
  BY <1>2, OlderMoved
<1> HIDE DEF old
<1>5. /\ asks' \in Seq(MailCall) /\ answers' \in Seq(MailCall) /\ Len(asks') + Len(answers') <= MaxMailCalls + 1
      /\ Traffic({}, {}, {i}, {}, old)
      /\ (\A j \in DOMAIN asks' : WellSent(asks'[j])) /\ \A j \in DOMAIN answers' : WellSent(answers'[j])
  BY <1>0, <1>1, <1>2, <1>4, MailTaken
<1>6. /\ panel' \in [Panels -> [at : PanelState, rows : SUBSET (BoxNames \cup AliasNames \cup ZoneStatus)]]
      /\ \A q \in Panels : panel'[q] = IF q = a.of THEN [at |-> "shown", rows |-> a.gives] ELSE panel[q]
  BY <1>0, <1>1, <1>3, PanelTypes
<1>7. /\ mailRows' = mailRows /\ mailZone' = mailZone /\ resource' = resource /\ connecting' = connecting /\ asks' = asks
      /\ shownStatus' = shownStatus /\ rowBusy' = rowBusy /\ password' = password /\ dismissed' = dismissed /\ unshown' = unshown
      /\ \A q : q # a.of => (q \in blurred <=> q \in blurred')
      /\ a.of \notin blurred' => Fresh(a)
  BY <1>1 DEF serverSide, Fresh
<1>8. RowShown
  BY <1>0, <1>1 DEF Mounted, OfRow, Waits, RowKinds
<1>9. MailTyped'
  <2>1. blurred' \subseteq Panels \cup {"status"}
    BY <1>0, <1>1, <1>3 DEF MailTyped, MailPageTypeOK
  <2> QED
    BY <1>0, <1>5, <1>6, <1>7, <2>1, ArrivedTypes DEF MailTyped, MailPageTypeOK
<1>14. \A q : q # a.of => ~LoadOf(answers[i], q) /\ ~Wrote(answers[i], q)
  BY <1>1 DEF LoadOf, Wrote, Waits
<1>15. ~Verifies(answers[i]) /\ ~Waits(answers[i], {"create"}) /\ \A q : ~Wrote(answers[i], q)
  BY <1>1 DEF Verifies, Waits, Wrote
<1>16. a.of # "status" /\ LoadOf(answers[i], a.of) /\ {j \in DOMAIN answers : j < i /\ answers[j].of = a.of} \subseteq old
       /\ panel'[a.of].rows = answers[i].gives /\ (a.of \notin blurred' => Fresh(answers[i]))
  BY <1>3, <1>6, <1>7 DEF Panels, Lists, old
<1> HIDE DEF a
<1>10. Mounted' /\ OneForm' /\ PasswordKept'
  BY <1>0, <1>5, <1>7, <1>8, <1>15, MountedStays, FormsStay, PasswordsStay
<1>11. ASSUME NEW p \in Lists PROVE ListFollows(p)'
  <2>1. CASE p = a.of
    BY <1>0, <1>5, <1>7, <1>16, <2>1, ListIsRead
  <2>2. CASE p # a.of
    <3>1. panel'[p] = panel[p] /\ (p \in blurred => p \in blurred') /\ ~LoadOf(answers[i], p) /\ ~Wrote(answers[i], p)
      BY <1>6, <1>7, <1>14, <2>2, MailPanels
    <3> QED
      BY <1>0, <1>5, <1>7, <3>1, ListStays
  <2> QED
    BY <2>1, <2>2
<1>12. StatusFollows'
  <2>1. mailZone.verdict \in ZoneStatus /\ (mailZone'.verdict \in Settled => mailZone'.records = mailZone'.verdict)
    BY <1>0, <1>7 DEF StatusFollows, MailTyped
  <2>2. "status" \in blurred => "status" \in blurred'
    BY <1>7, <1>16
  <2> QED
    BY <1>0, <1>5, <1>7, <1>15, <2>1, <2>2, StatusStays
<1>13. RecordsFollow'
  <2>1. CASE a.of = "dns"
    BY <1>0, <1>5, <1>7, <1>16, <2>1, RecordsAreRead
  <2>2. CASE a.of # "dns"
    <3>1. panel'["dns"] = panel["dns"] /\ ("dns" \in blurred => "dns" \in blurred') /\ ~LoadOf(answers[i], "dns")
          /\ ("status" \in blurred => "status" \in blurred')
      BY <1>6, <1>7, <1>14, <1>16, <2>2 DEF Panels
    <3>2. RecordsMatter' => RecordsMatter
      BY <1>5, <1>7, <1>15, <3>1, MatterStays
    <3> QED
      BY <1>0, <1>5, <1>7, <3>1, <3>2, RecordsStay
  <2> QED
    BY <2>1, <2>2
<1> QED
  BY <1>9, <1>10, <1>11, <1>12, <1>13 DEF MailInv

\* The row reads its status.
LEMMA StatusIsTaken == ASSUME MailInv, NEW i \in DOMAIN answers, ArriveStatus(i) PROVE MailInv'
<1>0. MailTyped /\ Mounted /\ OneForm /\ PasswordKept /\ (\A p \in Lists : ListFollows(p)) /\ StatusFollows /\ RecordsFollow
  BY DEF MailInv
<1> DEFINE a == answers[i]
<1>1. /\ a.kind = "status" /\ ~a.dead /\ answers' = RemoveAt(Older(answers, i), i)
      /\ shownStatus' = IF a.ok THEN CHOOSE v \in a.gives : TRUE ELSE shownStatus
      /\ blurred' = IF a.ok THEN (IF a.ok /\ ~a.old THEN blurred \ {a.of} ELSE blurred \cup {a.of}) ELSE blurred
      /\ UNCHANGED <<serverSide, resource, panel, rowBusy, password, connecting, asks, dismissed, unshown, removed>>
  BY DEF ArriveStatus, Alive, Take, BlurredBy
<1>2. a \in MailCall /\ WellSent(a) /\ answers \in Seq(MailCall) /\ a.of = "status"
  BY <1>0, <1>1, ElementOfSeq, LenProperties DEF MailTyped, WellSent
<1> DEFINE old == {j \in DOMAIN answers : j < i /\ answers[j].of = answers[i].of}
<1>4. Older(answers, i) \in Seq(MailCall) /\ Aging(Older(answers, i), answers, old)
  BY <1>2, OlderMoved
<1>3. \A j \in DOMAIN answers : j < i /\ answers[j].kind = "status" => j \in old
  BY <1>0, <1>2 DEF MailTyped, WellSent
<1> HIDE DEF old
<1>5. /\ asks' \in Seq(MailCall) /\ answers' \in Seq(MailCall) /\ Len(asks') + Len(answers') <= MaxMailCalls + 1
      /\ Traffic({}, {}, {i}, {}, old)
      /\ (\A j \in DOMAIN asks' : WellSent(asks'[j])) /\ \A j \in DOMAIN answers' : WellSent(answers'[j])
  BY <1>0, <1>1, <1>2, <1>4, MailTaken
<1>7. /\ mailRows' = mailRows /\ mailZone' = mailZone /\ resource' = resource /\ connecting' = connecting /\ asks' = asks
      /\ panel' = panel /\ rowBusy' = rowBusy /\ password' = password /\ dismissed' = dismissed /\ unshown' = unshown
      /\ \A q : q # "status" => (q \in blurred <=> q \in blurred')
      /\ "status" \notin blurred' => (a.ok => Fresh(a)) /\ (~a.ok => "status" \notin blurred)
  BY <1>1, <1>2 DEF serverSide, Fresh
<1>8. RowShown
  BY <1>0, <1>1 DEF Mounted, OfRow, Waits, RowKinds
<1>16. Waits(answers[i], {"status"}) /\ Waits(answers[i], Reading)
  BY <1>1 DEF Waits, Reading
<1>17. shownStatus' \in ZoneStatus
  <2>1. CASE a.ok
    <3>1. PICK v \in ZoneStatus : a.gives = {v}
      BY <1>0, <1>16, <2>1 DEF StatusFollows
    <3> QED
      BY <1>1, <2>1, <3>1
  <2>2. CASE ~a.ok
    BY <1>0, <1>1, <2>2 DEF MailTyped, MailPageTypeOK
  <2> QED
    BY <2>1, <2>2
<1>9. MailTyped'
  <2>1. blurred' \subseteq Panels \cup {"status"}
    BY <1>0, <1>1, <1>2 DEF MailTyped, MailPageTypeOK
  <2> QED
    BY <1>0, <1>5, <1>7, <1>17, <2>1, ArrivedTypes DEF MailTyped, MailPageTypeOK
<1>14. \A q : ~LoadOf(answers[i], q) /\ ~Wrote(answers[i], q)
  BY <1>1 DEF LoadOf, Wrote, Waits
<1>15. ~Waits(answers[i], {"create"})
  BY <1>1 DEF Waits
<1>18. shownStatus' = IF answers[i].ok THEN CHOOSE v \in answers[i].gives : TRUE ELSE shownStatus
  BY <1>1
<1> HIDE DEF a
<1>10. Mounted' /\ OneForm' /\ PasswordKept'
  BY <1>0, <1>5, <1>7, <1>8, <1>15, MountedStays, FormsStay, PasswordsStay
<1>11. ASSUME NEW p \in Lists PROVE ListFollows(p)'
  <2>1. p \in blurred => p \in blurred'
    BY <1>7, MailPanels
  <2> QED
    BY <1>0, <1>5, <1>7, <1>14, <2>1, ListStays
<1>12. StatusFollows'
  BY <1>0, <1>3, <1>5, <1>7, <1>16, <1>18, StatusIsRead DEF a
<1>13. RecordsFollow'
  <2>1. RecordsMatter' => RecordsMatter
    BY <1>7, <1>16 DEF RecordsMatter
  <2> QED
    BY <1>0, <1>5, <1>7, <1>14, <2>1, RecordsStay
<1> QED
  BY <1>9, <1>10, <1>11, <1>12, <1>13 DEF MailInv

\* The list of domains is read again for a panel.
LEMMA ReloadTyped ==
  ASSUME NEW p \in Panels
  PROVE  \E c \in MailCall : /\ c = MailAsk("load", p, "none") /\ WellSent(c) /\ LoadOf(c, p) /\ ~Waits(c, {"status"}) /\ ~Waits(c, Writing)
                             /\ ~OfCard(c) /\ c.kind = "load"
<1> DEFINE c == MailAsk("load", p, "none")
<1>1. c \in MailCall /\ c.kind = "load" /\ c.of = p /\ ~c.dead
  BY MailAskTyped DEF MailKinds, RowKinds
<1> HIDE DEF c
<1>2. WellSent(c) /\ LoadOf(c, p) /\ ~Waits(c, {"status"}) /\ ~Waits(c, Writing) /\ ~OfCard(c)
  BY <1>1 DEF WellSent, LoadOf, Waits, Writing, OfCard, CardKinds
<1> QED
  BY <1>1, <1>2 DEF c

\* The server's answer to a request to verify.
LEMMA VerifyIsTaken == ASSUME MailInv, NEW i \in DOMAIN answers, ArriveVerify(i) PROVE MailInv'
<1>0. MailTyped /\ Mounted /\ OneForm /\ PasswordKept /\ (\A p \in Lists : ListFollows(p)) /\ StatusFollows /\ RecordsFollow
  BY DEF MailInv
<1> DEFINE a == answers[i]
           u == [j \in DOMAIN answers |->
                   IF j < i /\ answers[j].of = "status" /\ a.ok THEN [answers[j] EXCEPT !.old = TRUE] ELSE answers[j]]
           old == {j \in DOMAIN answers : j < i /\ answers[j].of = "status" /\ a.ok}
<1>1. /\ a.kind = "verify" /\ ~a.dead /\ answers' = RemoveAt(u, i) /\ rowBusy' = FALSE
      /\ shownStatus' = IF a.ok THEN "verifying" ELSE shownStatus
      /\ asks' = IF a.ok /\ a.name = "reload" THEN Append(asks, MailAsk("load", "dns", "none")) ELSE asks
      /\ UNCHANGED <<serverSide, resource, panel, password, connecting, ghosts>>
  BY DEF ArriveVerify, Alive, Reload
<1>2. a \in MailCall /\ WellSent(a) /\ answers \in Seq(MailCall)
  BY <1>0, <1>1, ElementOfSeq, LenProperties DEF MailTyped
<1>3. \A j \in DOMAIN answers : answers[i].ok /\ j < i /\ answers[j].kind = "status" => j \in old
  BY <1>0 DEF MailTyped, WellSent
<1>4. u \in Seq(MailCall) /\ Aging(u, answers, old)
  <2>1. DOMAIN u = DOMAIN answers
    OBVIOUS
  <2>2. ASSUME NEW k \in DOMAIN answers
        PROVE  u[k] \in MailCall /\ Heir(u[k], answers[k]) /\ (k \in old => u[k].old)
    <3>1. answers[k] \in MailCall
      BY <1>2, ElementOfSeq, LenProperties
    <3>2. u[k] = IF k < i /\ answers[k].of = "status" /\ a.ok THEN [answers[k] EXCEPT !.old = TRUE] ELSE answers[k]
      OBVIOUS
    <3>3. k \in old <=> (k < i /\ answers[k].of = "status" /\ a.ok)
      OBVIOUS
    <3> HIDE DEF u, old
    <3>4. CASE k < i /\ answers[k].of = "status" /\ a.ok
      <4>1. u[k] = [answers[k] EXCEPT !.old = TRUE]
        BY <3>2, <3>4
      <4> QED
        BY <3>1, <4>1 DEF MailCall, Heir
    <3>5. CASE ~(k < i /\ answers[k].of = "status" /\ a.ok)
      BY <3>1, <3>2, <3>3, <3>5 DEF Heir
    <3> QED
      BY <3>4, <3>5
  <2>3. u \in Seq(MailCall)
    <3>1. DOMAIN answers = 1..Len(answers) /\ Len(answers) \in Nat
      BY <1>2, LenProperties
    <3>2. u = [k \in 1..Len(answers) |-> u[k]]
      BY <2>1, <3>1
    <3> HIDE DEF u
    <3> QED
      BY <2>1, <2>2, <3>1, <3>2
  <2> HIDE DEF u, old
  <2> QED
    BY <2>1, <2>2, <2>3 DEF Aging
<1> HIDE DEF old, u
<1>5. PICK c \in MailCall : /\ c = MailAsk("load", "dns", "none") /\ WellSent(c) /\ LoadOf(c, "dns") /\ ~Waits(c, {"status"})
                            /\ ~Waits(c, Writing) /\ ~OfCard(c) /\ c.kind = "load"
  BY ReloadTyped DEF Panels
<1> DEFINE n == IF a.ok /\ a.name = "reload" THEN {c} ELSE {}
<1>6. (n = {} /\ asks' = asks) \/ (n = {c} /\ asks' = Append(asks, c))
  BY <1>1, <1>5
<1>21. \A d \in n : d = c
  OBVIOUS
<1> HIDE DEF n
<1>22. \A d \in n : WellSent(d) /\ ~Waits(d, {"status"}) /\ ~Waits(d, Writing) /\ ~OfCard(d)
  BY <1>5, <1>21
<1>7. /\ asks' \in Seq(MailCall) /\ answers' \in Seq(MailCall) /\ Len(asks') + Len(answers') <= MaxMailCalls + 1
      /\ Traffic({}, n, {i}, {}, old)
      /\ (\A j \in DOMAIN asks' : WellSent(asks'[j])) /\ \A j \in DOMAIN answers' : WellSent(answers'[j])
  BY <1>0, <1>1, <1>4, <1>5, <1>6, MailTaken
<1>8. /\ mailRows' = mailRows /\ mailZone' = mailZone /\ resource' = resource /\ connecting' = connecting
      /\ panel' = panel /\ password' = password /\ dismissed' = dismissed /\ unshown' = unshown /\ blurred' = blurred
  BY <1>1 DEF serverSide, ghosts
<1>9. RowShown
  BY <1>0, <1>1 DEF Mounted, OfRow, Waits, RowKinds
<1>10. MailTyped'
  <2>1. shownStatus' \in ZoneStatus /\ rowBusy' \in BOOLEAN
    BY <1>0, <1>1 DEF MailTyped, MailPageTypeOK, ZoneStatus
  <2> QED
    BY <1>0, <1>7, <1>8, <2>1, ArrivedTypes DEF MailTyped, MailPageTypeOK
<1>11. Mounted'
  <2>1. \A d \in n \cup {} : (OfCard(d) => CardShown) /\ (OfRow(d) => RowShown)
    BY <1>9, <1>22
  <2> QED
    BY <1>0, <1>7, <1>8, <1>9, <2>1, MountedStays
<1>12. OneForm'
  <2>1. Waits(answers[i], Writing)
    BY <1>1 DEF Waits, Writing
  <2> QED
    BY <1>0, <1>7, <1>22, <2>1, FormEnds
<1>15. ~Waits(answers[i], {"create"}) /\ answers[i].kind = "verify"
  BY <1>1 DEF Waits
<1>13. PasswordKept'
  BY <1>0, <1>7, <1>8, <1>15, PasswordsStay
<1>14. \A q : ~LoadOf(answers[i], q) /\ ~Wrote(answers[i], q)
  BY <1>1 DEF LoadOf, Wrote, Waits
<1>16. ASSUME NEW p \in Lists PROVE ListFollows(p)'
  BY <1>0, <1>7, <1>8, <1>14, ListStays
<1>17. shownStatus' = IF answers[i].ok THEN "verifying" ELSE shownStatus
  BY <1>1
<1>18. StatusFollows'
  BY <1>0, <1>3, <1>7, <1>8, <1>15, <1>17, StatusIsVerified
<1>19. RecordsFollow'
  <2>1. RecordsMatter' => RecordsMatter
    <3>1. CASE answers[i].ok
      <4>1. shownStatus' \notin Settled
        BY <1>17, <3>1 DEF Settled
      <4>2. \A j \in DOMAIN asks' : asks'[j] \in n \/ \E l \in DOMAIN asks \ {} : Heir(asks'[j], asks[l])
        BY <1>7, TrafficHeirs
      <4>3. \A j \in DOMAIN answers' :
              answers'[j] \in {} \/ \E l \in DOMAIN answers \ {i} : Heir(answers'[j], answers[l]) /\ (l \in old => answers'[j].old)
        BY <1>7, TrafficHeirs
      <4>4. ASSUME NEW b, NEW d, Heir(d, b), Waits(d, {"status"}) PROVE Waits(b, {"status"})
        BY <4>4 DEF Heir, Waits
      <4> QED
        BY <1>8, <1>22, <4>1, <4>2, <4>3, <4>4 DEF RecordsMatter
    <3>2. CASE ~answers[i].ok
      <4>1. ~Verifies(answers[i])
        BY <3>2 DEF Verifies
      <4> QED
        BY <1>7, <1>8, <1>17, <1>22, <3>2, <4>1, MatterStays
    <3> QED
      BY <3>1, <3>2
  <2> QED
    BY <1>0, <1>7, <1>8, <1>14, <2>1, RecordsStay
<1> QED
  BY <1>10, <1>11, <1>12, <1>13, <1>16, <1>18, <1>19 DEF MailInv

\* A password comes.
LEMMA CreateIsTaken == ASSUME MailInv, NEW i \in DOMAIN answers, ArriveCreate(i) PROVE MailInv'
<1>0. MailTyped /\ Mounted /\ OneForm /\ PasswordKept
  BY DEF MailInv
<1> DEFINE a == answers[i]
<1>1. /\ a.kind = "create" /\ ~a.dead /\ answers' = RemoveAt(answers, i) /\ rowBusy' = FALSE
      /\ password' = IF a.ok /\ a.of = "mailboxes" THEN a.name ELSE password
      /\ asks' = IF a.ok THEN Append(asks, MailAsk("load", a.of, "none")) ELSE asks
      /\ UNCHANGED <<serverSide, resource, panel, shownStatus, connecting, ghosts>>
  BY DEF ArriveCreate, Alive, Reload
<1>2. a \in MailCall /\ WellSent(a) /\ answers \in Seq(MailCall) /\ Aging(answers, answers, {})
  BY <1>0, <1>1, SelfHeirs, ElementOfSeq, LenProperties DEF MailTyped
<1>3. a.of \in Lists /\ a.of \in Panels /\ (a.of = "mailboxes" => a.name \in BoxNames)
  BY <1>1, <1>2 DEF WellSent, Lists, Panels
<1>4. PICK c \in MailCall : /\ c = MailAsk("load", a.of, "none") /\ WellSent(c) /\ LoadOf(c, a.of) /\ ~Waits(c, {"status"})
                            /\ ~Waits(c, Writing) /\ ~OfCard(c) /\ c.kind = "load"
  BY <1>3, ReloadTyped
<1> DEFINE n == IF a.ok THEN {c} ELSE {}
<1>5. (n = {} /\ asks' = asks) \/ (n = {c} /\ asks' = Append(asks, c))
  BY <1>1, <1>4
<1>6. /\ \A d \in n : WellSent(d) /\ ~Waits(d, {"status"}) /\ ~Waits(d, Writing) /\ ~OfCard(d)
      /\ a.ok => \E d \in n : LoadOf(d, a.of)
  BY <1>4
<1> HIDE DEF n
<1>7. /\ asks' \in Seq(MailCall) /\ answers' \in Seq(MailCall) /\ Len(asks') + Len(answers') <= MaxMailCalls + 1
      /\ Traffic({}, n, {i}, {}, {})
      /\ (\A j \in DOMAIN asks' : WellSent(asks'[j])) /\ \A j \in DOMAIN answers' : WellSent(answers'[j])
  BY <1>0, <1>1, <1>2, <1>4, <1>5, MailTaken
<1>8. /\ mailRows' = mailRows /\ mailZone' = mailZone /\ resource' = resource /\ connecting' = connecting
      /\ panel' = panel /\ shownStatus' = shownStatus /\ dismissed' = dismissed /\ unshown' = unshown /\ blurred' = blurred
      /\ UNCHANGED <<serverSide, panel, shownStatus, blurred>>
  BY <1>1 DEF serverSide, ghosts
<1>9. RowShown
  BY <1>0, <1>1 DEF Mounted, OfRow, Waits, RowKinds
<1>10. MailTyped'
  <2>1. password' \in ShownSecret /\ rowBusy' \in BOOLEAN
    BY <1>0, <1>1, <1>3 DEF MailTyped, MailPageTypeOK, ShownSecret
  <2> QED
    BY <1>0, <1>7, <1>8, <2>1, ArrivedTypes DEF MailTyped, MailPageTypeOK
<1>11. Mounted'
  <2>1. \A d \in n \cup {} : (OfCard(d) => CardShown) /\ (OfRow(d) => RowShown)
    BY <1>6, <1>9
  <2> QED
    BY <1>0, <1>7, <1>8, <1>9, <2>1, MountedStays
<1>12. Waits(answers[i], Writing)
  BY <1>1 DEF Waits, Writing
<1>13. OneForm'
  BY <1>0, <1>6, <1>7, <1>12, FormEnds
<1>14. PasswordKept'
  <2>1. \A l \in DOMAIN answers \ {i} : \E j \in DOMAIN answers' : Heir(answers'[j], answers[l])
    BY <1>7, TrafficHeirs
  <2>2. password = "none"
    BY <1>0, <1>12 DEF OneForm
  <2> SUFFICES ASSUME NEW b \in mailRows["mailboxes"], b \notin dismissed \cup unshown \cup {password'}
               PROVE  \E j \in DOMAIN answers' : Brings(answers'[j], b)
    BY <1>8 DEF PasswordKept
  <2>3. b \in BoxNames /\ b # "none"
    BY <1>0, MailPageAssumption DEF MailTyped, MailPageTypeOK
  <2>4. PICK l \in DOMAIN answers : Brings(answers[l], b)
    BY <1>0, <2>2, <2>3 DEF PasswordKept
  <2>5. l # i
    BY <1>1, <2>4 DEF Brings
  <2>6. PICK j \in DOMAIN answers' : Heir(answers'[j], answers[l])
    BY <2>1, <2>5
  <2> QED
    BY <2>4, <2>6 DEF Heir, Brings, Waits
<1>15. /\ \A p \in Panels : ~LoadOf(answers[i], p) /\ (Wrote(answers[i], p) => \E d \in n : LoadOf(d, p))
       /\ ~Verifies(answers[i])
  BY <1>1, <1>6 DEF LoadOf, Wrote, Waits, Verifies
<1> HIDE DEF a
<1>16. (\A p \in Lists : ListFollows(p)') /\ StatusFollows' /\ RecordsFollow'
  BY <1>6, <1>7, <1>8, <1>15, RowIsLeftAlone
<1> QED
  BY <1>10, <1>11, <1>13, <1>14, <1>16 DEF MailInv

\* An answer that nothing of the row or its card waits for, or only to ask for something else.
LEMMA AnswerIsTaken ==
  ASSUME MailInv, NEW i \in DOMAIN answers, NEW u \in Seq(MailCall), NEW k, Aging(u, answers, k), answers' = RemoveAt(u, i),
         NEW c \in MailCall, NEW n, (n = {} /\ asks' = asks) \/ (n = {c} /\ asks' = Append(asks, c)), WellSent(c),
         ~Waits(c, {"status"}), ~Waits(c, Writing), (n = {c} /\ OfCard(c)) => CardShown, OfRow(c) => RowShown,
         \A p \in Panels : ~LoadOf(answers[i], p) /\ (Wrote(answers[i], p) => \E d \in n : LoadOf(d, p)),
         ~Verifies(answers[i]), ~Waits(answers[i], {"create"}),
         UNCHANGED <<serverSide, resource, rowSide, ghosts>>, connecting' \in DialogState
  PROVE  MailInv'
<1>0. MailTyped /\ Mounted /\ OneForm /\ PasswordKept
  BY DEF MailInv
<1>1. /\ asks' \in Seq(MailCall) /\ answers' \in Seq(MailCall) /\ Len(asks') + Len(answers') <= MaxMailCalls + 1
      /\ Traffic({}, n, {i}, {}, k)
      /\ (\A j \in DOMAIN asks' : WellSent(asks'[j])) /\ \A j \in DOMAIN answers' : WellSent(answers'[j])
  BY <1>0, MailTaken
<1>2. /\ mailRows' = mailRows /\ mailZone' = mailZone /\ resource' = resource
      /\ panel' = panel /\ shownStatus' = shownStatus /\ rowBusy' = rowBusy /\ password' = password
      /\ dismissed' = dismissed /\ unshown' = unshown /\ blurred' = blurred
      /\ UNCHANGED <<serverSide, panel, shownStatus, blurred>>
  BY DEF serverSide, rowSide, ghosts
<1>3. \A d \in n : d = c /\ n = {c}
  OBVIOUS
<1>4. MailTyped'
  BY <1>0, <1>1, <1>2, ArrivedTypes DEF MailTyped, MailPageTypeOK
<1>5. Mounted'
  <2>1. \A d \in n \cup {} : (OfCard(d) => CardShown) /\ (OfRow(d) => RowShown)
    BY <1>3
  <2> QED
    BY <1>0, <1>1, <1>2, <2>1, MountedStays
<1>6. OneForm'
  BY <1>0, <1>1, <1>2, <1>3, FormsStay
<1>7. PasswordKept'
  BY <1>0, <1>1, <1>2, PasswordsStay
<1>8. \A d \in n : ~Waits(d, {"status"})
  BY <1>3
<1>9. (\A p \in Lists : ListFollows(p)') /\ StatusFollows' /\ RecordsFollow'
  BY <1>1, <1>2, <1>8, RowIsLeftAlone
<1> QED
  BY <1>4, <1>5, <1>6, <1>7, <1>9 DEF MailInv

LEMMA ListAskTyped ==
  ASSUME NEW l \in {"instances", "domains"}
  PROVE  \E c \in MailCall : /\ c = MailAsk("list", l, "none") /\ WellSent(c) /\ ~Waits(c, {"status"}) /\ ~Waits(c, Writing)
                             /\ ~OfRow(c) /\ (OfCard(c) => l = "domains") /\ c.kind = "list"
<1> DEFINE c == MailAsk("list", l, "none")
<1>1. c \in MailCall /\ c.kind = "list" /\ c.of = l /\ ~c.dead
  <2>1. "list" \in MailKinds /\ l \in Panels \cup {"status", "instances", "domains"}
    BY DEF MailKinds
  <2> QED
    BY <2>1, MailAskTyped
<1> HIDE DEF c
<1>2. WellSent(c) /\ ~Waits(c, {"status"}) /\ ~Waits(c, Writing) /\ ~OfRow(c) /\ (OfCard(c) => l = "domains")
  BY <1>1 DEF WellSent, Waits, Writing, OfRow, RowKinds, OfCard, CardKinds
<1> QED
  BY <1>1, <1>2 DEF c

LEMMA DeleteIsTaken == ASSUME MailInv, NEW i \in DOMAIN answers, ArriveDelete(i) PROVE MailInv'
<1>0. MailTyped /\ Mounted
  BY DEF MailInv
<1> DEFINE a == answers[i]
<1>1. /\ a.kind = "delete" /\ ~a.dead /\ answers' = RemoveAt(answers, i)
      /\ asks' = IF a.ok THEN Append(asks, MailAsk("load", a.of, "none")) ELSE asks
      /\ UNCHANGED <<serverSide, resource, rowSide, connecting, ghosts>>
  BY DEF ArriveDelete, Alive, Reload
<1>2. a \in MailCall /\ WellSent(a) /\ answers \in Seq(MailCall) /\ Aging(answers, answers, {})
  BY <1>0, <1>1, SelfHeirs, ElementOfSeq, LenProperties DEF MailTyped
<1>3. a.of \in Panels
  BY <1>1, <1>2 DEF WellSent, Lists, Panels
<1>4. PICK c \in MailCall : /\ c = MailAsk("load", a.of, "none") /\ WellSent(c) /\ LoadOf(c, a.of) /\ ~Waits(c, {"status"})
                            /\ ~Waits(c, Writing) /\ ~OfCard(c) /\ c.kind = "load"
  BY <1>3, ReloadTyped
<1> DEFINE n == IF a.ok THEN {c} ELSE {}
<1>5. (n = {} /\ asks' = asks) \/ (n = {c} /\ asks' = Append(asks, c))
  BY <1>1, <1>4
<1>6. a.ok => \E d \in n : LoadOf(d, a.of)
  BY <1>4
<1> HIDE DEF n
<1>9. RowShown
  BY <1>0, <1>1 DEF Mounted, OfRow, Waits, RowKinds
<1>15. /\ \A p \in Panels : ~LoadOf(answers[i], p) /\ (Wrote(answers[i], p) => \E d \in n : LoadOf(d, p))
       /\ ~Verifies(answers[i]) /\ ~Waits(answers[i], {"create"})
  BY <1>1, <1>6 DEF LoadOf, Wrote, Waits, Verifies
<1>16. UNCHANGED <<serverSide, resource, rowSide, ghosts>> /\ connecting' \in DialogState /\ answers' = RemoveAt(answers, i)
  BY <1>0, <1>1 DEF MailTyped, MailPageTypeOK
<1> HIDE DEF a
<1> QED
  BY <1>2, <1>4, <1>5, <1>9, <1>15, <1>16, AnswerIsTaken

LEMMA AddDomainIsTaken == ASSUME MailInv, NEW i \in DOMAIN answers, ArriveAddDomain(i) PROVE MailInv'
<1>0. MailTyped /\ Mounted
  BY DEF MailInv
<1> DEFINE a == answers[i]
<1>1. /\ a.kind = "addDomain" /\ ~a.dead /\ answers' = RemoveAt(answers, i)
      /\ asks' = IF a.ok THEN Append(asks, MailAsk("list", "domains", "none")) ELSE asks
      /\ UNCHANGED <<serverSide, resource, rowSide, connecting, ghosts>>
  BY DEF ArriveAddDomain, Alive
<1>2. answers \in Seq(MailCall) /\ Aging(answers, answers, {})
  BY <1>0, SelfHeirs DEF MailTyped
<1>4. PICK c \in MailCall : /\ c = MailAsk("list", "domains", "none") /\ WellSent(c) /\ ~Waits(c, {"status"}) /\ ~Waits(c, Writing)
                            /\ ~OfRow(c) /\ c.kind = "list"
  BY ListAskTyped
<1> DEFINE n == IF a.ok THEN {c} ELSE {}
<1>5. (n = {} /\ asks' = asks) \/ (n = {c} /\ asks' = Append(asks, c))
  BY <1>1, <1>4
<1> HIDE DEF n
<1>9. CardShown
  BY <1>0, <1>1 DEF Mounted, OfCard, Waits, CardKinds
<1>15. /\ \A p \in Panels : ~LoadOf(answers[i], p) /\ ~Wrote(answers[i], p)
       /\ ~Verifies(answers[i]) /\ ~Waits(answers[i], {"create"})
  BY <1>1 DEF LoadOf, Wrote, Waits, Verifies
<1>16. UNCHANGED <<serverSide, resource, rowSide, ghosts>> /\ connecting' \in DialogState /\ answers' = RemoveAt(answers, i)
  BY <1>0, <1>1 DEF MailTyped, MailPageTypeOK
<1> HIDE DEF a
<1> QED
  BY <1>2, <1>4, <1>5, <1>9, <1>15, <1>16, AnswerIsTaken

LEMMA ConnectIsTaken == ASSUME MailInv, NEW i \in DOMAIN answers, ArriveConnect(i) PROVE MailInv'
<1>0. MailTyped /\ Mounted
  BY DEF MailInv
<1> DEFINE a == answers[i]
<1>1. /\ a.kind = "connect" /\ answers' = RemoveAt(answers, i)
      /\ connecting' = IF a.ok THEN "no" ELSE IF a.name = "left" THEN connecting ELSE "form"
      /\ asks' = IF a.ok THEN Append(asks, MailAsk("list", "instances", "none")) ELSE asks
      /\ UNCHANGED <<serverSide, resource, rowSide, ghosts>>
  BY DEF ArriveConnect
<1>2. answers \in Seq(MailCall) /\ Aging(answers, answers, {})
  BY <1>0, SelfHeirs DEF MailTyped
<1>4. PICK c \in MailCall : /\ c = MailAsk("list", "instances", "none") /\ WellSent(c) /\ ~Waits(c, {"status"}) /\ ~Waits(c, Writing)
                            /\ ~OfRow(c) /\ ~OfCard(c) /\ c.kind = "list"
  BY ListAskTyped
<1> DEFINE n == IF a.ok THEN {c} ELSE {}
<1>5. (n = {} /\ asks' = asks) \/ (n = {c} /\ asks' = Append(asks, c))
  BY <1>1, <1>4
<1> HIDE DEF n
<1>15. /\ \A p \in Panels : ~LoadOf(answers[i], p) /\ ~Wrote(answers[i], p)
       /\ ~Verifies(answers[i]) /\ ~Waits(answers[i], {"create"})
  BY <1>1 DEF LoadOf, Wrote, Waits, Verifies
<1>16. UNCHANGED <<serverSide, resource, rowSide, ghosts>> /\ connecting' \in DialogState /\ answers' = RemoveAt(answers, i)
  BY <1>0, <1>1 DEF MailTyped, MailPageTypeOK, DialogState
<1> HIDE DEF a
<1> QED
  BY <1>2, <1>4, <1>5, <1>15, <1>16, AnswerIsTaken

LEMMA DeadIsTaken == ASSUME MailInv, NEW i \in DOMAIN answers, ArriveDead(i) PROVE MailInv'
<1>0. MailTyped /\ Mounted
  BY DEF MailInv
<1>1. /\ answers[i].dead /\ answers' = RemoveAt(answers, i) /\ asks' = asks
      /\ UNCHANGED <<serverSide, resource, rowSide, connecting, ghosts>>
  BY DEF ArriveDead
<1>2. answers \in Seq(MailCall) /\ Aging(answers, answers, {})
  BY <1>0, SelfHeirs DEF MailTyped
<1>4. PICK c \in MailCall : /\ c = MailAsk("list", "instances", "none") /\ WellSent(c) /\ ~Waits(c, {"status"}) /\ ~Waits(c, Writing)
                            /\ ~OfRow(c) /\ ~OfCard(c) /\ c.kind = "list"
  BY ListAskTyped
<1> DEFINE n == {}
<1>5. (n = {} /\ asks' = asks) \/ (n = {c} /\ asks' = Append(asks, c))
  BY <1>1
<1>15. /\ \A p \in Panels : ~LoadOf(answers[i], p) /\ ~Wrote(answers[i], p)
       /\ ~Verifies(answers[i]) /\ ~Waits(answers[i], {"create"})
  BY <1>1 DEF LoadOf, Wrote, Waits, Verifies
<1>16. UNCHANGED <<serverSide, resource, rowSide, ghosts>> /\ connecting' \in DialogState
  BY <1>0, <1>1 DEF MailTyped, MailPageTypeOK
<1> HIDE DEF n
<1> QED
  BY <1>1, <1>2, <1>4, <1>5, <1>15, <1>16, AnswerIsTaken

\* The page stays mounted where a list was read again.
LEMMA MountedAgain ==
  ASSUME Mounted, NEW n, NEW i \in DOMAIN answers, NEW k, Traffic({}, n, {i}, {}, k),
         ~CardShown' => ~CardShown /\ resource'["domains"] = Unread,
         ~RowShown' => ~RowShown /\ panel' = panel /\ shownStatus' = shownStatus /\ rowBusy' = rowBusy /\ password' = password,
         \A c \in n : (OfCard(c) => CardShown') /\ ~OfRow(c)
  PROVE  Mounted'
<1>1. \A j \in DOMAIN asks' : asks'[j] \in n \/ \E l \in DOMAIN asks \ {} : Heir(asks'[j], asks[l])
  BY TrafficHeirs
<1>2. \A j \in DOMAIN answers' :
        answers'[j] \in {} \/ \E l \in DOMAIN answers \ {i} : Heir(answers'[j], answers[l]) /\ (l \in k => answers'[j].old)
  BY TrafficHeirs
<1>3. ASSUME NEW a, NEW b, Heir(b, a) PROVE (OfRow(b) = OfRow(a)) /\ (OfCard(b) = OfCard(a))
  BY <1>3 DEF OfRow, OfCard, Heir, Waits
<1>4. ASSUME ~CardShown'
      PROVE  /\ resource'["domains"] = Unread
             /\ \A j \in DOMAIN asks' : ~OfCard(asks'[j])
             /\ \A j \in DOMAIN answers' : ~OfCard(answers'[j])
  BY <1>1, <1>2, <1>3, <1>4 DEF Mounted
<1>5. ASSUME ~RowShown'
      PROVE  /\ panel' = AllClosed /\ shownStatus' = "pending" /\ ~rowBusy' /\ password' = "none"
             /\ \A j \in DOMAIN asks' : ~OfRow(asks'[j])
             /\ \A j \in DOMAIN answers' : ~OfRow(answers'[j])
  BY <1>1, <1>2, <1>3, <1>5 DEF Mounted
<1> QED
  BY <1>4, <1>5 DEF Mounted

LEMMA DeadTyped ==
  ASSUME NEW s \in Seq(MailCall), NEW gone
  PROVE  /\ Dead(s, gone) \in Seq(MailCall) /\ DOMAIN Dead(s, gone) = DOMAIN s /\ Len(Dead(s, gone)) = Len(s)
         /\ \A k \in DOMAIN s :
              /\ Dead(s, gone)[k].kind = s[k].kind /\ Dead(s, gone)[k].of = s[k].of /\ Dead(s, gone)[k].name = s[k].name
              /\ ~Dead(s, gone)[k].dead =>
                   /\ Dead(s, gone)[k] = s[k] /\ s[k].kind \notin gone
                   /\ ~(s[k].kind = "list" /\ s[k].of = "domains" /\ "addDomain" \in gone)
<1> DEFINE u == Dead(s, gone)
           hit(k) == s[k].kind \in gone \/ (s[k].kind = "list" /\ s[k].of = "domains" /\ "addDomain" \in gone)
<1>1. DOMAIN u = DOMAIN s /\ \A k \in DOMAIN s : u[k] = IF hit(k) THEN [s[k] EXCEPT !.dead = TRUE] ELSE s[k]
  BY DEF Dead
<1>2. u = [k \in DOMAIN s |-> u[k]]
  BY DEF Dead
<1> HIDE DEF u, hit
<1>3. ASSUME NEW k \in DOMAIN s
      PROVE  u[k] \in MailCall /\ u[k].kind = s[k].kind /\ u[k].of = s[k].of /\ u[k].name = s[k].name /\ (~u[k].dead => u[k] = s[k] /\ ~hit(k))
  <2>1. s[k] \in MailCall
    BY ElementOfSeq, LenProperties
  <2>2. CASE hit(k)
    <3>1. u[k] = [s[k] EXCEPT !.dead = TRUE]
      BY <1>1, <2>2
    <3> QED
      BY <2>1, <3>1 DEF MailCall
  <2>3. CASE ~hit(k)
    BY <1>1, <2>1, <2>3
  <2> QED
    BY <2>2, <2>3
<1>4. u \in Seq(MailCall)
  <2>1. DOMAIN s = 1..Len(s) /\ Len(s) \in Nat
    BY LenProperties
  <2>2. u = [k \in 1..Len(s) |-> u[k]]
    BY <1>2, <2>1
  <2> QED
    BY <1>3, <2>1, <2>2
<1>5. Len(u) = Len(s)
  <2>1. DOMAIN s = 1..Len(s) /\ Len(s) \in Nat /\ DOMAIN u = 1..Len(u) /\ Len(u) \in Nat
    BY <1>4, LenProperties
  <2> QED
    BY <1>1, <2>1, SameLength
<1> QED
  BY <1>1, <1>3, <1>4, <1>5 DEF u, hit

\* The row leaves, with its list or with its card.
LEMMA RowIsGone ==
  ASSUME MailInv, NEW i \in DOMAIN answers, answers[i].kind = "list", NEW gone, RowKinds \subseteq gone,
         RowLeaves, asks' = Dead(asks, gone), answers' = Dead(RemoveAt(answers, i), gone),
         UNCHANGED <<serverSide, connecting>>, resource' \in [{"instances", "domains"} -> ListState],
         CardShown' \/ (resource'["domains"] = Unread /\ CardKinds \subseteq gone)
  PROVE  MailInv'
<1>0. MailTyped /\ PasswordKept /\ StatusFollows
  BY DEF MailInv
<1>1. asks \in Seq(MailCall) /\ answers \in Seq(MailCall) /\ Len(asks) \in Nat /\ Len(answers) \in Nat
      /\ Len(asks) + Len(answers) <= MaxMailCalls + 1
  BY <1>0, LenProperties DEF MailTyped, MailPageTypeOK
<1> DEFINE s == RemoveAt(answers, i)
<1>2. s \in Seq(MailCall) /\ Shrunk(s, answers, i)
  BY <1>1, Shrinks
<1>3. answers' = Dead(s, gone)
  OBVIOUS
<1> HIDE DEF s
<1>4. \A m \in DOMAIN s : \E l \in DOMAIN answers : s[m] = answers[l]
  BY <1>2 DEF Shrunk
<1>5. asks' \in Seq(MailCall) /\ answers' \in Seq(MailCall) /\ Len(asks') + Len(answers') <= MaxMailCalls + 1
  <2>1. Len(asks') = Len(asks) /\ Len(answers') = Len(answers) - 1 /\ asks' \in Seq(MailCall) /\ answers' \in Seq(MailCall)
    BY <1>1, <1>2, <1>3, DeadTyped DEF Shrunk
  <2> QED
    BY <1>1, <2>1, MailPageAssumption
<1>6. ASSUME NEW a, NEW b, b.kind = a.kind, b.of = a.of, b.name = a.name, WellSent(a) PROVE WellSent(b)
  BY <1>6 DEF WellSent
<1>7. (\A j \in DOMAIN asks' : WellSent(asks'[j])) /\ \A j \in DOMAIN answers' : WellSent(answers'[j])
  <2>1. ASSUME NEW j \in DOMAIN asks' PROVE WellSent(asks'[j])
    <3>1. j \in DOMAIN asks /\ asks'[j].kind = asks[j].kind /\ asks'[j].of = asks[j].of /\ asks'[j].name = asks[j].name
      BY <1>1, DeadTyped
    <3> QED
      BY <1>0, <1>6, <3>1 DEF MailTyped
  <2>2. ASSUME NEW j \in DOMAIN answers' PROVE WellSent(answers'[j])
    <3>1. j \in DOMAIN s /\ answers'[j].kind = s[j].kind /\ answers'[j].of = s[j].of /\ answers'[j].name = s[j].name
      BY <1>2, <1>3, DeadTyped
    <3>2. PICK l \in DOMAIN answers : s[j] = answers[l]
      BY <1>4, <3>1
    <3> QED
      BY <1>0, <1>6, <3>1, <3>2 DEF MailTyped
  <2> QED
    BY <2>1, <2>2
<1>8. ASSUME NEW j \in DOMAIN asks', ~asks'[j].dead
      PROVE  asks'[j].kind \notin gone /\ ~(asks'[j].kind = "list" /\ asks'[j].of = "domains" /\ "addDomain" \in gone)
  BY <1>1, <1>8, DeadTyped
<1>9. ASSUME NEW j \in DOMAIN answers', ~answers'[j].dead
      PROVE  /\ answers'[j].kind \notin gone /\ ~(answers'[j].kind = "list" /\ answers'[j].of = "domains" /\ "addDomain" \in gone)
             /\ \E l \in DOMAIN answers : Heir(answers'[j], answers[l])
  <2>1. /\ j \in DOMAIN s /\ answers'[j] = s[j] /\ s[j].kind \notin gone
        /\ ~(s[j].kind = "list" /\ s[j].of = "domains" /\ "addDomain" \in gone)
    BY <1>2, <1>3, <1>9, DeadTyped
  <2>2. PICK l \in DOMAIN answers : s[j] = answers[l]
    BY <1>4, <2>1
  <2> QED
    BY <2>1, <2>2 DEF Heir
<1>10. (\A j \in DOMAIN asks' : ~OfRow(asks'[j])) /\ \A j \in DOMAIN answers' : ~OfRow(answers'[j])
  BY <1>8, <1>9 DEF OfRow, Waits
<1>11. /\ panel' = AllClosed /\ shownStatus' = "pending" /\ rowBusy' = FALSE /\ password' = "none" /\ blurred' = {} /\ dismissed' = dismissed
       /\ unshown' = unshown \cup ({password} \ {"none"})
                      \cup {a.name : a \in {b \in ToSet(answers) : b.kind = "create" /\ b.of = "mailboxes" /\ b.ok /\ ~b.dead}}
       /\ mailRows' = mailRows /\ mailZone' = mailZone /\ connecting' = connecting
  BY DEF RowLeaves, serverSide
<1>12. OneForm' /\ (\A p \in Lists : ListFollows(p)') /\ StatusFollows' /\ RecordsFollow'
  <2>1. shownStatus' \notin Settled
    BY <1>11 DEF Settled
  <2> QED
    BY <1>0, <1>9, <1>10, <1>11, <2>1, RowHasGone
<1>13. Mounted'
  <2>1. CASE CardShown'
    BY <1>10, <1>11, <2>1 DEF Mounted
  <2>2. CASE ~CardShown'
    <3>1. (\A j \in DOMAIN asks' : ~OfCard(asks'[j])) /\ \A j \in DOMAIN answers' : ~OfCard(answers'[j])
      BY <1>8, <1>9, <2>2 DEF OfCard, Waits, CardKinds
    <3> QED
      BY <1>10, <1>11, <2>2, <3>1 DEF Mounted
  <2> QED
    BY <2>1, <2>2
<1>14. \A j \in DOMAIN answers : answers[j] \in ToSet(answers)
  BY DEF ToSet
<1>15. PasswordKept'
  <2> SUFFICES ASSUME NEW b \in mailRows["mailboxes"] PROVE b \in dismissed' \cup unshown' \cup {password'}
    BY <1>11 DEF PasswordKept
  <2>1. b \in BoxNames /\ b # "none"
    BY <1>0, MailPageAssumption DEF MailTyped, MailPageTypeOK
  <2>2. CASE b \in dismissed \cup unshown \cup {password}
    BY <1>11, <2>1, <2>2
  <2>3. CASE \E l \in DOMAIN answers : Brings(answers[l], b)
    BY <1>11, <1>14, <2>3 DEF Brings, Waits
  <2> QED
    BY <1>0, <2>2, <2>3 DEF PasswordKept
<1>16. unshown' \subseteq BoxNames
  <2>1. ASSUME NEW a \in ToSet(answers), a.kind = "create", a.of = "mailboxes" PROVE a.name \in BoxNames
    BY <1>0, <2>1 DEF ToSet, MailTyped, WellSent
  <2>2. unshown \subseteq BoxNames /\ password \in BoxNames \cup {"none"}
    BY <1>0 DEF MailTyped, MailPageTypeOK, ShownSecret
  <2> QED
    BY <1>11, <2>1, <2>2
<1>17. MailTyped'
  <2>1. /\ panel' \in [Panels -> [at : PanelState, rows : SUBSET (BoxNames \cup AliasNames \cup ZoneStatus)]]
        /\ shownStatus' \in ZoneStatus /\ rowBusy' \in BOOLEAN /\ password' \in ShownSecret /\ blurred' \subseteq Panels \cup {"status"}
        /\ connecting' \in DialogState
    BY <1>0, <1>11 DEF AllClosed, ClosedPanel, PanelState, ZoneStatus, ShownSecret, MailTyped, MailPageTypeOK
  <2> QED
    BY <1>0, <1>5, <1>7, <1>11, <1>16, <2>1, ArrivedTypes
<1> QED
  BY <1>12, <1>13, <1>15, <1>17 DEF MailInv

LEMMA ListsAreLoaded ==
  ASSUME resource \in [{"instances", "domains"} -> ListState], NEW a, a.of \in {"instances", "domains"}, a.ok \in BOOLEAN
  PROVE  /\ Loaded(a) \in [{"instances", "domains"} -> ListState]
         /\ \A l \in {"instances", "domains"} : l # a.of => Loaded(a)[l] = resource[l]
         /\ Listed(Loaded(a), a.of) = a.ok
<1>1. resource[a.of] \in ListState
  OBVIOUS
<1> QED
  BY <1>1 DEF Loaded, ListState, Listed

\* The list of domains: the row comes, stays, or goes.
LEMMA DomainsAreTaken == ASSUME MailInv, NEW i \in DOMAIN answers, ArriveDomains(i) PROVE MailInv'
<1>0. MailTyped /\ Mounted /\ OneForm /\ PasswordKept /\ StatusFollows
  BY DEF MailInv
<1> DEFINE a == answers[i]
           old == {j \in DOMAIN answers : j < i /\ answers[j].of = answers[i].of}
<1>1. a.kind = "list" /\ ~a.dead /\ a.of = "domains" /\ resource' = Loaded(a) /\ UNCHANGED <<serverSide, connecting>>
  BY DEF ArriveDomains, Alive
<1>2a. a \in MailCall /\ WellSent(a) /\ answers \in Seq(MailCall)
  BY <1>0, ElementOfSeq, LenProperties DEF MailTyped
<1>2. a \in MailCall /\ WellSent(a) /\ answers \in Seq(MailCall) /\ a.ok \in BOOLEAN
  BY <1>2a DEF MailCall
<1>3. CardShown
  BY <1>0, <1>1 DEF Mounted, OfCard, Waits
<1>4. /\ resource' \in [{"instances", "domains"} -> ListState] /\ resource'["instances"] = resource["instances"]
      /\ Listed(resource', "domains") = a.ok
  BY <1>0, <1>1, <1>2, ListsAreLoaded DEF MailTyped, MailPageTypeOK
<1>5. CardShown' /\ RowShown' = a.ok
  BY <1>3, <1>4 DEF CardShown, RowShown, Listed
<1>6. CASE RowShown /\ ~a.ok
  <2>1. RowLeaves /\ asks' = Dead(asks, RowKinds) /\ answers' = Dead(RemoveAt(answers, i), RowKinds)
    BY <1>6 DEF ArriveDomains
  <2> QED
    BY <1>1, <1>4, <1>5, <2>1, RowIsGone
<1>7. CASE ~(RowShown /\ ~a.ok)
  <2>1. /\ asks' = asks /\ answers' = RemoveAt(Older(answers, i), i)
        /\ IF ~RowShown /\ a.ok THEN RowStarts(CHOOSE v \in a.gives : TRUE, a.old) ELSE UNCHANGED <<rowSide, ghosts>>
    BY <1>7 DEF ArriveDomains, Take
  <2>2. Older(answers, i) \in Seq(MailCall) /\ Aging(Older(answers, i), answers, old)
    BY <1>2, OlderMoved
  <2> HIDE DEF old
  <2>3. /\ asks' \in Seq(MailCall) /\ answers' \in Seq(MailCall) /\ Len(asks') + Len(answers') <= MaxMailCalls + 1
        /\ Traffic({}, {}, {i}, {}, old)
        /\ (\A j \in DOMAIN asks' : WellSent(asks'[j])) /\ \A j \in DOMAIN answers' : WellSent(answers'[j])
    BY <1>0, <1>2, <2>1, <2>2, MailTaken
  <2>4. ~Waits(answers[i], {"create"}) /\ ~Verifies(answers[i]) /\ \A p : ~LoadOf(answers[i], p) /\ ~Wrote(answers[i], p)
    BY <1>1 DEF Waits, Verifies, LoadOf, Wrote
  <2>5. mailRows' = mailRows /\ mailZone' = mailZone /\ connecting' = connecting
    BY <1>1 DEF serverSide
  <2>6. CASE ~RowShown /\ a.ok
    <3>1. RowStarts(CHOOSE v \in a.gives : TRUE, a.old)
      BY <2>1, <2>6
    <3>2. Waits(a, {"list"}) /\ Waits(a, Reading)
      BY <1>1 DEF Waits, Reading
    <3>3. PICK v \in ZoneStatus : a.gives = {v}
      BY <1>0, <2>6, <3>2 DEF StatusFollows
    <3>4. /\ panel' = AllClosed /\ shownStatus' = v /\ rowBusy' = FALSE /\ password' = "none"
          /\ blurred' = (IF a.old THEN {"status"} ELSE {}) /\ dismissed' = dismissed /\ unshown' = unshown
      BY <3>1, <3>3 DEF RowStarts
    <3>5. MailTyped'
      <4>1. /\ panel' \in [Panels -> [at : PanelState, rows : SUBSET (BoxNames \cup AliasNames \cup ZoneStatus)]]
            /\ shownStatus' \in ZoneStatus /\ rowBusy' \in BOOLEAN /\ password' \in ShownSecret /\ blurred' \subseteq Panels \cup {"status"}
        BY <3>4 DEF AllClosed, ClosedPanel, PanelState, ShownSecret
      <4> QED
        BY <1>0, <1>4, <2>3, <2>5, <3>4, <4>1, ArrivedTypes DEF MailTyped, MailPageTypeOK
    <3>6. Mounted'
      BY <1>5, <2>6 DEF Mounted
    <3>7. PasswordKept'
      <4>1. password = "none"
        BY <1>0, <2>6 DEF Mounted
      <4> QED
        BY <1>0, <2>3, <2>4, <2>5, <3>4, <4>1, PasswordsStay
    <3>8. \A j \in DOMAIN asks' : ~OfRow(asks'[j])
      BY <1>0, <2>1, <2>6 DEF Mounted
    <3>9. \A j \in DOMAIN answers' :
            answers'[j] \in {} \/ \E l \in DOMAIN answers \ {i} : Heir(answers'[j], answers[l]) /\ (l \in old => answers'[j].old)
      BY <2>3, TrafficHeirs
    <3>10. \A j \in DOMAIN answers' : ~OfRow(answers'[j])
      BY <1>0, <2>6, <3>9 DEF Mounted, OfRow, Waits, Heir
    <3>11. shownStatus' \in Settled /\ "status" \notin blurred' => shownStatus' = mailZone.verdict
      <4>1. ~a.old => a.gives \cap Settled \subseteq {mailZone.verdict}
        BY <1>0, <1>1, <2>6, <3>2 DEF StatusFollows, Fresh
      <4> QED
        BY <3>3, <3>4, <4>1
    <3>12. OneForm' /\ (\A p \in Lists : ListFollows(p)') /\ StatusFollows' /\ RecordsFollow'
      BY <1>0, <2>5, <3>4, <3>8, <3>9, <3>10, <3>11, RowHasGone
    <3> QED
      BY <3>5, <3>6, <3>7, <3>12 DEF MailInv
  <2>7. CASE ~(~RowShown /\ a.ok)
    <3>1. UNCHANGED <<rowSide, ghosts>> /\ RowShown' = RowShown
      BY <1>5, <1>7, <2>1, <2>7 DEF RowShown
    <3>2. /\ panel' = panel /\ shownStatus' = shownStatus /\ rowBusy' = rowBusy /\ password' = password
          /\ blurred' = blurred /\ dismissed' = dismissed /\ unshown' = unshown /\ UNCHANGED <<serverSide, panel, shownStatus, blurred>>
      BY <1>1, <3>1 DEF rowSide, ghosts
    <3>3. MailTyped'
      BY <1>0, <1>4, <2>3, <2>5, <3>2, ArrivedTypes DEF MailTyped, MailPageTypeOK
    <3>4. Mounted'
      BY <1>0, <1>5, <2>3, <3>1, <3>2, MountedAgain
    <3>5. OneForm' /\ PasswordKept'
      BY <1>0, <2>3, <2>4, <2>5, <3>2, FormsStay, PasswordsStay
    <3>6. (\A p \in Lists : ListFollows(p)') /\ StatusFollows' /\ RecordsFollow'
      BY <2>3, <2>4, <3>2, RowIsLeftAlone
    <3> QED
      BY <3>3, <3>4, <3>5, <3>6 DEF MailInv
  <2> QED
    BY <2>6, <2>7
<1> QED
  BY <1>6, <1>7

\* The list of servers: the card comes, stays, or goes.
LEMMA InstancesAreTaken == ASSUME MailInv, NEW i \in DOMAIN answers, ArriveInstances(i) PROVE MailInv'
<1>0. MailTyped /\ Mounted /\ OneForm /\ PasswordKept /\ StatusFollows
  BY DEF MailInv
<1> DEFINE a == answers[i]
           old == {j \in DOMAIN answers : j < i /\ answers[j].of = answers[i].of}
<1>1. a.kind = "list" /\ a.of = "instances" /\ UNCHANGED <<serverSide, connecting>>
  BY DEF ArriveInstances
<1>2a. a \in MailCall /\ WellSent(a) /\ answers \in Seq(MailCall)
  BY <1>0, ElementOfSeq, LenProperties DEF MailTyped
<1>2. a \in MailCall /\ WellSent(a) /\ answers \in Seq(MailCall) /\ a.ok \in BOOLEAN
  BY <1>2a DEF MailCall
<1>3. resource \in [{"instances", "domains"} -> ListState]
  BY <1>0 DEF MailTyped, MailPageTypeOK
<1>4. /\ Loaded(a) \in [{"instances", "domains"} -> ListState] /\ Loaded(a)["domains"] = resource["domains"]
      /\ Listed(Loaded(a), "instances") = a.ok
  BY <1>1, <1>2, <1>3, ListsAreLoaded
<1>6. CASE CardShown /\ ~a.ok
  <2>1. /\ RowLeaves /\ resource' = [Loaded(a) EXCEPT !["domains"] = Unread]
        /\ asks' = Dead(asks, RowKinds \cup CardKinds) /\ answers' = Dead(RemoveAt(answers, i), RowKinds \cup CardKinds)
    BY <1>6 DEF ArriveInstances
  <2>2. Unread \in ListState
    BY DEF Unread, ListState
  <2>3. resource' \in [{"instances", "domains"} -> ListState] /\ resource'["domains"] = Unread
    BY <1>4, <2>1, <2>2
  <2>4. RowKinds \subseteq RowKinds \cup CardKinds /\ CardKinds \subseteq RowKinds \cup CardKinds
    OBVIOUS
  <2> QED
    BY <1>1, <2>1, <2>3, <2>4, RowIsGone
<1>7. CASE ~(CardShown /\ ~a.ok)
  <2>1. /\ resource' = Loaded(a) /\ answers' = RemoveAt(Older(answers, i), i) /\ UNCHANGED <<rowSide, ghosts>>
        /\ asks' = IF ~CardShown /\ a.ok THEN Append(asks, MailAsk("list", "domains", "none")) ELSE asks
    BY <1>7 DEF ArriveInstances, Take
  <2>2. Older(answers, i) \in Seq(MailCall) /\ Aging(Older(answers, i), answers, old)
    BY <1>2, OlderMoved
  <2> HIDE DEF old
  <2>3. PICK c \in MailCall : /\ c = MailAsk("list", "domains", "none") /\ WellSent(c) /\ ~Waits(c, {"status"}) /\ ~Waits(c, Writing)
                              /\ ~OfRow(c) /\ c.kind = "list"
    BY ListAskTyped
  <2> DEFINE n == IF ~CardShown /\ a.ok THEN {c} ELSE {}
  <2>4. (n = {} /\ asks' = asks) \/ (n = {c} /\ asks' = Append(asks, c))
    BY <2>1, <2>3
  <2>5. \A d \in n : d = c /\ a.ok
    OBVIOUS
  <2> HIDE DEF n
  <2>6. /\ asks' \in Seq(MailCall) /\ answers' \in Seq(MailCall) /\ Len(asks') + Len(answers') <= MaxMailCalls + 1
        /\ Traffic({}, n, {i}, {}, old)
        /\ (\A j \in DOMAIN asks' : WellSent(asks'[j])) /\ \A j \in DOMAIN answers' : WellSent(answers'[j])
    BY <1>0, <2>1, <2>2, <2>3, <2>4, MailTaken
  <2>7. /\ panel' = panel /\ shownStatus' = shownStatus /\ rowBusy' = rowBusy /\ password' = password
        /\ blurred' = blurred /\ dismissed' = dismissed /\ unshown' = unshown /\ UNCHANGED <<serverSide, panel, shownStatus, blurred>>
        /\ mailRows' = mailRows /\ mailZone' = mailZone /\ connecting' = connecting
    BY <1>1, <2>1 DEF rowSide, ghosts, serverSide
  <2>8. ~Waits(answers[i], {"create"}) /\ ~Verifies(answers[i]) /\ \A p : ~LoadOf(answers[i], p) /\ ~Wrote(answers[i], p)
    BY <1>1 DEF Waits, Verifies, LoadOf, Wrote
  <2>9. MailTyped'
    BY <1>0, <1>4, <2>1, <2>6, <2>7, ArrivedTypes DEF MailTyped, MailPageTypeOK
  <2>10. CardShown' = a.ok /\ resource'["domains"] = resource["domains"]
    BY <1>4, <2>1 DEF CardShown
  <2>11. /\ ~CardShown' => ~CardShown /\ resource'["domains"] = Unread
         /\ ~RowShown' => ~RowShown
    BY <1>0, <1>7, <2>10 DEF Mounted, RowShown, Listed
  <2>12. Mounted'
    <3>1. \A d \in n : (OfCard(d) => CardShown') /\ ~OfRow(d)
      BY <2>3, <2>5, <2>10
    <3> QED
      BY <1>0, <2>6, <2>7, <2>11, <3>1, MountedAgain
  <2>13. \A d \in n : ~Waits(d, {"status"}) /\ ~Waits(d, Writing)
    BY <2>3, <2>5
  <2>14. OneForm' /\ PasswordKept'
    BY <1>0, <2>6, <2>7, <2>8, <2>13, FormsStay, PasswordsStay
  <2>15. (\A p \in Lists : ListFollows(p)') /\ StatusFollows' /\ RecordsFollow'
    BY <2>6, <2>7, <2>8, <2>13, RowIsLeftAlone
  <2> QED
    BY <2>9, <2>12, <2>14, <2>15 DEF MailInv
<1> QED
  BY <1>6, <1>7

LEMMA MailStarts == MailPageInit => MailInv
<1> SUFFICES ASSUME MailPageInit PROVE MailInv
  OBVIOUS
<1>1. PICK c \in MailCall : /\ c = MailAsk("list", "instances", "none") /\ WellSent(c) /\ ~Waits(c, {"status"}) /\ ~Waits(c, Writing)
                            /\ ~OfRow(c) /\ ~OfCard(c) /\ c.kind = "list"
  BY ListAskTyped
<1>2. /\ mailRows = [l \in Lists |-> {}] /\ mailZone = [verdict |-> "pending", records |-> "pending"]
      /\ resource = [l \in {"instances", "domains"} |-> Unread] /\ asks = <<c>> /\ answers = <<>>
      /\ panel = AllClosed /\ shownStatus = "pending" /\ rowBusy = FALSE /\ password = "none"
      /\ connecting = "no" /\ dismissed = {} /\ unshown = {} /\ blurred = {}
  BY <1>1 DEF MailPageInit
<1>3. asks \in Seq(MailCall) /\ answers \in Seq(MailCall) /\ Len(asks) = 1 /\ Len(answers) = 0 /\ DOMAIN asks = {1} /\ asks[1] = c /\ DOMAIN answers = {}
  BY <1>2
<1>4. resource["domains"] = Unread /\ resource["instances"] = Unread /\ Unread \in ListState /\ ~CardShown /\ ~RowShown
  BY <1>2 DEF Unread, ListState, CardShown, RowShown, Listed
<1>5. MailTyped
  <2>1. /\ panel \in [Panels -> [at : PanelState, rows : SUBSET (BoxNames \cup AliasNames \cup ZoneStatus)]]
        /\ \A p \in Panels : panel[p].at \in PanelState
    BY <1>2 DEF AllClosed, ClosedPanel, PanelState
  <2>2. /\ mailRows \in [Lists -> SUBSET (BoxNames \cup AliasNames)] /\ mailRows["mailboxes"] = {} /\ mailRows["aliases"] = {}
        /\ mailZone \in [verdict : ZoneStatus, records : ZoneStatus] /\ mailZone.verdict \in ZoneStatus /\ mailZone.records \in ZoneStatus
        /\ shownStatus \in ZoneStatus /\ password \in ShownSecret /\ connecting \in DialogState /\ rowBusy \in BOOLEAN
    BY <1>2 DEF Lists, ZoneStatus, ShownSecret, DialogState
  <2>3. resource \in [{"instances", "domains"} -> ListState]
    BY <1>2, <1>4
  <2>4. Len(asks) + Len(answers) <= MaxMailCalls + 1
    BY <1>3, MailPageAssumption
  <2>5. MailPageTypeOK
    BY <1>2, <2>1, <2>2, <2>3, <2>4 DEF MailPageTypeOK
  <2> QED
    BY <1>1, <1>3, <2>1, <2>2, <2>5 DEF MailTyped
<1>6. Mounted
  BY <1>1, <1>2, <1>3, <1>4 DEF Mounted
<1>7. OneForm
  BY <1>1, <1>3 DEF OneForm
<1>8. PasswordKept
  BY <1>2 DEF PasswordKept, Lists
<1>9. "closed" # "shown" /\ \A p \in Panels : panel[p].at = "closed"
  BY <1>2 DEF AllClosed, ClosedPanel
<1>10. \A p \in Lists : ListFollows(p)
  BY <1>3, <1>9, MailPanels DEF ListFollows
<1>11. StatusFollows
  BY <1>2, <1>3 DEF StatusFollows, Settled
<1>12. RecordsFollow
  BY <1>3, <1>9 DEF RecordsFollow, Panels
<1> QED
  BY <1>5, <1>6, <1>7, <1>8, <1>10, <1>11, <1>12 DEF MailInv

LEMMA MailHolds == MailInv /\ [MailPageNext]_mailPageVars => MailInv'
<1> SUFFICES ASSUME MailInv, [MailPageNext]_mailPageVars PROVE MailInv'
  OBVIOUS
<1>1. \A n \in BoxNames : n \in BoxNames \cup AliasNames
  OBVIOUS
<1>2. \A n \in AliasNames : n \in BoxNames \cup AliasNames
  OBVIOUS
<1>3. "mailboxes" \in Lists /\ "aliases" \in Lists /\ "mailboxes" # "aliases"
  BY DEF Lists
<1>4. CASE AddMailDomain \/ OpenConnect \/ CloseConnect
  BY <1>4, DomainIsAdded, DialogMoves
<1>5. CASE \E l \in {"instances", "domains"} : RetryList(l)
  BY <1>5, ListIsRetried
<1>6. CASE \E p \in Panels : Toggle(p)
  BY <1>6, PanelToggles
<1>7. CASE \E n \in BoxNames : AddMailbox(n) \/ DelMailbox(n)
  BY <1>1, <1>3, <1>7, EntryIsAdded, EntryIsDeleted DEF AddMailbox, DelMailbox
<1>8. CASE \E n \in AliasNames : AddAlias(n) \/ DelAlias(n)
  BY <1>2, <1>3, <1>8, EntryIsAdded, EntryIsDeleted DEF AddAlias, DelAlias
<1>9. CASE Verify \/ DismissPassword \/ Tick \/ SubmitConnect
  BY <1>9, VerifyIsSent, PasswordIsDismissed, PanelTicks, ConnectIsSent
<1>10. CASE \E i \in DOMAIN asks : ServeRead(i) \/ ServeVerify(i) \/ ServeCreate(i) \/ ServeDelete(i) \/ ServeAdd(i)
  BY <1>10, MailRead, DomainIsVerified, EntryIsCreated, EntryIsGone, OtherIsAdded
<1>11. CASE SweepRecords \/ SweepVerdict
  BY <1>11, RecordsAreSwept, VerdictIsSettled
<1>12. CASE \E i \in DOMAIN answers : ArriveLoad(i) \/ ArriveStatus(i) \/ ArriveVerify(i) \/ ArriveCreate(i) \/ ArriveDelete(i)
  BY <1>12, LoadIsTaken, StatusIsTaken, VerifyIsTaken, CreateIsTaken, DeleteIsTaken
<1>13. CASE \E i \in DOMAIN answers : ArriveDomains(i) \/ ArriveInstances(i) \/ ArriveAddDomain(i) \/ ArriveConnect(i) \/ ArriveDead(i)
  BY <1>13, DomainsAreTaken, InstancesAreTaken, AddDomainIsTaken, ConnectIsTaken, DeadIsTaken
<1>14. CASE UNCHANGED mailPageVars
  <2>1. /\ UNCHANGED <<serverSide, resource, shownStatus, rowBusy, unshown, blurred>> /\ UNCHANGED <<password, dismissed>>
        /\ panel' = panel /\ asks' = asks /\ answers' = answers /\ connecting' = connecting
    BY <1>14 DEF mailPageVars, serverSide
  <2>2. MailTyped
    BY DEF MailInv
  <2>3. /\ asks' \in Seq(MailCall) /\ Moved(asks', asks, {}, {}, {}) /\ Len(asks') = Len(asks)
        /\ answers' \in Seq(MailCall) /\ Moved(answers', answers, {}, {}, {}) /\ Len(answers') = Len(answers)
    BY <2>1, <2>2, NothingMoves DEF MailTyped
  <2>4. panel' \in [Panels -> [at : PanelState, rows : SUBSET (BoxNames \cup AliasNames \cup ZoneStatus)]] /\ connecting' \in DialogState
    BY <2>1, <2>2 DEF MailTyped, MailPageTypeOK
  <2> QED
    BY <2>1, <2>3, <2>4, MailRests
<1> QED
  BY <1>4, <1>5, <1>6, <1>7, <1>8, <1>9, <1>10, <1>11, <1>12, <1>13, <1>14 DEF MailPageNext

LEMMA MailShown == MailInv => MailPageIsTrue
<1> SUFFICES ASSUME MailInv PROVE MailPageIsTrue
  OBVIOUS
<1>1. PasswordIsShown
  BY DEF MailInv, PasswordKept, PasswordIsShown, Brings, Waits
<1>2. Quiet => (\A n \in DOMAIN asks : FALSE) /\ \A n \in DOMAIN answers : FALSE
  BY DEF Quiet
<1>3. ListsMatchRows
  BY <1>2 DEF MailInv, ListFollows, ListsMatchRows, Rereads
<1>4. DnsIsCurrent
  BY <1>2 DEF MailInv, StatusFollows, RecordsFollow, RecordsMatter, DnsIsCurrent
<1> QED
  BY <1>1, <1>3, <1>4 DEF MailPageIsTrue
=============================================================================
