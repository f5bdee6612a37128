------------------------------ MODULE MailPage ------------------------------
(***************************************************************************)
(* The mail page: the list of mail servers, the list of one server's       *)
(* domains, and one domain's row with its three panels.  Requests are      *)
(* served in any order and their answers arrive in any order; nothing      *)
(* marks an answer as overtaken.  A list that fails to reload takes the    *)
(* rows under it off the screen, with what they showed.                    *)
(***************************************************************************)
EXTENDS Naturals, Sequences, FiniteSets, SequencesExt

CONSTANTS
  BoxNames,    \* local parts that are typed for a mailbox
  AliasNames,  \* and for an alias
  SweepFinds,  \* bound: what a sweep finds of the records: verifying, verified, failed
  MaxMailCalls, \* bound: requests of the page under way
  MaxOutings   \* bound: domains added and connect dialogs opened

Lists  == {"mailboxes", "aliases"}
Panels == Lists \cup {"dns"}

VARIABLES
  mailRows,   \* the server's rows of each list
  mailZone,   \* the server's verdict on the domain and the status of its records
  resource,   \* "instances" and "domains": has data, the last load failed
  panel,      \* closed, loading or shown, and what is shown
  shownStatus, rowBusy, \* of the row
  password,   \* the mailbox whose password is on display
  connecting, \* the dialog that connects a mail server: no, form, sent
  asks,       \* requests not served yet
  answers,    \* answers under way, in the order they were served
  dismissed,  \* mailboxes whose password the user has seen and put away
  unshown,    \* those whose password got lost: with the answer, or with the row
  removed,    \* addresses that were deleted; bound: they are not made again
  inUse,      \* bound: the one panel that a behaviour opens; the sweep runs when it is the DNS
              \* panel, a server is connected when it is the mailboxes and
              \* nothing else is under way
  outings,
  blurred     \* panels whose last answer was a failure, was overtaken, or that miss a write's answer

mailPageVars == <<mailRows, mailZone, resource, panel, shownStatus, rowBusy, password, connecting,
                  asks, answers, dismissed, unshown, removed, inUse, outings, blurred>>

Settled == {"verified", "failed"}
ZoneStatus == {"pending", "verifying"} \cup Settled

ASSUME MailPageAssumption ==
  /\ MaxMailCalls \in Nat /\ MaxOutings \in Nat /\ "none" \notin BoxNames \cup AliasNames /\ SweepFinds \subseteq ZoneStatus

ClosedPanel == [at |-> "closed", rows |-> {}]
AllClosed   == [p \in Panels |-> ClosedPanel]
Unread      == [data |-> FALSE, err |-> FALSE]

\* The page shows the items of a list that was read and whose last load did not fail.
Listed(r, l)  == r[l].data /\ ~r[l].err
CardShown     == Listed(resource, "instances")
RowShown      == CardShown /\ Listed(resource, "domains")

\* What is kept of a list, of a panel, of the password dialog and of the connect dialog.
ListState    == [data : BOOLEAN, err : BOOLEAN]
PanelState   == {"closed", "loading", "shown"}
DialogState  == {"no", "form", "sent"}
ShownSecret  == BoxNames \cup {"none"}

MailPageTypeOK ==
  /\ mailRows["mailboxes"] \subseteq BoxNames /\ mailRows["aliases"] \subseteq AliasNames
  /\ resource \in [{"instances", "domains"} -> ListState]
  /\ mailZone.verdict \in ZoneStatus /\ mailZone.records \in ZoneStatus
  /\ \A p \in Panels : panel[p].at \in PanelState
  /\ shownStatus \in ZoneStatus /\ rowBusy \in BOOLEAN /\ connecting \in DialogState
  /\ password \in ShownSecret /\ Len(asks) + Len(answers) <= MaxMailCalls + 1
  /\ dismissed \cup unshown \subseteq BoxNames /\ blurred \subseteq Panels \cup {"status"}

MailAsk(kind, of, name) ==
  [kind |-> kind, of |-> of, name |-> name, dead |-> FALSE, old |-> FALSE, ok |-> FALSE, gives |-> {}]

MailPageInit ==
  /\ mailRows = [l \in Lists |-> {}] /\ mailZone = [verdict |-> "pending", records |-> "pending"]
  /\ resource = [l \in {"instances", "domains"} |-> Unread] /\ asks = <<MailAsk("list", "instances", "none")>>
  /\ panel = AllClosed /\ shownStatus = "pending" /\ rowBusy = FALSE /\ password = "none"
  /\ connecting = "no" /\ answers = <<>> /\ dismissed = {} /\ unshown = {} /\ removed = {} /\ blurred = {} /\ inUse \in Panels /\ outings = 0

Room == Len(asks) + Len(answers) < MaxMailCalls
\* A dialog covers the page and keeps the focus.
Clickable == RowShown /\ connecting = "no" /\ password = "none"

serverSide == <<mailRows, mailZone>>
rowSide    == <<panel, shownStatus, rowBusy, password>>
ghosts     == <<dismissed, unshown, removed, blurred>>

(***************************************************************************)
(* The user, on the row.                                                   *)
(***************************************************************************)

\* toggleDns, toggleBoxes, toggleAliases.
Toggle(p) ==
  /\ Clickable /\ p = inUse
  /\ IF panel[p].at = "closed"
     THEN /\ Room /\ panel' = [panel EXCEPT ![p].at = "loading"]
          /\ asks' = Append(asks, MailAsk("load", p, "none"))
     ELSE panel' = [panel EXCEPT ![p] = ClosedPanel] /\ asks' = asks
  /\ UNCHANGED <<serverSide, resource, shownStatus, rowBusy, password, connecting, answers, ghosts>>

\* verify: what its answer will do about the panel depends on the panel as it is now.
Verify ==
  /\ Clickable /\ ~rowBusy /\ Room /\ rowBusy' = TRUE
  /\ asks' = Append(asks, MailAsk("verify", "dns", IF panel["dns"].at = "shown" THEN "reload" ELSE "none"))
  /\ UNCHANGED <<serverSide, resource, panel, shownStatus, password, connecting, answers, ghosts>>

\* The form is in the panel, and the row sends one such request at a time.
AddEntry(p, n) ==
  /\ Clickable /\ ~rowBusy /\ panel[p].at # "closed" /\ n \notin removed /\ Room /\ rowBusy' = TRUE
  /\ asks' = Append(asks, MailAsk("create", p, n))
  /\ UNCHANGED <<serverSide, resource, panel, shownStatus, password, connecting, answers, ghosts>>

AddMailbox(n) == AddEntry("mailboxes", n)
AddAlias(n)   == AddEntry("aliases", n)

\* Once confirmed; it does not make the row busy.
DeleteEntry(p, n) ==
  /\ Clickable /\ n \in panel[p].rows /\ Room
  /\ asks' = Append(asks, MailAsk("delete", p, n))
  /\ UNCHANGED <<serverSide, resource, rowSide, connecting, answers, ghosts>>

DelMailbox(n) == DeleteEntry("mailboxes", n)
DelAlias(n)   == DeleteEntry("aliases", n)

\* Done, Escape, and a press next to the dialog.
DismissPassword ==
  /\ password # "none" /\ connecting = "no" /\ password' = "none" /\ dismissed' = dismissed \cup {password}
  /\ UNCHANGED <<serverSide, resource, panel, shownStatus, rowBusy, connecting, asks, answers, unshown, removed, blurred>>

\* The timer of an open DNS panel while the domain is not settled.  One tick is under way at a time.
InFlight(kind) == \E a \in ToSet(asks) \cup ToSet(answers) : a.kind = kind /\ ~a.dead
Tick ==
  /\ RowShown /\ panel["dns"].at = "shown" /\ shownStatus \notin Settled /\ ~InFlight("status")
  /\ Len(asks) + Len(answers) + 1 < MaxMailCalls
  /\ asks' = asks \o <<MailAsk("status", "status", "none"), MailAsk("load", "dns", "none")>>
  /\ UNCHANGED <<serverSide, resource, rowSide, connecting, answers, ghosts>>

(***************************************************************************)
(* The user, on the page.                                                  *)
(***************************************************************************)

Outing == outings < MaxOutings /\ outings' = outings + 1

\* addDomain; the button is disabled while it runs.
AddMailDomain ==
  /\ Outing
  /\ CardShown /\ connecting = "no" /\ password = "none" /\ Room /\ ~InFlight("addDomain")
  /\ asks' = Append(asks, MailAsk("addDomain", "domains", "none"))
  /\ UNCHANGED <<serverSide, resource, rowSide, connecting, answers, ghosts>>

\* Retry of the list that failed.
RetryList(l) ==
  /\ resource[l].err /\ (l = "domains" => CardShown) /\ connecting = "no" /\ Room
  /\ asks' = Append(asks, MailAsk("list", l, "none"))
  /\ UNCHANGED <<serverSide, resource, rowSide, connecting, answers, ghosts>>

\* Connect mail server opens the dialog; Cancel leaves the request it may have sent.
OpenConnect ==
  /\ Outing /\ inUse = "mailboxes" /\ asks = <<>> /\ answers = <<>>
  /\ CardShown /\ connecting = "no" /\ password = "none" /\ connecting' = "form"
  /\ UNCHANGED <<serverSide, resource, rowSide, asks, answers, ghosts>>

Leave(s) == [i \in DOMAIN s |-> IF s[i].kind = "connect" THEN [s[i] EXCEPT !.name = "left"] ELSE s[i]]
CloseConnect ==
  /\ connecting # "no" /\ connecting' = "no" /\ asks' = Leave(asks) /\ answers' = Leave(answers)
  /\ UNCHANGED <<serverSide, resource, rowSide, ghosts>>

SubmitConnect ==
  /\ connecting = "form" /\ Room /\ connecting' = "sent"
  /\ asks' = Append(asks, MailAsk("connect", "instances", "none"))
  /\ UNCHANGED <<serverSide, resource, rowSide, answers, ghosts>>

(***************************************************************************)
(* The server: serves the requests in any order; what it did may stay      *)
(* untold.                                                                 *)
(***************************************************************************)

\* What was read of x, and has not arrived, is not what the page should end up with.
Aged(s, x) == [i \in DOMAIN s |-> IF s[i].of \in x /\ s[i].kind \in {"load", "status", "list"}
                                 THEN [s[i] EXCEPT !.old = TRUE] ELSE s[i]]
Serve(i, a, s) == asks' = RemoveAt(asks, i) /\ answers' = Append(s, a)

ListMailboxes == mailRows["mailboxes"]
ListAliases   == mailRows["aliases"]

\* GETs of the panels, the domain, and the two lists.
ServeRead(i) ==
  \E ok \in BOOLEAN :
    LET a == asks[i]
        gives == CASE a.of = "mailboxes" -> ListMailboxes [] a.of = "aliases" -> ListAliases [] a.of = "dns" -> {mailZone.records}
                   [] OTHER -> {mailZone.verdict} IN
    /\ a.kind \in {"load", "status", "list"}
    /\ Serve(i, [a EXCEPT !.ok = ok, !.gives = IF ok THEN gives ELSE {}], answers)
    /\ UNCHANGED <<serverSide, resource, rowSide, connecting, ghosts>>

\* requestVerification.  No one hears of it when the answer is lost or the row is gone.
ServeVerify(i) ==
  \E ok, told \in BOOLEAN :
    LET a == asks[i]  unheard == ok /\ (a.dead \/ ~told) IN
    /\ a.kind = "verify" /\ (told => ok)
    /\ mailZone' = IF ok THEN [verdict |-> "verifying", records |-> "verifying"] ELSE mailZone
    /\ Serve(i, [a EXCEPT !.ok = told],
             Aged(answers, IF unheard THEN {"status", "domains"} ELSE IF ok THEN {"domains"} ELSE {}))
    /\ blurred' = IF unheard THEN blurred \cup {"status"} ELSE blurred
    /\ UNCHANGED <<mailRows, resource, rowSide, connecting, dismissed, unshown, removed>>

\* createMailbox and createAlias: what exists is refused.
ServeCreate(i) ==
  \E ok, told \in BOOLEAN :
    LET a == asks[i]  unheard == ok /\ (a.dead \/ ~told)
        made == IF ok /\ a.of = "mailboxes" THEN {a.name} ELSE {} IN
    /\ a.kind = "create" /\ (told => ok) /\ (ok => a.name \notin mailRows[a.of] \cup removed)
    /\ mailRows' = [mailRows EXCEPT ![a.of] = IF ok THEN @ \cup {a.name} ELSE @]
    /\ Serve(i, [a EXCEPT !.ok = told], IF unheard THEN Aged(answers, {a.of}) ELSE answers)
    /\ blurred' = IF unheard THEN blurred \cup {a.of} ELSE blurred
    /\ dismissed' = dismissed \ made
    /\ unshown' = IF unheard THEN unshown \cup made ELSE unshown \ made
    /\ UNCHANGED <<mailZone, resource, rowSide, connecting, removed>>

\* What is not there is a 404.
ServeDelete(i) ==
  \E ok, told \in BOOLEAN :
    LET a == asks[i]  unheard == ok /\ (a.dead \/ ~told) IN
    /\ a.kind = "delete" /\ (told => ok) /\ (ok => a.name \in mailRows[a.of])
    /\ mailRows' = [mailRows EXCEPT ![a.of] = IF ok THEN @ \ {a.name} ELSE @]
    /\ removed' = IF ok THEN removed \cup {a.name} ELSE removed
    /\ Serve(i, [a EXCEPT !.ok = told], IF unheard THEN Aged(answers, {a.of}) ELSE answers)
    /\ blurred' = IF unheard THEN blurred \cup {a.of} ELSE blurred
    /\ UNCHANGED <<mailZone, resource, rowSide, connecting, dismissed, unshown>>

\* addDomain and provisionInstance: another domain, another server.
ServeAdd(i) ==
  \E ok \in BOOLEAN :
    /\ asks[i].kind \in {"addDomain", "connect"} /\ Serve(i, [asks[i] EXCEPT !.ok = ok], answers)
    /\ UNCHANGED <<serverSide, resource, rowSide, connecting, ghosts>>

\* runMailDnsVerify: the records, then the verdict.  A tick that is under way may have
\* read the records already and read the verdict after.
SweepRecords ==
  /\ inUse = "dns" /\ mailZone.verdict \notin Settled
  /\ \E s \in SweepFinds : s # mailZone.records /\ mailZone' = [mailZone EXCEPT !.records = s]
  /\ answers' = Aged(answers, {"dns"})
  /\ blurred' = IF InFlight("status") THEN blurred \cup {"dns"} ELSE blurred
  /\ UNCHANGED <<mailRows, resource, rowSide, connecting, asks, dismissed, unshown, removed>>

SweepVerdict ==
  /\ mailZone.verdict \notin Settled /\ mailZone.records \in Settled
  /\ mailZone' = [mailZone EXCEPT !.verdict = mailZone.records]
  /\ UNCHANGED <<mailRows, resource, rowSide, connecting, asks, answers, ghosts>>

(***************************************************************************)
(* The answers, in any order.                                              *)
(***************************************************************************)

\* The newest of what was read of x makes what is still under way older than the page.
Older(s, i) == [j \in DOMAIN s |-> IF j < i /\ s[j].of = s[i].of THEN [s[j] EXCEPT !.old = TRUE] ELSE s[j]]
Take(i)     == answers' = RemoveAt(Older(answers, i), i)
Alive(i, kinds) == answers[i].kind \in kinds /\ ~answers[i].dead
Reload(p)   == Append(asks, MailAsk("load", p, "none"))
BlurredBy(a) == IF a.ok /\ ~a.old THEN blurred \ {a.of} ELSE blurred \cup {a.of}

\* loadDns, loadBoxes, loadAliases: a failure is an empty list, and a panel that was
\* closed in the meantime opens again.
ArriveLoad(i) ==
  LET a == answers[i] IN
  /\ Alive(i, {"load"}) /\ Take(i)
  /\ panel' = [panel EXCEPT ![a.of] = [at |-> "shown", rows |-> a.gives]]
  /\ blurred' = BlurredBy(a)
  /\ UNCHANGED <<serverSide, resource, shownStatus, rowBusy, password, connecting, asks, dismissed, unshown, removed>>

ArriveStatus(i) ==
  LET a == answers[i] IN
  /\ Alive(i, {"status"}) /\ Take(i)
  /\ shownStatus' = IF a.ok THEN CHOOSE v \in a.gives : TRUE ELSE shownStatus
  /\ blurred' = IF a.ok THEN BlurredBy(a) ELSE blurred
  /\ UNCHANGED <<serverSide, resource, panel, rowBusy, password, connecting, asks, dismissed, unshown, removed>>

\* What was read before the server took the request is older than its answer.
ArriveVerify(i) ==
  LET a == answers[i] IN
  /\ Alive(i, {"verify"}) /\ rowBusy' = FALSE
  /\ answers' = RemoveAt([j \in DOMAIN answers |->
                   IF j < i /\ answers[j].of = "status" /\ a.ok THEN [answers[j] EXCEPT !.old = TRUE] ELSE answers[j]], i)
  /\ shownStatus' = IF a.ok THEN "verifying" ELSE shownStatus
  /\ asks' = IF a.ok /\ a.name = "reload" THEN Reload("dns") ELSE asks
  /\ UNCHANGED <<serverSide, resource, panel, password, connecting, ghosts>>

\* The password goes on display and the list is read again; a failure is a toast.
ArriveCreate(i) ==
  LET a == answers[i] IN
  /\ Alive(i, {"create"}) /\ answers' = RemoveAt(answers, i) /\ rowBusy' = FALSE
  /\ password' = IF a.ok /\ a.of = "mailboxes" THEN a.name ELSE password
  /\ asks' = IF a.ok THEN Reload(a.of) ELSE asks
  /\ UNCHANGED <<serverSide, resource, panel, shownStatus, connecting, ghosts>>

ArriveDelete(i) ==
  LET a == answers[i] IN
  /\ Alive(i, {"delete"}) /\ answers' = RemoveAt(answers, i)
  /\ asks' = IF a.ok THEN Reload(a.of) ELSE asks
  /\ UNCHANGED <<serverSide, resource, rowSide, connecting, ghosts>>

\* useResource: a failure keeps the data and shows the error in its place.
Loaded(a) == [resource EXCEPT ![a.of] = [data |-> @.data \/ a.ok, err |-> ~a.ok]]

RowKinds  == {"load", "status", "verify", "create", "delete"}
CardKinds == {"addDomain"}
\* The list of domains goes with the card that reads it.
Dead(s, gone) ==
  [i \in DOMAIN s |-> IF s[i].kind \in gone \/ (s[i].kind = "list" /\ s[i].of = "domains" /\ "addDomain" \in gone)
                      THEN [s[i] EXCEPT !.dead = TRUE] ELSE s[i]]

\* The row starts with its panels closed; its status is the one the list gave.
RowStarts(status, old) ==
  /\ panel' = AllClosed /\ shownStatus' = status /\ rowBusy' = FALSE /\ password' = "none"
  /\ blurred' = IF old THEN {"status"} ELSE {}
  /\ UNCHANGED <<dismissed, unshown, removed>>

\* Everything the row held is gone, and no one waits for its answers.
RowLeaves ==
  /\ panel' = AllClosed /\ shownStatus' = "pending" /\ rowBusy' = FALSE /\ password' = "none" /\ blurred' = {}
  /\ unshown' = unshown \cup ({password} \ {"none"})
                 \cup {a.name : a \in {b \in ToSet(answers) : b.kind = "create" /\ b.of = "mailboxes" /\ b.ok /\ ~b.dead}}
  /\ UNCHANGED <<dismissed, removed>>

ArriveDomains(i) ==
  LET a == answers[i]  r == Loaded(a) IN
  /\ Alive(i, {"list"}) /\ a.of = "domains" /\ resource' = r
  /\ IF RowShown /\ ~a.ok
     THEN /\ RowLeaves /\ asks' = Dead(asks, RowKinds) /\ answers' = Dead(RemoveAt(answers, i), RowKinds)
     ELSE /\ asks' = asks /\ Take(i)
          /\ IF ~RowShown /\ a.ok THEN RowStarts(CHOOSE v \in a.gives : TRUE, a.old)
             ELSE UNCHANGED <<rowSide, ghosts>>
  /\ UNCHANGED <<serverSide, connecting>>

\* A card that comes back loads its domains from nothing.
ArriveInstances(i) ==
  LET a == answers[i] IN
  /\ a.kind = "list" /\ a.of = "instances"
  /\ IF CardShown /\ ~a.ok
     THEN /\ RowLeaves /\ resource' = [Loaded(a) EXCEPT !["domains"] = Unread]
          /\ asks' = Dead(asks, RowKinds \cup CardKinds)
          /\ answers' = Dead(RemoveAt(answers, i), RowKinds \cup CardKinds)
     ELSE /\ resource' = Loaded(a) /\ Take(i) /\ UNCHANGED <<rowSide, ghosts>>
          /\ asks' = IF ~CardShown /\ a.ok THEN Append(asks, MailAsk("list", "domains", "none")) ELSE asks
  /\ UNCHANGED <<serverSide, connecting>>

ArriveAddDomain(i) ==
  /\ Alive(i, {"addDomain"}) /\ answers' = RemoveAt(answers, i)
  /\ asks' = IF answers[i].ok THEN Append(asks, MailAsk("list", "domains", "none")) ELSE asks
  /\ UNCHANGED <<serverSide, resource, rowSide, connecting, ghosts>>

\* onConnected closes whichever dialog is open; a failure shows in the one that sent it.
ArriveConnect(i) ==
  LET a == answers[i] IN
  /\ a.kind = "connect" /\ answers' = RemoveAt(answers, i)
  /\ connecting' = IF a.ok THEN "no" ELSE IF a.name = "left" THEN connecting ELSE "form"
  /\ asks' = IF a.ok THEN Append(asks, MailAsk("list", "instances", "none")) ELSE asks
  /\ UNCHANGED <<serverSide, resource, rowSide, ghosts>>

\* The answer to a request of a row or a card that is gone.
ArriveDead(i) ==
  /\ answers[i].dead /\ answers' = RemoveAt(answers, i)
  /\ UNCHANGED <<serverSide, resource, rowSide, connecting, asks, ghosts>>

MailPageNext ==
  /\ UNCHANGED inUse
  /\ \/ AddMailDomain \/ OpenConnect
     \/ /\ UNCHANGED outings
        /\ \/ \E l \in {"instances", "domains"} : RetryList(l)
           \/ \E p \in Panels : Toggle(p)
           \/ \E n \in BoxNames : AddMailbox(n) \/ DelMailbox(n)
           \/ \E n \in AliasNames : AddAlias(n) \/ DelAlias(n)
           \/ Verify \/ DismissPassword \/ Tick \/ CloseConnect \/ SubmitConnect
           \/ \E i \in DOMAIN asks : ServeRead(i) \/ ServeVerify(i) \/ ServeCreate(i) \/ ServeDelete(i) \/ ServeAdd(i)
           \/ SweepRecords \/ SweepVerdict
           \/ \E i \in DOMAIN answers :
                \/ ArriveLoad(i) \/ ArriveStatus(i) \/ ArriveVerify(i) \/ ArriveCreate(i) \/ ArriveDelete(i)
                \/ ArriveDomains(i) \/ ArriveInstances(i) \/ ArriveAddDomain(i) \/ ArriveConnect(i) \/ ArriveDead(i)

\* The one-time password of every mailbox made from the page has been put away by the user,
\* is on display, or is on its way, unless its answer got lost or its row was taken down.
PasswordIsShown ==
  \A n \in mailRows["mailboxes"] :
    \/ n \in dismissed \cup unshown \cup {password}
    \/ \E i \in DOMAIN answers : answers[i].kind = "create" /\ answers[i].name = n /\ answers[i].ok /\ ~answers[i].dead

Quiet == asks = <<>> /\ answers = <<>> /\ RowShown

\* Once nothing is under way, an open panel shows the rows the server has, unless its last
\* answer failed or was overtaken, or the answer to a write never came.
ListsMatchRows ==
  Quiet => \A p \in Lists \ blurred : panel[p].at = "shown" => panel[p].rows = mailRows[p]

\* A verdict the page holds for final is the server's, and the records are those of it.
DnsIsCurrent ==
  Quiet /\ shownStatus \in Settled /\ "status" \notin blurred =>
    /\ shownStatus = mailZone.verdict
    /\ panel["dns"].at = "shown" /\ "dns" \notin blurred => panel["dns"].rows = {mailZone.records}

MailPageIsTrue == PasswordIsShown /\ ListsMatchRows /\ DnsIsCurrent
=============================================================================
