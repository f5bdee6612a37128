------------------------------- MODULE AppPage -------------------------------
(***************************************************************************)
(* The page of an application, its tabs for the environment, the domains   *)
(* and the webhook.  The environment is edited in a form, which a save     *)
(* sends whole; one load reads all of the page, in four requests, and      *)
(* overwrites what the tabs hold.  The secret of the webhook is only in    *)
(* the answer that made it.                                                *)
(***************************************************************************)
EXTENDS Naturals, Sequences, FiniteSets, SequencesExt

CONSTANTS
  PageKeys,    \* keys of variables
  MaskedKey,   \* the one that is a secret, which is read back masked
  PageFqdns,   \* domains that are typed
  MaxTabCalls, \* bound: requests of the page under way
  MaxTabClicks, \* bound: clicks that send one, edits of the form
  MaxTabFaults \* bound: reads that fail, writes that are refused or whose answer is lost

ASSUME AppPageAssumption == MaskedKey \in PageKeys /\ MaxTabCalls \in Nat /\ MaxTabClicks \in Nat /\ MaxTabFaults \in Nat

VARIABLES
  varRows,     \* the server's variables: the write that gave the value, or absent
  hookRow,     \* the number of the webhook's secret, 0 before there is one
  fqdnRows,
  appShown,    \* the application was read: before, the page is a skeleton or an error
  form,        \* the rows of the form; "masked" is a secret's empty box
  hookView,    \* none, or known and with which secret on display (0: with none)
  fqdnView,
  tabAsks,     \* requests not served yet
  tabReplies,  \* answers under way, in the order they were served
  tabClicks, tabFaults,
  edited,      \* keys the user has changed or removed since the form was read
  unread,      \* tabs that hold no answer yet or an overtaken one, or that miss a write's answer
  crossed,     \* two writes of one tab were under way together
  harmed       \* variables that a save changed though the user had not, in a form that was up to date

serverTabs == <<varRows, hookRow, fqdnRows>>
tabs       == <<form, hookView, fqdnView>>
tabGhosts  == <<edited, unread, crossed, harmed>>
appPageVars == <<serverTabs, appShown, tabs, tabAsks, tabReplies, tabClicks, tabFaults, tabGhosts>>

Typed   == {"old", "new"}
Parts   == {"app", "env", "domains", "webhook"}
NoView  == [known |-> FALSE, secret |-> 0]
Absent  == [k \in PageKeys |-> "absent"]

\* A variable's row, its row in the form, and what is kept of the webhook.
VarRow   == Typed \cup {"absent"}
FormRow  == VarRow \cup {"masked"}
HookView == [known : BOOLEAN, secret : Nat]

AppPageTypeOK ==
  /\ varRows \in [PageKeys -> VarRow] /\ hookRow \in Nat /\ fqdnRows \cup fqdnView \subseteq PageFqdns
  /\ appShown \in BOOLEAN /\ form \in [PageKeys -> FormRow]
  /\ hookView \in HookView /\ Len(tabAsks) + Len(tabReplies) <= MaxTabCalls + 1
  /\ edited \cup harmed \subseteq PageKeys /\ unread \cup crossed \subseteq Parts
  /\ tabClicks \in 0..MaxTabClicks /\ tabFaults \in 0..MaxTabFaults

Pending(of) == \E s \in {tabAsks, tabReplies} : \E n \in DOMAIN s : s[n].of = of

TabAsk(kind, of, sends) ==
  [kind |-> kind, of |-> of, sends |-> sends, touched |-> {}, left |-> IF kind = "load" THEN Parts ELSE {},
   ok |-> {}, old |-> {}, env |-> Absent, domains |-> {}, webhook |-> NoView]
LoadAll == TabAsk("load", "all", "none")

AppPageInit ==
  /\ varRows = [k \in PageKeys |-> "old"] /\ hookRow = 0 /\ fqdnRows = {}
  /\ appShown = FALSE /\ form = Absent /\ hookView = NoView /\ fqdnView = {}
  /\ tabAsks = <<LoadAll>> /\ tabReplies = <<>> /\ tabClicks = 0 /\ tabFaults = 0
  /\ edited = {} /\ unread = Parts /\ crossed = {} /\ harmed = {}

Click(ask) ==
  /\ appShown /\ Len(tabAsks) + Len(tabReplies) < MaxTabCalls /\ tabAsks' = Append(tabAsks, ask)
  /\ crossed' = IF Pending(ask.of) THEN crossed \cup {ask.of} ELSE crossed

(***************************************************************************)
(* The user.  No button of these tabs is disabled while a request is out.  *)
(***************************************************************************)

\* The inputs, Add and the cross of the form; an emptied secret is a masked one again.
EditForm(k, v) ==
  /\ appShown /\ v # form[k] /\ (v = "masked" => k = MaskedKey)
  /\ form' = [form EXCEPT ![k] = v] /\ edited' = edited \cup {k}
  /\ UNCHANGED <<serverTabs, appShown, hookView, fqdnView, tabAsks, tabReplies, unread, crossed, harmed>>

\* What it may touch is what the user meant to change; of a form that may be out of date, all.
SaveEnv ==
  /\ Click([TabAsk("put", "env", form) EXCEPT
             !.touched = IF "env" \in unread THEN PageKeys ELSE edited])
  /\ UNCHANGED <<serverTabs, appShown, tabs, tabReplies, edited, unread, harmed>>

AddFqdn(d) ==
  /\ Click(TabAsk("add", "domains", d))
  /\ UNCHANGED <<serverTabs, appShown, tabs, tabReplies, edited, unread, harmed>>

\* The tab offers a cross for each domain it lists.
ListedFqdns == IF appShown THEN fqdnView ELSE {}

RemoveFqdn(d) ==
  /\ d \in ListedFqdns /\ Click(TabAsk("drop", "domains", d))
  /\ UNCHANGED <<serverTabs, appShown, tabs, tabReplies, edited, unread, harmed>>

\* createWebhook: Create or Rotate, whichever the page believes.
RotateWebhook ==
  /\ Click(TabAsk("rotate", "webhook", "none"))
  /\ UNCHANGED <<serverTabs, appShown, tabs, tabReplies, edited, unread, harmed>>

\* onRetry of the error that stands for a page that was never read.
RetryPage ==
  /\ ~appShown /\ tabAsks = <<>> /\ tabReplies = <<>> /\ tabAsks' = <<LoadAll>>
  /\ UNCHANGED <<serverTabs, appShown, tabs, tabReplies, tabGhosts>>

(***************************************************************************)
(* The server, in any order.                                               *)
(***************************************************************************)

Mask(rows) == [k \in PageKeys |-> IF k = MaskedKey /\ rows[k] # "absent" THEN "masked" ELSE rows[k]]
Reads(a, p) ==
  CASE p = "env"     -> [a EXCEPT !.env = Mask(varRows)]
    [] p = "domains" -> [a EXCEPT !.domains = fqdnRows]
    [] p = "webhook" -> [a EXCEPT !.webhook = [known |-> hookRow > 0, secret |-> 0]]
    [] OTHER         -> a

\* One of the four requests of a load, or the list of the domains; an application without
\* a webhook is a failure too, which the page takes for what it is. The application's own
\* row does not change, and is read first.
ServeTab(n, p, fails) ==
  LET a == tabAsks[n]  b == [IF fails THEN a ELSE Reads(a, p) EXCEPT !.left = @ \ {p}, !.ok = IF fails THEN @ ELSE @ \cup {p}] IN
  /\ p \in a.left /\ (p # "app" => "app" \notin a.left)
  /\ IF b.left = {} THEN tabAsks' = RemoveAt(tabAsks, n) /\ tabReplies' = Append(tabReplies, b)
     ELSE tabAsks' = [tabAsks EXCEPT ![n] = b] /\ tabReplies' = tabReplies
  /\ UNCHANGED <<serverTabs, appShown, tabs, tabGhosts>>

\* setEnv: a masked secret keeps its value, and is refused when there is none.
StoredVars(a) == [k \in PageKeys |-> IF a.sends[k] = "masked" THEN varRows[k] ELSE a.sends[k]]
Refused(a) ==
  \/ a.kind = "put"  /\ a.sends[MaskedKey] = "masked" /\ varRows[MaskedKey] = "absent"
  \/ a.kind = "add"  /\ a.sends \in fqdnRows
  \/ a.kind = "drop" /\ a.sends \notin fqdnRows

\* What of the same tab was read and is under way was read before this write.
ReadBefore(s, p) ==
  [n \in DOMAIN s |-> IF s[n].kind \in {"load", "list"} /\ p \notin s[n].left THEN [s[n] EXCEPT !.old = @ \cup {p}] ELSE s[n]]

\* A save whose form was replaced before it was served leaves the new one behind the rows.
Outdates(a) == a.kind = "put" /\ ~(a.touched \subseteq edited)

ServeTabWrite(n, refuses, told) ==
  LET a == tabAsks[n]  done == ~refuses /\ ~Refused(a) IN
  /\ a.kind \notin {"load", "list"}
  /\ varRows' = IF done /\ a.kind = "put" THEN StoredVars(a) ELSE varRows
  /\ hookRow' = IF done /\ a.kind = "rotate" THEN hookRow + 1 ELSE hookRow
  /\ fqdnRows' = IF ~done THEN fqdnRows ELSE CASE a.kind = "add" -> fqdnRows \cup {a.sends}
                   [] a.kind = "drop" -> fqdnRows \ {a.sends} [] OTHER -> fqdnRows
  /\ tabAsks' = RemoveAt(IF done THEN ReadBefore(tabAsks, a.of) ELSE tabAsks, n)
  /\ tabReplies' = Append(IF done THEN ReadBefore(tabReplies, a.of) ELSE tabReplies,
                          [a EXCEPT !.ok = IF done /\ told THEN {a.of} ELSE {}, !.webhook = [known |-> TRUE, secret |-> hookRow']])
  /\ unread' = IF done /\ (~told \/ Outdates(a)) THEN unread \cup {a.of} ELSE unread
  /\ harmed' = harmed \cup {k \in PageKeys \ a.touched : "env" \notin crossed /\ varRows'[k] # varRows[k]}
  /\ UNCHANGED <<appShown, tabs, edited, crossed>>

(***************************************************************************)
(* The answers, in any order.                                              *)
(***************************************************************************)

Later(s, n, ps) == RemoveAt([m \in DOMAIN s |-> IF m < n THEN [s[m] EXCEPT !.old = @ \cup ps] ELSE s[m]], n)

\* loadAll: what could be read replaces what the tabs hold, edits included, and a webhook
\* that could not be read counts as none.
ArriveLoadAll(n) ==
  LET a == tabReplies[n] IN
  /\ a.kind = "load" /\ tabReplies' = Later(tabReplies, n, a.ok)
  /\ appShown' = (appShown \/ "app" \in a.ok)
  /\ form' = IF "env" \in a.ok THEN a.env ELSE form
  /\ edited' = IF "env" \in a.ok THEN {} ELSE edited
  /\ fqdnView' = IF "domains" \in a.ok THEN a.domains ELSE fqdnView
  /\ hookView' = IF "webhook" \in a.ok THEN a.webhook ELSE NoView
  /\ unread' = (unread \cup (Parts \ a.ok) \cup a.old) \ (a.ok \ a.old)
  /\ UNCHANGED <<serverTabs, tabAsks, crossed, harmed>>

\* saveEnv: all of the page is read again.
ArriveSaved(n) ==
  LET a == tabReplies[n] IN
  /\ a.kind = "put" /\ tabReplies' = RemoveAt(tabReplies, n)
  /\ tabAsks' = IF a.ok # {} THEN Append(tabAsks, LoadAll) ELSE tabAsks
  /\ UNCHANGED <<serverTabs, appShown, tabs, tabGhosts>>

\* addDomain reads the list again, removeDomain takes the row out of the one on display.
ArriveFqdn(n) ==
  LET a == tabReplies[n] IN
  /\ a.kind \in {"add", "drop"} /\ tabReplies' = RemoveAt(tabReplies, n)
  /\ tabAsks' = IF a.kind = "add" /\ a.ok # {} THEN Append(tabAsks, [TabAsk("list", "domains", "none") EXCEPT !.left = {"domains"}])
                ELSE tabAsks
  /\ fqdnView' = IF a.kind = "drop" /\ a.ok # {} THEN fqdnView \ {a.sends} ELSE fqdnView
  /\ UNCHANGED <<serverTabs, appShown, form, hookView, tabGhosts>>

ArriveFqdns(n) ==
  LET a == tabReplies[n] IN
  /\ a.kind = "list" /\ tabReplies' = Later(tabReplies, n, a.ok)
  /\ fqdnView' = IF a.ok # {} THEN a.domains ELSE fqdnView
  /\ unread' = IF a.ok # {} /\ a.old = {} THEN unread \ {"domains"} ELSE unread \cup {"domains"}
  /\ UNCHANGED <<serverTabs, appShown, form, hookView, tabAsks, edited, crossed, harmed>>

ArriveWebhook(n) ==
  LET a == tabReplies[n] IN
  /\ a.kind = "rotate" /\ tabReplies' = Later(tabReplies, n, a.ok)
  /\ hookView' = IF a.ok # {} THEN a.webhook ELSE hookView
  /\ unread' = unread \ a.ok
  /\ UNCHANGED <<serverTabs, appShown, form, fqdnView, tabAsks, edited, crossed, harmed>>

AppPageNext ==
  \/ /\ tabClicks < MaxTabClicks /\ tabClicks' = tabClicks + 1 /\ UNCHANGED tabFaults
     /\ \/ \E k \in PageKeys : \E v \in {"new", "absent", "masked"} : EditForm(k, v)
        \/ SaveEnv \/ RotateWebhook \/ RetryPage
        \/ \E d \in PageFqdns : AddFqdn(d) \/ RemoveFqdn(d)
  \/ /\ UNCHANGED tabClicks
     /\ \E fails \in BOOLEAN :
          /\ fails => tabFaults < MaxTabFaults
          /\ tabFaults' = tabFaults + (IF fails THEN 1 ELSE 0)
          /\ \E n \in DOMAIN tabAsks :
               \/ \E p \in Parts : ServeTab(n, p, fails)
               \/ \E refuses \in {FALSE, fails} : ServeTabWrite(n, refuses, ~fails)
  \/ /\ UNCHANGED <<tabClicks, tabFaults>>
     /\ \E n \in DOMAIN tabReplies :
          ArriveLoadAll(n) \/ ArriveSaved(n) \/ ArriveFqdn(n) \/ ArriveFqdns(n) \/ ArriveWebhook(n)

\* A save changes only what the user changed in the form: it removes no variable and
\* replaces no secret besides. A form that could not be read or was read before another
\* save may do that, and so may two saves that cross.
UntouchedStays == harmed = {}

TabsQuiet == appShown /\ tabAsks = <<>> /\ tabReplies = <<>>

\* Once nothing is under way the tabs show what the server has: the domains, and the
\* variables the user has not changed since; unless their answers crossed, failed or got lost.
TabsMatchRows ==
  TabsQuiet =>
    /\ "domains" \notin unread \cup crossed => fqdnView = fqdnRows
    /\ "env" \notin unread \cup crossed => \A k \in PageKeys \ edited : form[k] = Mask(varRows)[k]
    /\ "webhook" \notin unread \cup crossed => hookView.known = (hookRow > 0)

\* A secret on display is the one deliveries are signed with, unless two rotations crossed or
\* an answer got lost.
SecretIsCurrent ==
  TabsQuiet /\ hookView.secret > 0 /\ "webhook" \notin unread \cup crossed => hookView.secret = hookRow

AppPageIsTrue == UntouchedStays /\ TabsMatchRows /\ SecretIsCurrent
=============================================================================
