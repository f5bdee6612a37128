------------------------------ MODULE Mailboxes ------------------------------
(***************************************************************************)
(* Mailboxes of one domain: accounts in Stalwart, which alone knows their  *)
(* passwords, and the rows that mirror them.                               *)
(***************************************************************************)
EXTENDS Naturals

CONSTANTS
  LocalParts,    \* addresses
  BoxIds,        \* mailboxes that may be created
  BoxCalls,      \* bound: requests at a time
  MaxBoxFaults   \* bound: calls to Stalwart that fail, inserts that fail, deaths of the process

NoBox == "none"
ASSUME MailboxesAssumption == NoBox \notin BoxIds \cup LocalParts /\ MaxBoxFaults \in Nat

VARIABLES
  accounts,   \* Stalwart: address -> the creation that set its password
  boxRows,    \* mailboxes: id -> address
  boxCalls,   \* requests under way
  handedOver, \* mailboxes whose password was shown to the caller
  unwanted,   \* mailboxes whose deletion was asked for, or whose account a late deletion
              \* or another creation of the address took
  boxFaults

mailboxVars == <<accounts, boxRows, boxCalls, handedOver, unwanted, boxFaults>>

NoBoxCall == [at |-> "none", id |-> NoBox, address |-> NoBox]

\* Rows of mailboxes, and the accounts in Stalwart.
MailboxRow == LocalParts \cup {NoBox}
Account    == BoxIds \cup {NoBox}

MailboxesTypeOK ==
  /\ accounts \in [LocalParts -> Account] /\ boxRows \in [BoxIds -> MailboxRow]
  /\ boxCalls \in [BoxCalls -> [at : {"none", "create", "insert", "remove", "delete"},
                                id : BoxIds \cup {NoBox}, address : LocalParts \cup {NoBox}]]
  /\ handedOver \subseteq BoxIds /\ unwanted \subseteq BoxIds /\ boxFaults \in 0..MaxBoxFaults

MailboxesInit ==
  /\ accounts = [a \in LocalParts |-> NoBox] /\ boxRows = [b \in BoxIds |-> NoBox]
  /\ boxCalls = [c \in BoxCalls |-> NoBoxCall] /\ handedOver = {} /\ unwanted = {} /\ boxFaults = 0

BoxAt(c, at)  == boxCalls[c].at = at
BoxTo(c, at)  == boxCalls' = [boxCalls EXCEPT ![c].at = at]
BoxAnswers(c) == boxCalls' = [boxCalls EXCEPT ![c] = NoBoxCall]

CreateMailbox(c) ==
  /\ boxCalls[c] = NoBoxCall
  /\ \E b \in BoxIds \ (handedOver \cup unwanted), a \in LocalParts :
       /\ boxRows[b] = NoBox /\ \A k \in BoxCalls : boxCalls[k].id # b
       /\ \A x \in LocalParts : accounts[x] # b
       /\ boxCalls' = [boxCalls EXCEPT ![c] = [at |-> "create", id |-> b, address |-> a]]
  /\ UNCHANGED <<accounts, boxRows, handedOver, unwanted, boxFaults>>

\* Faulty: an account that is there is taken for the one that was asked for.
CreateAccountUnlessThere(c) ==
  LET a == boxCalls[c].address IN
  /\ BoxAt(c, "create") /\ BoxTo(c, "insert")
  /\ accounts' = IF accounts[a] = NoBox THEN [accounts EXCEPT ![a] = boxCalls[c].id] ELSE accounts
  /\ UNCHANGED <<boxRows, handedOver, unwanted, boxFaults>>

\* Stalwart creates the account or updates the one that is there, which then has the new
\* password (stalwart/client.ts:7-8); or it refuses a name that it has.
CreateAccount(c) ==
  LET a == boxCalls[c].address IN
  /\ BoxAt(c, "create")
  /\ \/ /\ BoxTo(c, "insert") /\ accounts' = [accounts EXCEPT ![a] = boxCalls[c].id]
        /\ unwanted' = unwanted \cup ({accounts[a]} \ {NoBox})
     \/ accounts[a] # NoBox /\ BoxAnswers(c) /\ UNCHANGED <<accounts, unwanted>>
  /\ UNCHANGED <<boxRows, handedOver, boxFaults>>

\* The index on the address refuses a second row: the account stays, its password lost.
InsertMailbox(c) ==
  /\ BoxAt(c, "insert") /\ BoxAnswers(c)
  /\ IF \E b \in BoxIds : boxRows[b] = boxCalls[c].address THEN UNCHANGED <<boxRows, handedOver>>
     ELSE /\ boxRows' = [boxRows EXCEPT ![boxCalls[c].id] = boxCalls[c].address]
          /\ handedOver' = handedOver \cup {boxCalls[c].id}
  /\ UNCHANGED <<accounts, unwanted, boxFaults>>

DeleteMailbox(c) ==
  /\ boxCalls[c] = NoBoxCall
  /\ \E b \in BoxIds :
       /\ boxRows[b] # NoBox /\ unwanted' = unwanted \cup {b}
       /\ boxCalls' = [boxCalls EXCEPT ![c] = [at |-> "remove", id |-> b, address |-> boxRows[b]]]
  /\ UNCHANGED <<accounts, boxRows, handedOver, boxFaults>>

\* By address.  An account that is not there is an error, and the request ends with it.
RemoveAccount(c) ==
  LET a == boxCalls[c].address IN
  /\ BoxAt(c, "remove")
  /\ IF accounts[a] = NoBox THEN BoxAnswers(c) /\ UNCHANGED <<accounts, unwanted>>
     ELSE /\ BoxTo(c, "delete") /\ accounts' = [accounts EXCEPT ![a] = NoBox]
          /\ unwanted' = unwanted \cup {accounts[a]}
  /\ UNCHANGED <<boxRows, handedOver, boxFaults>>

DeleteMailboxRow(c) ==
  /\ BoxAt(c, "delete") /\ BoxAnswers(c) /\ boxRows' = [boxRows EXCEPT ![boxCalls[c].id] = NoBox]
  /\ UNCHANGED <<accounts, handedOver, unwanted, boxFaults>>

BoxStepFails(c) ==
  /\ boxFaults < MaxBoxFaults /\ boxFaults' = boxFaults + 1
  /\ boxCalls[c].at # "none" /\ BoxAnswers(c)
  /\ UNCHANGED <<accounts, boxRows, handedOver, unwanted>>

BoxProcessDies ==
  /\ boxFaults < MaxBoxFaults /\ boxFaults' = boxFaults + 1
  /\ boxCalls' = [c \in BoxCalls |-> NoBoxCall]
  /\ UNCHANGED <<accounts, boxRows, handedOver, unwanted>>

MailboxesNext ==
  \/ BoxProcessDies
  \/ \E c \in BoxCalls : \/ CreateMailbox(c) \/ CreateAccount(c) \/ InsertMailbox(c) \/ DeleteMailbox(c)
                         \/ RemoveAccount(c) \/ DeleteMailboxRow(c) \/ BoxStepFails(c)

MailboxesSpec == MailboxesInit /\ [][MailboxesNext]_mailboxVars

(***************************************************************************)
(* Properties.                                                             *)
(***************************************************************************)

\* A password that was shown ("shown once; never stored") opens the mailbox it was shown
\* for until somebody asks for its deletion, a deletion of its address that began before
\* comes through, or somebody asks for a mailbox of the same address: that request is
\* answered with an error, the row being there, but Stalwart has the new password by then
\* (mail.service.ts:391-430).  No other request, failure or death comes between.
ShownPasswordWorks ==
  \A b \in handedOver \ unwanted : boxRows[b] # NoBox /\ accounts[boxRows[b]] = b
=============================================================================
