---------------------------- MODULE MailDomains -----------------------------
(***************************************************************************)
(* Domains of a mail instance: made in Stalwart and then written as rows,  *)
(* and verified by a sweep that looks every record up in DNS.              *)
(***************************************************************************)
EXTENDS Naturals, FiniteSets

CONSTANTS
  Fqdns,         \* domains
  Batch,         \* mail-dns-verify.service.ts: BATCH (100)
  MaxVerifyAsks, \* bound: requests to verify again
  MaxMailDeaths  \* bound: deaths of the process

\* Two kinds stand for the required mx, spf, dkim and dmarc, one for the advisory ones.
RecordKinds    == {"mx", "dkim", "caa"}
Required == {"mx", "dkim"}

ASSUME MailDomainsAssumption == IsFiniteSet(Fqdns) /\ Batch \in Nat \ {0} /\ MaxVerifyAsks \in Nat

VARIABLES
  adding,     \* the request under way for a domain
  hosted,     \* domains Stalwart has
  verdict,    \* mail_domains.verification_status, "none" without a row
  records,    \* mail_dns_records.status, "none" without a row
  sweep,      \* the sweep: the domains it picked, the one it is at, what it has seen
  verifyAsks, mailDeaths

mailDomainVars == <<adding, hosted, verdict, records, sweep, verifyAsks, mailDeaths>>

NoRecords == [k \in RecordKinds |-> "none"]
NoSweep   == [at |-> "idle", todo |-> {}, on |-> "none", seen |-> NoRecords]

\* Rows of mail_domains and of mail_dns_records.
DomainStatus == {"none", "pending", "verifying", "verified", "failed"}
RecordRows   == [RecordKinds -> DomainStatus]

MailDomainsTypeOK ==
  /\ adding \in [Fqdns -> {"no", "stalwart", "domain", "records", "verdict"}] /\ hosted \subseteq Fqdns
  /\ verdict \in [Fqdns -> DomainStatus]
  /\ records \in [Fqdns -> RecordRows]
  /\ sweep.at \in {"idle", "next", "look", "write", "roll"} /\ sweep.todo \subseteq Fqdns
  /\ Cardinality(sweep.todo) <= Batch

MailDomainsInit ==
  /\ adding = [d \in Fqdns |-> "no"] /\ hosted = {} /\ sweep = NoSweep
  /\ verdict = [d \in Fqdns |-> "none"] /\ records = [d \in Fqdns |-> NoRecords]
  /\ verifyAsks = 0 /\ mailDeaths = 0

Bounds == <<verifyAsks, mailDeaths>>

(***************************************************************************)
(* addDomain: Stalwart, the domain's row, and its records in one insert.   *)
(***************************************************************************)
AddDomain(d) ==
  /\ adding[d] = "no" /\ verdict[d] = "none" /\ adding' = [adding EXCEPT ![d] = "stalwart"]
  /\ UNCHANGED <<hosted, verdict, records, sweep, Bounds>>

CreateInStalwart(d) ==
  /\ adding[d] = "stalwart" /\ adding' = [adding EXCEPT ![d] = "domain"] /\ hosted' = hosted \cup {d}
  /\ UNCHANGED <<verdict, records, sweep, Bounds>>

InsertDomain(d) ==
  /\ adding[d] = "domain" /\ adding' = [adding EXCEPT ![d] = "records"]
  /\ verdict' = [verdict EXCEPT ![d] = "pending"]
  /\ UNCHANGED <<hosted, records, sweep, Bounds>>

InsertRecords(d) ==
  /\ adding[d] = "records" /\ adding' = [adding EXCEPT ![d] = "no"]
  /\ records' = [records EXCEPT ![d] = [k \in RecordKinds |-> "pending"]]
  /\ UNCHANGED <<hosted, verdict, sweep, Bounds>>

\* requestVerification: the records first.
RequestVerification(d) ==
  /\ verdict[d] # "none" /\ adding[d] = "no" /\ verifyAsks < MaxVerifyAsks /\ verifyAsks' = verifyAsks + 1
  /\ adding' = [adding EXCEPT ![d] = "verdict"]
  /\ records' = [records EXCEPT ![d] = [k \in RecordKinds |-> IF @[k] = "none" THEN "none" ELSE "verifying"]]
  /\ UNCHANGED <<hosted, verdict, sweep, mailDeaths>>

MarkVerifying(d) ==
  /\ adding[d] = "verdict" /\ adding' = [adding EXCEPT ![d] = "no"]
  /\ verdict' = [verdict EXCEPT ![d] = "verifying"]
  /\ UNCHANGED <<hosted, records, sweep, Bounds>>

(***************************************************************************)
(* The sweep, every two minutes.                                           *)
(***************************************************************************)
Awaiting == {d \in Fqdns : verdict[d] \in {"pending", "verifying"}}

\* At most Batch of those that wait, in no order.
RunMailDnsVerify ==
  /\ sweep = NoSweep /\ Awaiting # {}
  /\ \E s \in SUBSET Awaiting :
       /\ Cardinality(s) = IF Cardinality(Awaiting) < Batch THEN Cardinality(Awaiting) ELSE Batch
       /\ sweep' = [NoSweep EXCEPT !.at = "next", !.todo = s]
  /\ UNCHANGED <<adding, hosted, verdict, records, Bounds>>

\* A domain without records is left as it is.
NextDomain ==
  /\ sweep.at = "next"
  /\ IF sweep.todo = {} THEN sweep' = NoSweep
     ELSE \E d \in sweep.todo :
            sweep' = IF records[d] = NoRecords THEN [sweep EXCEPT !.todo = @ \ {d}]
                     ELSE [sweep EXCEPT !.todo = @ \ {d}, !.at = "look", !.on = d, !.seen = NoRecords]
  /\ UNCHANGED <<adding, hosted, verdict, records, Bounds>>

\* Errors are no values, and no values fail a required kind.
VerifyRecord(k, found) ==
  IF found THEN "verified" ELSE IF k \in Required THEN "failed" ELSE "verifying"

\* The owner publishes and withdraws records between two lookups, and a lookup may time out:
\* any record may be found or not.  The rows come in an order of their own.
LookUp ==
  /\ sweep.at = "look"
  /\ \E found \in BOOLEAN :
       LET k    == CHOOSE j \in RecordKinds : sweep.seen[j] = "none"
           seen == [sweep.seen EXCEPT ![k] = VerifyRecord(k, found)]
       IN  sweep' = [sweep EXCEPT !.seen = seen,
                                  !.at = IF \A j \in RecordKinds : seen[j] # "none" THEN "write" ELSE "look"]
  /\ UNCHANGED <<adding, hosted, verdict, records, Bounds>>

WriteRecords ==
  /\ sweep.at = "write" /\ sweep' = [sweep EXCEPT !.at = "roll"]
  /\ records' = [records EXCEPT ![sweep.on] = sweep.seen]
  /\ UNCHANGED <<adding, hosted, verdict, Bounds>>

\* Faulty: a kind that is not refuted is good enough.
RollupLenient(seen) ==
  CASE \E k \in RecordKinds : seen[k] = "verified" -> "verified"
    [] \A k \in Required : seen[k] = "failed" -> "failed"
    [] OTHER -> "verifying"

Rollup(seen) ==
  CASE \E k \in Required : seen[k] = "failed" -> "failed"
    [] \A k \in Required : seen[k] = "verified" -> "verified"
    [] OTHER -> "verifying"

WriteVerdict ==
  /\ sweep.at = "roll" /\ sweep' = [sweep EXCEPT !.at = "next", !.on = "none", !.seen = NoRecords]
  /\ verdict' = [verdict EXCEPT ![sweep.on] = Rollup(sweep.seen)]
  /\ UNCHANGED <<adding, hosted, records, Bounds>>

MailProcessDies ==
  /\ mailDeaths < MaxMailDeaths /\ mailDeaths' = mailDeaths + 1
  /\ sweep' = NoSweep /\ adding' = [d \in Fqdns |-> "no"]
  /\ UNCHANGED <<hosted, verdict, records, verifyAsks>>

MailSweepStep == RunMailDnsVerify \/ NextDomain \/ LookUp \/ WriteRecords \/ WriteVerdict

MailDomainsNext ==
  \/ MailSweepStep \/ MailProcessDies
  \/ \E d \in Fqdns : \/ AddDomain(d) \/ CreateInStalwart(d) \/ InsertDomain(d) \/ InsertRecords(d)
                      \/ RequestVerification(d) \/ MarkVerifying(d)

AddStep(d) == CreateInStalwart(d) \/ InsertDomain(d) \/ InsertRecords(d) \/ MarkVerifying(d)

\* The sweep ticks, and requests end.
MailDomainsFairness == WF_mailDomainVars(MailSweepStep) /\ \A d \in Fqdns : WF_mailDomainVars(AddStep(d))

MailDomainsSpec == MailDomainsInit /\ [][MailDomainsNext]_mailDomainVars /\ MailDomainsFairness

(***************************************************************************)
(* Properties.                                                             *)
(***************************************************************************)

\* verify.ts:4-5: "A domain rolls up to `verified` only when every required kind aligns":
\* whatever is published, withdrawn, asked for and lost between the lookups of a sweep,
\* each required kind was found by the sweep that says so.
VerifiedOnSight ==
  [][\A d \in Fqdns : verdict[d] # "verified" /\ verdict'[d] = "verified" =>
       sweep.on = d /\ \A k \in Required : sweep.seen[k] = "verified"]_mailDomainVars

\* Domains that wait without a record: the process died between their two inserts.  No sweep
\* answers for them, and each picks them again.
Orphans == {d \in Awaiting : records[d] = NoRecords /\ adding[d] # "records"}

\* A domain whose records are written gets its answer with other domains waiting, requests to
\* verify it again and deaths of the process (the cron is "every 2 min while domains are
\* pending", mail-dns-verify.service.ts:23), unless as many orphans as a batch holds wait
\* beside it: then a sweep, which takes any Batch of those that wait, may never pick it.
VerificationEnds ==
  \A d \in Fqdns : (verdict[d] \in {"pending", "verifying"} /\ records[d] # NoRecords)
                     ~> verdict[d] \in {"verified", "failed"} \/ Cardinality(Orphans) >= Batch

\* A verification ends, and says "verified" on sight only.
VerificationIsSound == VerificationEnds /\ VerifiedOnSight
=============================================================================
