------------------------------- MODULE Access -------------------------------
(***************************************************************************)
(* Who may do what in an organization: memberships, invites and API keys.  *)
(* A request acts with the role its credential had when it arrived; what   *)
(* it checks it reads, and what it writes it writes later.                 *)
(***************************************************************************)
EXTENDS Naturals, FiniteSets

CONSTANTS
  Users,      \* users that can sign in
  Founder,    \* the one seedAdmin makes
  InviteIds,  \* invites that may be created
  KeyIds,     \* API keys that may be created
  Requests,   \* bound: requests at a time
  GivenRoles  \* bound: roles that requests and invites give

Roles      == {"owner", "admin", "deployer", "viewer"}
Privileged == {"owner", "admin"}

ASSUME AccessAssumption == IsFiniteSet(Users) /\ Founder \in Users /\ GivenRoles \subseteq Roles

VARIABLES
  role,      \* memberships
  vouched,   \* the membership's role was given by an owner
  invites,   \* org_invites
  keys,      \* api_keys
  requests   \* requests under way

accessVars == <<role, vouched, invites, keys, requests>>

NoInvite  == [status |-> "none", role |-> "none", to |-> "none", by |-> "none"]
NoRequest == [op |-> "none", at |-> "none", as |-> "none", on |-> "none", give |-> "none",
              saw |-> "none", owners |-> 0]

\* Rows of memberships, org_invites and api_keys.
Membership   == Roles \cup {"none"}
InviteRow    == [status : {"none", "pending", "accepted", "revoked", "expired"},
                 role : Membership, to : Users \cup {"none"}, by : Membership]
ApiKeyStatus == {"none", "live", "revoked", "expired"}

\* Where a request is, and what it has seen of its target and of the owners.
RequestState == [op : {"none", "change", "remove", "accept"},
                 at : {"none", "read", "write", "lookup", "mark"},
                 as : Membership, on : Users \cup InviteIds \cup {"none"},
                 give : Membership, saw : Membership, owners : 0..Cardinality(Users)]

AccessTypeOK ==
  /\ role \in [Users -> Membership] /\ vouched \in [Users -> BOOLEAN]
  /\ invites \in [InviteIds -> InviteRow] /\ keys \in [KeyIds -> ApiKeyStatus]
  /\ requests \in [Requests -> RequestState]

AccessInit ==
  /\ role = [u \in Users |-> IF u = Founder THEN "owner" ELSE "none"]
  /\ vouched = [u \in Users |-> u = Founder]
  /\ invites = [i \in InviteIds |-> NoInvite] /\ keys = [k \in KeyIds |-> "none"]
  /\ requests = [q \in Requests |-> NoRequest]

(***************************************************************************)
(* Credentials.                                                            *)
(***************************************************************************)
\* A session acts with the user's membership, a key as a deployer.
ResolvesTo(r) ==
  \/ r \in Roles /\ \E u \in Users : role[u] = r
  \/ r = "deployer" /\ \E k \in KeyIds : keys[k] = "live"

Grants(r, perm) ==
  CASE perm = "member:write" -> r \in Privileged
    [] perm = "apikey:write" -> r \in Privileged
    [] OTHER -> r \in Roles

Arrives(q, request) == requests[q] = NoRequest /\ requests' = [requests EXCEPT ![q] = request]
Goes(q, at) == requests' = [requests EXCEPT ![q].at = at]
Answers(q)  == requests' = [requests EXCEPT ![q] = NoRequest]

(***************************************************************************)
(* Members.                                                                *)
(***************************************************************************)
ChangeMemberRole(q) ==
  /\ \E r \in Roles, u \in Users, new \in GivenRoles :
       /\ ResolvesTo(r) /\ Grants(r, "member:write")
       /\ Arrives(q, [NoRequest EXCEPT !.op = "change", !.at = "read", !.as = r, !.on = u, !.give = new])
  /\ UNCHANGED <<role, vouched, invites, keys>>

RemoveMember(q) ==
  /\ \E r \in Roles, u \in Users :
       /\ ResolvesTo(r) /\ Grants(r, "member:write")
       /\ Arrives(q, [NoRequest EXCEPT !.op = "remove", !.at = "read", !.as = r, !.on = u])
  /\ UNCHANGED <<role, vouched, invites, keys>>

\* Faulty: nothing looks at the role that is given.
MemberChangeCheckNoCeiling(q) ==
  /\ q.as \in Privileged
  /\ q.saw = "owner" => q.as = "owner" /\ (q.give = "owner" \/ q.owners > 1)

MemberChangeCheck(q) ==
  /\ q.as \in Privileged
  /\ q.saw = "owner" => q.as = "owner" /\ (q.give = "owner" \/ q.owners > 1)
  /\ q.give \in Privileged => q.as = "owner"

\* The target and, in a second query, the number of owners; then the check.
TargetAndOwnerCount(q) ==
  /\ requests[q].at = "read"
  /\ LET seen == [requests[q] EXCEPT !.at = "write", !.saw = role[requests[q].on],
                    !.owners = Cardinality({u \in Users : role[u] = "owner"})]
     IN IF seen.saw # "none" /\ MemberChangeCheck(seen)
        THEN requests' = [requests EXCEPT ![q] = seen] ELSE Answers(q)
  /\ UNCHANGED <<role, vouched, invites, keys>>

\* By the id of the row, whatever has become of it.
WriteMember(q) ==
  /\ requests[q].at = "write"
  /\ LET u == requests[q].on IN
     IF role[u] = "none" THEN UNCHANGED <<role, vouched>>
     ELSE /\ role' = [role EXCEPT ![u] = requests[q].give]
          /\ vouched' = [vouched EXCEPT ![u] = requests[q].as = "owner"]
  /\ Answers(q) /\ UNCHANGED <<invites, keys>>

(***************************************************************************)
(* Invites.                                                                *)
(***************************************************************************)
InviteRoleAllowed(r, invited) == r = "owner" \/ (r = "admin" /\ invited \notin Privileged)

CreateInvite(i) ==
  /\ invites[i] = NoInvite
  /\ \E r \in Roles, u \in Users, invited \in GivenRoles :
       /\ ResolvesTo(r) /\ Grants(r, "member:write") /\ InviteRoleAllowed(r, invited)
       /\ invites' = [invites EXCEPT ![i] =
            [status |-> "pending", role |-> invited, to |-> u, by |-> r]]
  /\ UNCHANGED <<role, vouched, keys, requests>>

RevokeInvite(i) ==
  /\ invites[i].status = "pending"
  /\ \E r \in Roles : ResolvesTo(r) /\ Grants(r, "member:write")
  /\ invites' = [invites EXCEPT ![i].status = "revoked"]
  /\ UNCHANGED <<role, vouched, keys, requests>>

InviteExpires(i) ==
  /\ invites[i].status = "pending" /\ invites' = [invites EXCEPT ![i].status = "expired"]
  /\ UNCHANGED <<role, vouched, keys, requests>>

\* The invitee, signed in with the invited address, pending and in time.
AcceptInvite(q) ==
  /\ \E i \in InviteIds :
       /\ invites[i].status = "pending"
       /\ Arrives(q, [NoRequest EXCEPT !.op = "accept", !.at = "lookup", !.on = i])
  /\ UNCHANGED <<role, vouched, invites, keys>>

\* A member stays what it is; the insert of a second row would be refused.
MintMembership(q) ==
  /\ requests[q].at = "lookup" /\ Goes(q, "mark")
  /\ LET i == invites[requests[q].on] IN
     IF role[i.to] # "none" THEN UNCHANGED <<role, vouched>>
     ELSE /\ role' = [role EXCEPT ![i.to] = i.role]
          /\ vouched' = [vouched EXCEPT ![i.to] = (i.by = "owner")]
  /\ UNCHANGED <<invites, keys>>

MarkAccepted(q) ==
  /\ requests[q].at = "mark" /\ Answers(q)
  /\ invites' = [invites EXCEPT ![requests[q].on].status = "accepted"]
  /\ UNCHANGED <<role, vouched, keys>>

(***************************************************************************)
(* API keys.                                                               *)
(***************************************************************************)

\* By an administrator, or by anyone for a device of his own.
CreateApiKey(k) ==
  /\ keys[k] = "none" /\ \E u \in Users : role[u] # "none"
  /\ keys' = [keys EXCEPT ![k] = "live"]
  /\ UNCHANGED <<role, vouched, invites, requests>>

RevokeApiKey(k) ==
  /\ keys[k] \in {"live", "expired"}
  /\ \E r \in Roles : ResolvesTo(r) /\ Grants(r, "apikey:write")
  /\ keys' = [keys EXCEPT ![k] = "revoked"]
  /\ UNCHANGED <<role, vouched, invites, requests>>

DeleteApiKey(k) ==
  /\ keys[k] # "none"
  /\ \E r \in Roles : ResolvesTo(r) /\ Grants(r, "apikey:write")
  /\ keys' = [keys EXCEPT ![k] = "none"]
  /\ UNCHANGED <<role, vouched, invites, requests>>

ApiKeyExpires(k) ==
  /\ keys[k] = "live" /\ keys' = [keys EXCEPT ![k] = "expired"]
  /\ UNCHANGED <<role, vouched, invites, requests>>

AccessNext ==
  \/ \E q \in Requests : \/ ChangeMemberRole(q) \/ RemoveMember(q) \/ TargetAndOwnerCount(q)
                         \/ WriteMember(q) \/ AcceptInvite(q) \/ MintMembership(q) \/ MarkAccepted(q)
  \/ \E i \in InviteIds : CreateInvite(i) \/ RevokeInvite(i) \/ InviteExpires(i)
  \/ \E k \in KeyIds : CreateApiKey(k) \/ RevokeApiKey(k) \/ DeleteApiKey(k) \/ ApiKeyExpires(k)

AccessSpec == AccessInit /\ [][AccessNext]_accessVars

(***************************************************************************)
(* Properties.                                                             *)
(***************************************************************************)

\* Nobody becomes an owner or an administrator but by an owner's doing, through no
\* sequence of invites, changes of role, removals and requests that were under way
\* (member-guards.ts:27-36, invite.ts:22-28).
PrivilegeFromOwner == \A u \in Users : role[u] \in Privileged => vouched[u]

\* member-guards.ts:4-6: "the last owner can never be demoted or removed - an org
\* without an owner is unrecoverable".
HasOwner == \E u \in Users : role[u] = "owner"
=============================================================================
