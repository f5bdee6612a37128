--------------------------- MODULE TenantsProofs ----------------------------
(***************************************************************************)
(* Proofs about the components that hold what an organization owns, for    *)
(* every set of users, requests, turns, databases, replicas, mailboxes,    *)
(* services, install flows, webhook registrations, hosts and applications. *)
(***************************************************************************)
EXTENDS MCTenants, PagesProofs, WritesProofs, SharedProofs, TLAPS, FiniteSetTheorems, SequenceTheorems, WellFoundedInduction

(***************************************************************************)
(* Access.                                                                 *)
(***************************************************************************)

\* What a request is about: a member by the time it looks at the members, an invite by
\* the time it looks it up; and the invite has a row that names its invitee.
OnTarget(q) ==
  /\ requests[q].at \in {"read", "write"} => requests[q].on \in Users
  /\ requests[q].at \in {"lookup", "mark"} =>
       requests[q].on \in InviteIds /\ invites[requests[q].on].to \in Users

AccessTyped ==
  /\ AccessTypeOK
  /\ \A i \in InviteIds : invites[i].status # "none" => invites[i].to \in Users
  /\ \A q \in Requests : OnTarget(q)

LEMMA OwnersCounted == Cardinality({u \in Users : role[u] = "owner"}) \in 0..Cardinality(Users)
<1>1. {u \in Users : role[u] = "owner"} \subseteq Users
  OBVIOUS
<1> QED
  BY <1>1, AccessAssumption, FS_Subset, FS_CardinalityType

LEMMA NobodyCounted == 0 \in 0..Cardinality(Users) /\ Cardinality(Users) \in Nat
BY AccessAssumption, FS_CardinalityType

\* What a request that arrives knows of its target.
Knows(r) == /\ r.at \in {"read", "lookup"}
            /\ r.at = "read" => r.on \in Users
            /\ r.at = "lookup" => r.on \in InviteIds /\ invites[r.on].status = "pending"

LEMMA Arrival ==
  ASSUME NEW q \in Requests, ChangeMemberRole(q) \/ RemoveMember(q) \/ AcceptInvite(q)
  PROVE  \E r \in RequestState : Arrives(q, r) /\ Knows(r)
<1>1. CASE ChangeMemberRole(q)
  <2>1. PICK k \in Roles, u \in Users, new \in GivenRoles :
          Arrives(q, [NoRequest EXCEPT !.op = "change", !.at = "read", !.as = k, !.on = u, !.give = new])
    BY <1>1 DEF ChangeMemberRole
  <2> DEFINE r == [NoRequest EXCEPT !.op = "change", !.at = "read", !.as = k, !.on = u, !.give = new]
  <2>2. r \in RequestState /\ r.at = "read" /\ r.on = u
    BY NobodyCounted, AccessAssumption DEF NoRequest, RequestState, Membership
  <2> QED
    BY <2>1, <2>2 DEF Knows
<1>2. CASE RemoveMember(q)
  <2>1. PICK k \in Roles, u \in Users :
          Arrives(q, [NoRequest EXCEPT !.op = "remove", !.at = "read", !.as = k, !.on = u])
    BY <1>2 DEF RemoveMember
  <2> DEFINE r == [NoRequest EXCEPT !.op = "remove", !.at = "read", !.as = k, !.on = u]
  <2>2. r \in RequestState /\ r.at = "read" /\ r.on = u
    BY NobodyCounted DEF NoRequest, RequestState, Membership
  <2> QED
    BY <2>1, <2>2 DEF Knows
<1>3. CASE AcceptInvite(q)
  <2>1. PICK i \in InviteIds : invites[i].status = "pending"
          /\ Arrives(q, [NoRequest EXCEPT !.op = "accept", !.at = "lookup", !.on = i])
    BY <1>3 DEF AcceptInvite
  <2> DEFINE r == [NoRequest EXCEPT !.op = "accept", !.at = "lookup", !.on = i]
  <2>2. r \in RequestState /\ r.at = "lookup" /\ r.on = i
    BY NobodyCounted DEF NoRequest, RequestState, Membership
  <2> QED
    BY <2>1, <2>2 DEF Knows
<1> QED
  BY <1>1, <1>2, <1>3

LEMMA NoRequestTyped == NoRequest \in RequestState /\ NoRequest.at = "none"
BY NobodyCounted DEF NoRequest, RequestState, Membership

LEMMA RequestGoes ==
  ASSUME NEW r \in RequestState, NEW at \in {"write", "mark"}
  PROVE  /\ [r EXCEPT !.at = at] \in RequestState
         /\ [r EXCEPT !.at = at].at = at /\ [r EXCEPT !.at = at].on = r.on
BY DEF RequestState

LEMMA AccessTypedStep == AccessTyped /\ [AccessNext]_accessVars => AccessTyped'
<1> SUFFICES ASSUME AccessTyped, [AccessNext]_accessVars PROVE AccessTyped'
  OBVIOUS
<1> USE AccessAssumption DEF AccessTyped, AccessTypeOK, OnTarget, Membership, InviteRow, ApiKeyStatus, Roles
<1>1. CASE UNCHANGED accessVars
  BY <1>1 DEF accessVars
<1>2. ASSUME NEW q \in Requests, ChangeMemberRole(q) \/ RemoveMember(q) \/ AcceptInvite(q) PROVE AccessTyped'
  <2>1. PICK r \in RequestState : Arrives(q, r) /\ Knows(r)
    BY <1>2, Arrival
  <2>2. requests' = [requests EXCEPT ![q] = r]
    BY <2>1 DEF Arrives
  <2>3. UNCHANGED <<role, vouched, invites, keys>>
    BY <1>2 DEF ChangeMemberRole, RemoveMember, AcceptInvite
  <2> QED
    BY <2>1, <2>2, <2>3 DEF Knows
<1>3. ASSUME NEW q \in Requests, TargetAndOwnerCount(q) PROVE AccessTyped'
  <2> DEFINE owned == Cardinality({u \in Users : role[u] = "owner"})
             seen  == [requests[q] EXCEPT !.at = "write", !.saw = role[requests[q].on], !.owners = owned]
  <2>1. requests[q] \in RequestState /\ requests[q].on \in Users /\ role[requests[q].on] \in Membership
    BY <1>3 DEF TargetAndOwnerCount
  <2>2. owned \in 0..Cardinality(Users)
    BY OwnersCounted
  <2> HIDE DEF owned
  <2>3. seen \in RequestState /\ seen.at = "write" /\ seen.on \in Users
    BY <2>1, <2>2 DEF RequestState
  <2>4. requests' = [requests EXCEPT ![q] = seen] \/ requests' = [requests EXCEPT ![q] = NoRequest]
    BY <1>3 DEF TargetAndOwnerCount, Answers, owned
  <2> HIDE DEF seen
  <2> QED
    BY <1>3, <2>3, <2>4, NoRequestTyped DEF TargetAndOwnerCount
<1>4. ASSUME NEW q \in Requests, WriteMember(q) PROVE AccessTyped'
  <2>1. requests[q] \in RequestState /\ requests[q].give \in Membership
    BY DEF RequestState
  <2> QED
    BY <1>4, <2>1, NoRequestTyped DEF WriteMember, Answers
<1>5. ASSUME NEW q \in Requests, MintMembership(q) PROVE AccessTyped'
  <2>1. [requests[q] EXCEPT !.at = "mark"] \in RequestState
    BY RequestGoes
  <2>2. requests' = [requests EXCEPT ![q] = [requests[q] EXCEPT !.at = "mark"]]
    BY <1>5 DEF MintMembership, Goes
  <2>3. role' \in [Users -> Membership] /\ vouched' \in [Users -> BOOLEAN]
    <3> DEFINE i == invites[requests[q].on]
    <3>1. i.role \in Membership
      BY <1>5 DEF MintMembership
    <3>2. \/ UNCHANGED <<role, vouched>>
          \/ role' = [role EXCEPT ![i.to] = i.role] /\ vouched' = [vouched EXCEPT ![i.to] = (i.by = "owner")]
      BY <1>5 DEF MintMembership
    <3> HIDE DEF i
    <3> QED
      BY <3>1, <3>2
  <2>4. UNCHANGED <<invites, keys>>
    BY <1>5 DEF MintMembership
  <2> QED
    BY <1>5, <2>1, <2>2, <2>3, <2>4, RequestGoes DEF MintMembership
<1>6. ASSUME NEW q \in Requests, MarkAccepted(q) PROVE AccessTyped'
  BY <1>6, NoRequestTyped DEF MarkAccepted, Answers
<1>7. ASSUME NEW i \in InviteIds, CreateInvite(i) PROVE AccessTyped'
  BY <1>7 DEF CreateInvite, NoInvite
<1>8. ASSUME NEW i \in InviteIds, RevokeInvite(i) \/ InviteExpires(i) PROVE AccessTyped'
  BY <1>8 DEF RevokeInvite, InviteExpires
<1>9. ASSUME NEW k \in KeyIds, CreateApiKey(k) \/ RevokeApiKey(k) \/ DeleteApiKey(k) \/ ApiKeyExpires(k)
      PROVE  AccessTyped'
  BY <1>9 DEF CreateApiKey, RevokeApiKey, DeleteApiKey, ApiKeyExpires
<1> QED
  BY <1>1, <1>2, <1>3, <1>4, <1>5, <1>6, <1>7, <1>8, <1>9 DEF AccessNext

LEMMA AccessTypedInit == AccessInit => AccessTyped
BY AccessAssumption, NoRequestTyped
   DEF AccessInit, AccessTyped, AccessTypeOK, OnTarget, NoInvite, InviteRow, Membership, Roles, ApiKeyStatus

\* The rows of memberships, invites and API keys, and the requests under way.
THEOREM AccessTypeCorrect == AccessSpec => []AccessTypeOK
<1>1. AccessSpec => []AccessTyped
  BY AccessTypedInit, AccessTypedStep, PTL DEF AccessSpec
<1>2. AccessTyped => AccessTypeOK
  BY DEF AccessTyped
<1> QED
  BY <1>1, <1>2, PTL

\* A privileged role that is about to be written, by a change or by an invite, is an
\* owner's: the ceiling was looked at when the request or the invite was made, and an
\* invite keeps its role and the rank of its maker.
GivenByOwner ==
  /\ \A q \in Requests : requests[q].at = "write" /\ requests[q].give \in Privileged => requests[q].as = "owner"
  /\ \A i \in InviteIds : invites[i].status # "none" /\ invites[i].role \in Privileged => invites[i].by = "owner"
  /\ \A q \in Requests : requests[q].at \in {"lookup", "mark"} => invites[requests[q].on].status # "none"

PrivilegeInv == AccessTyped /\ PrivilegeFromOwner /\ GivenByOwner

LEMMA PrivilegeInit == AccessInit => PrivilegeInv
<1> SUFFICES ASSUME AccessInit PROVE PrivilegeFromOwner /\ GivenByOwner
  BY AccessTypedInit DEF PrivilegeInv
<1>1. PrivilegeFromOwner
  BY DEF AccessInit, PrivilegeFromOwner, Privileged
<1>2. \A q \in Requests : requests[q].at = "none"
  BY NoRequestTyped DEF AccessInit
<1>3. \A i \in InviteIds : invites[i].status = "none"
  BY DEF AccessInit, NoInvite
<1> QED
  BY <1>1, <1>2, <1>3 DEF GivenByOwner

LEMMA PrivilegeStep == PrivilegeInv /\ [AccessNext]_accessVars => PrivilegeInv'
<1> SUFFICES ASSUME PrivilegeInv, [AccessNext]_accessVars PROVE PrivilegeFromOwner' /\ GivenByOwner'
  BY AccessTypedStep DEF PrivilegeInv
<1> USE DEF PrivilegeInv, PrivilegeFromOwner, GivenByOwner, AccessTyped, AccessTypeOK
<1> DEFINE Kept == PrivilegeFromOwner' /\ GivenByOwner'
<1>1. CASE UNCHANGED accessVars
  BY <1>1 DEF accessVars
<1>2. ASSUME NEW q \in Requests, ChangeMemberRole(q) \/ RemoveMember(q) \/ AcceptInvite(q) PROVE Kept
  <2>1. PICK r \in RequestState : Arrives(q, r) /\ Knows(r)
    BY <1>2, Arrival
  <2>2. UNCHANGED <<role, vouched, invites, keys>>
    BY <1>2 DEF ChangeMemberRole, RemoveMember, AcceptInvite
  <2> QED
    BY <2>1, <2>2 DEF Knows, Arrives
<1>3. ASSUME NEW q \in Requests, TargetAndOwnerCount(q) PROVE Kept
  <2> DEFINE owned == Cardinality({u \in Users : role[u] = "owner"})
             seen  == [requests[q] EXCEPT !.at = "write", !.saw = role[requests[q].on], !.owners = owned]
  <2>1. /\ seen.at = "write" /\ seen.give = requests[q].give /\ seen.as = requests[q].as
    BY DEF RequestState
  <2>2. \/ requests' = [requests EXCEPT ![q] = seen] /\ (seen.give \in Privileged => seen.as = "owner")
        \/ requests' = [requests EXCEPT ![q] = NoRequest]
    BY <1>3 DEF TargetAndOwnerCount, MemberChangeCheck, Answers
  <2> HIDE DEF seen
  <2> QED
    BY <1>3, <2>1, <2>2, NoRequestTyped DEF TargetAndOwnerCount
<1>4. ASSUME NEW q \in Requests, WriteMember(q) PROVE Kept
  BY <1>4, NoRequestTyped DEF WriteMember, Answers, OnTarget
<1>5. ASSUME NEW q \in Requests, MintMembership(q) PROVE Kept
  <2>1. requests' = [requests EXCEPT ![q].at = "mark"] /\ requests[q].at = "lookup"
    BY <1>5 DEF MintMembership, Goes
  <2>2. \A r \in Requests : requests'[r].at = "write" => requests'[r] = requests[r]
    BY <2>1 DEF RequestState
  <2>3. \A r \in Requests : requests'[r].at \in {"lookup", "mark"} =>
          requests[r].at \in {"lookup", "mark"} /\ requests'[r].on = requests[r].on
    BY <2>1 DEF RequestState
  <2>4. GivenByOwner'
    BY <1>5, <2>2, <2>3 DEF MintMembership
  <2>5. PrivilegeFromOwner'
    BY <1>5 DEF MintMembership, OnTarget
  <2> QED
    BY <2>4, <2>5
<1>6. ASSUME NEW q \in Requests, MarkAccepted(q) PROVE Kept
  BY <1>6, NoRequestTyped DEF MarkAccepted, Answers, OnTarget, InviteRow
<1>7. ASSUME NEW i \in InviteIds, CreateInvite(i) PROVE Kept
  <2>1. PICK r \in Roles, u \in Users, invited \in GivenRoles :
          /\ InviteRoleAllowed(r, invited)
          /\ invites' = [invites EXCEPT ![i] =
               [status |-> "pending", role |-> invited, to |-> u, by |-> r]]
    BY <1>7 DEF CreateInvite
  <2>2. invites'[i].status = "pending" /\ (invites'[i].role \in Privileged => invites'[i].by = "owner")
    BY <2>1 DEF InviteRoleAllowed
  <2>3. \A j \in InviteIds \ {i} : invites'[j] = invites[j]
    BY <2>1
  <2>4. UNCHANGED <<role, vouched, requests>>
    BY <1>7 DEF CreateInvite
  <2> QED
    BY <2>2, <2>3, <2>4, AccessTypedStep DEF OnTarget
<1>8. ASSUME NEW i \in InviteIds, RevokeInvite(i) \/ InviteExpires(i) PROVE Kept
  <2>1. \A j \in InviteIds : /\ invites'[j].role = invites[j].role /\ invites'[j].by = invites[j].by
                             /\ invites'[j].status = "none" <=> invites[j].status = "none"
    BY <1>8 DEF RevokeInvite, InviteExpires, InviteRow
  <2>2. UNCHANGED <<role, vouched, keys, requests>>
    BY <1>8 DEF RevokeInvite, InviteExpires
  <2>3. \A j \in InviteIds : invites'[j].status # "none" /\ invites'[j].role \in Privileged => invites'[j].by = "owner"
    BY <2>1
  <2>4. \A q \in Requests : requests[q].at \in {"lookup", "mark"} => invites'[requests[q].on].status # "none"
    BY <2>1 DEF OnTarget
  <2> QED
    BY <2>2, <2>3, <2>4
<1>9. ASSUME NEW k \in KeyIds, CreateApiKey(k) \/ RevokeApiKey(k) \/ DeleteApiKey(k) \/ ApiKeyExpires(k)
      PROVE  Kept
  BY <1>9 DEF CreateApiKey, RevokeApiKey, DeleteApiKey, ApiKeyExpires
<1> QED
  BY <1>1, <1>2, <1>3, <1>4, <1>5, <1>6, <1>7, <1>8, <1>9 DEF AccessNext

\* Nobody becomes an owner or an administrator but by an owner's doing, with any number
\* of users, invites and requests under way (member-guards.ts:27-36, invite.ts:22-28).
THEOREM NoSelfPromotion == AccessSpec => []PrivilegeFromOwner
<1>1. PrivilegeInv => PrivilegeFromOwner
  BY DEF PrivilegeInv
<1> QED
  BY <1>1, PrivilegeInit, PrivilegeStep, PTL DEF AccessSpec

(***************************************************************************)
(* Databases.                                                              *)
(***************************************************************************)

\* A request under way has its database, and a name to say in SQL.
DbAddressed(r) ==
  /\ r.at # "none" => r.id \in DbIds
  /\ r.at \notin {"none", "acquire"} => r.name \in DbNames

DbCallsTyped == dbCalls \in [DbCalls -> DbCallState] /\ \A c \in DbCalls : DbAddressed(dbCalls[c])
DbRowsTyped  == dbRows \in [DbIds -> DbRow] /\ \A d \in DbIds : dbRows[d] = NoDbRow \/ dbRows[d].name \in DbNames

DbServerTyped ==
  /\ dbServer \in DbServerRow /\ dbFaults \in 0..MaxDbFaults /\ doomed \subseteq DbIds
  /\ sqlRole \in [DbNames -> DbIds \cup {NoDb}] /\ sqlDb \in [DbNames -> DbIds \cup {NoDb}]
  /\ sessions \subseteq DbIds \X {"pooled", "closing"}

DatabasesTyped == DbServerTyped /\ DbCallsTyped /\ DbRowsTyped

LEMMA NoDbCallTyped == NoDbCall \in DbCallState /\ NoDbCall.at = "none" /\ NoDbCall.id = NoDb
BY DEF NoDbCall, DbCallState

LEMMA NoDbRowTyped == NoDbRow \in DbRow /\ NoDbRow.name = NoDb
BY DEF NoDbRow, DbRow

\* A step of a request is one of its "at", and nothing else of it.
LEMMA DbCallGoes ==
  ASSUME DbCallsTyped, NEW c \in DbCalls, dbCalls[c].at \notin {"none", "acquire"},
         NEW at \in {"db", "row", "user", "close", "dropdb", "droprole", "delete"}, DbCallTo(c, at)
  PROVE  /\ DbCallsTyped'
         /\ \A k \in DbCalls \ {c} : dbCalls'[k] = dbCalls[k]
         /\ dbCalls'[c].at = at /\ dbCalls'[c].id = dbCalls[c].id
         /\ dbCalls'[c].name = dbCalls[c].name /\ dbCalls'[c].again = dbCalls[c].again
<1> DEFINE r == [dbCalls[c] EXCEPT !.at = at]
<1>1. r \in DbCallState /\ r.at = at /\ r.id = dbCalls[c].id /\ r.name = dbCalls[c].name /\ r.again = dbCalls[c].again
  BY DEF DbCallsTyped, DbCallState
<1>2. dbCalls' = [dbCalls EXCEPT ![c] = r]
  BY DEF DbCallTo
<1> HIDE DEF r
<1> QED
  BY <1>1, <1>2 DEF DbCallsTyped, DbAddressed

LEMMA DbCallEnds ==
  ASSUME DbCallsTyped, NEW c \in DbCalls, DbAnswers(c)
  PROVE  /\ DbCallsTyped'
         /\ \A k \in DbCalls \ {c} : dbCalls'[k] = dbCalls[k]
         /\ dbCalls'[c].at = "none" /\ dbCalls'[c].id = NoDb
BY NoDbCallTyped DEF DbCallsTyped, DbAddressed, DbAnswers

LEMMA DbCallArrives ==
  ASSUME DbCallsTyped, NEW c \in DbCalls, NEW d \in DbIds, NEW n \in DbNames \cup {NoDb},
         NEW op \in {"create", "drop", "query"}, NEW at \in {"role", "evict", "acquire"},
         at # "acquire" => n \in DbNames,
         dbCalls' = [dbCalls EXCEPT ![c] = [NoDbCall EXCEPT !.op = op, !.at = at, !.id = d, !.name = n]]
  PROVE  /\ DbCallsTyped'
         /\ \A k \in DbCalls \ {c} : dbCalls'[k] = dbCalls[k]
         /\ dbCalls'[c].at = at /\ dbCalls'[c].id = d
<1> DEFINE r == [NoDbCall EXCEPT !.op = op, !.at = at, !.id = d, !.name = n]
<1>1. r \in DbCallState /\ r.at = at /\ r.id = d /\ r.name = n
  BY DEF NoDbCall, DbCallState
<1> HIDE DEF r
<1> QED
  BY <1>1 DEF DbCallsTyped, DbAddressed, r

LEMMA DbQueryArrives ==
  ASSUME DbCallsTyped, NEW c \in DbCalls, NEW d \in DbIds,
         dbCalls' = [dbCalls EXCEPT ![c] = [NoDbCall EXCEPT !.op = "query", !.at = "acquire", !.id = d]]
  PROVE  /\ DbCallsTyped'
         /\ \A k \in DbCalls \ {c} : dbCalls'[k] = dbCalls[k]
         /\ dbCalls'[c].at = "acquire" /\ dbCalls'[c].id = d
<1> DEFINE r == [NoDbCall EXCEPT !.op = "query", !.at = "acquire", !.id = d]
<1>1. r \in DbCallState /\ r.at = "acquire" /\ r.id = d
  BY DEF NoDbCall, DbCallState
<1> HIDE DEF r
<1> QED
  BY <1>1 DEF DbCallsTyped, DbAddressed, r

\* The requests and the rows, whoever moves.
LEMMA DbCallsStep == DbCallsTyped /\ DbRowsTyped /\ [DatabasesNext]_databasesVars => DbCallsTyped'
<1> SUFFICES ASSUME DbCallsTyped, DbRowsTyped, [DatabasesNext]_databasesVars PROVE DbCallsTyped'
  OBVIOUS
<1>1. CASE UNCHANGED databasesVars \/ RegisterDbServer \/ DeleteDbServer \/ \E d \in DbIds : SessionIdles(d)
  BY <1>1 DEF databasesVars, RegisterDbServer, DeleteDbServer, SessionIdles, DbCallsTyped
<1>2. ASSUME NEW c \in DbCalls, CreateDatabase(c) \/ DropDatabase(c) \/ ResolveManaged(c) PROVE DbCallsTyped'
  <2>1. CASE CreateDatabase(c)
    <3>1. PICK d \in DbIds, n \in DbNames :
            dbCalls' = [dbCalls EXCEPT ![c] = [NoDbCall EXCEPT !.op = "create", !.at = "role", !.id = d, !.name = n]]
      BY <2>1 DEF CreateDatabase
    <3> QED
      BY <3>1, DbCallArrives
  <2>2. CASE DropDatabase(c)
    <3>1. PICK d \in DbIds : /\ dbRows[d] # NoDbRow
            /\ dbCalls' = [dbCalls EXCEPT ![c] = [NoDbCall EXCEPT !.op = "drop", !.at = "evict", !.id = d,
                                                                  !.name = dbRows[d].name]]
      BY <2>2 DEF DropDatabase
    <3>2. dbRows[d].name \in DbNames
      BY <3>1 DEF DbRowsTyped
    <3> QED
      BY <3>1, <3>2, DbCallArrives
  <2>3. CASE ResolveManaged(c)
    BY <2>3, DbQueryArrives DEF ResolveManaged
  <2> QED
    BY <1>2, <2>1, <2>2, <2>3
<1>3. ASSUME NEW c \in DbCalls, CreateRole(c) \/ CreateDb(c) \/ InsertDatabase(c) PROVE DbCallsTyped'
  BY <1>3, DbCallGoes, DbCallEnds DEF CreateRole, CreateDb, InsertDatabase, DbCallAt
<1>4. ASSUME NEW c \in DbCalls, EvictManaged(c) \/ DropDb(c) \/ DropRole(c) PROVE DbCallsTyped'
  BY <1>4, DbCallGoes, DbCallEnds DEF EvictManaged, DropDb, DropRole, DbCallAt
<1>5. ASSUME NEW c \in DbCalls, InsertDatabaseUser(c) \/ DeleteDatabase(c) \/ DbStepFails(c) PROVE DbCallsTyped'
  BY <1>5, DbCallEnds DEF InsertDatabaseUser, DeleteDatabase, DbStepFails
<1>6. ASSUME NEW c \in DbCalls, AcquireManaged(c) PROVE DbCallsTyped'
  <2>1. CASE DbAnswers(c)
    BY <2>1, DbCallEnds
  <2>2. CASE ~DbAnswers(c)
    <3>1. dbCalls' = [k \in DbCalls |-> IF k = c THEN NoDbCall
            ELSE IF dbCalls[k].id = dbCalls[c].id
                 THEN [dbCalls[k] EXCEPT !.again = dbCalls[k].at \in {"close", "dropdb"}] ELSE dbCalls[k]]
      BY <1>6, <2>2 DEF AcquireManaged
    <3>2. ASSUME NEW k \in DbCalls PROVE dbCalls'[k] \in DbCallState /\ DbAddressed(dbCalls'[k])
      <4> DEFINE late == dbCalls[k].at \in {"close", "dropdb"}
                 r    == [dbCalls[k] EXCEPT !.again = late]
      <4>1. late \in BOOLEAN
        OBVIOUS
      <4> HIDE DEF late
      <4>2. r \in DbCallState /\ r.at = dbCalls[k].at /\ r.id = dbCalls[k].id /\ r.name = dbCalls[k].name
        BY <4>1 DEF DbCallsTyped, DbCallState
      <4>3. dbCalls'[k] \in {NoDbCall, r, dbCalls[k]}
        BY <3>1 DEF late
      <4> HIDE DEF r
      <4> QED
        BY <4>2, <4>3, NoDbCallTyped DEF DbCallsTyped, DbAddressed
    <3>3. dbCalls' = [k \in DbCalls |-> dbCalls'[k]]
      BY <3>1, Zenon
    <3> QED
      BY <3>2, <3>3 DEF DbCallsTyped
  <2> QED
    BY <2>1, <2>2
<1>7. CASE DbProcessDies
  BY <1>7, NoDbCallTyped DEF DbProcessDies, DbCallsTyped, DbAddressed
<1>8. ASSUME NEW d \in DbIds, SessionCloses(d) PROVE DbCallsTyped'
  BY <1>8 DEF SessionCloses, DbCallAt, DbCallsTyped, DbAddressed, DbCallState
<1> QED
  BY <1>1, <1>2, <1>3, <1>4, <1>5, <1>6, <1>7, <1>8 DEF DatabasesNext

LEMMA DbRowsStep == DbCallsTyped /\ DbRowsTyped /\ [DatabasesNext]_databasesVars => DbRowsTyped'
<1> SUFFICES ASSUME DbCallsTyped, DbRowsTyped, [DatabasesNext]_databasesVars PROVE DbRowsTyped'
  OBVIOUS
<1>1. CASE dbRows' = dbRows
  BY <1>1 DEF DbRowsTyped
<1>2. CASE DeleteDbServer
  BY <1>2, NoDbRowTyped DEF DeleteDbServer, DbRowsTyped
<1>3. ASSUME NEW c \in DbCalls, InsertDatabase(c) PROVE DbRowsTyped'
  <2>1. dbCalls[c].id \in DbIds /\ dbCalls[c].name \in DbNames
    BY <1>3 DEF InsertDatabase, DbCallAt, DbCallsTyped, DbAddressed
  <2>2. dbRows' \in {dbRows, [dbRows EXCEPT ![dbCalls[c].id].name = dbCalls[c].name]}
    BY <1>3 DEF InsertDatabase
  <2> QED
    BY <2>1, <2>2 DEF DbRowsTyped, DbRow
<1>4. ASSUME NEW c \in DbCalls, InsertDatabaseUser(c) PROVE DbRowsTyped'
  <2>1. \/ dbRows' = dbRows
        \/ dbRows[dbCalls[c].id] # NoDbRow /\ dbRows' = [dbRows EXCEPT ![dbCalls[c].id].user = TRUE]
    BY <1>4 DEF InsertDatabaseUser
  <2> QED
    BY <2>1 DEF DbRowsTyped, DbRow
<1>5. ASSUME NEW c \in DbCalls, DeleteDatabase(c) PROVE DbRowsTyped'
  BY <1>5, NoDbRowTyped DEF DeleteDatabase, DbRowsTyped
<1> QED
  BY <1>1, <1>2, <1>3, <1>4, <1>5 DEF DatabasesNext, databasesVars, RegisterDbServer, CreateDatabase, CreateRole,
     CreateDb, DropDatabase, EvictManaged, DropDb, DropRole, ResolveManaged, AcquireManaged, DbStepFails,
     DbProcessDies, SessionCloses, SessionIdles

LEMMA DatabasesTypedStep == DatabasesTyped /\ [DatabasesNext]_databasesVars => DatabasesTyped'
<1> SUFFICES ASSUME DatabasesTyped, [DatabasesNext]_databasesVars PROVE DatabasesTyped'
  OBVIOUS
<1>1. DbCallsTyped' /\ DbRowsTyped'
  BY DbCallsStep, DbRowsStep DEF DatabasesTyped
<1>2. DbServerTyped'
  <2> DbServerTyped /\ DbCallsTyped
    BY DEF DatabasesTyped
  <2> USE DatabasesAssumption DEF DbServerTyped, DbServerRow, OnServer, DbCallAt, DbAddressed
  <2>1. CASE UNCHANGED databasesVars
    BY <2>1 DEF databasesVars
  <2>2. CASE RegisterDbServer \/ DeleteDbServer \/ DbProcessDies
    BY <2>2 DEF RegisterDbServer, DeleteDbServer, DbProcessDies
  <2>3. ASSUME NEW c \in DbCalls, CreateDatabase(c) \/ DropDatabase(c) \/ ResolveManaged(c) PROVE DbServerTyped'
    BY <2>3 DEF CreateDatabase, DropDatabase, ResolveManaged
  <2>4. ASSUME NEW c \in DbCalls, CreateRole(c) \/ CreateDb(c) \/ DropDb(c) \/ DropRole(c) PROVE DbServerTyped'
    BY <2>4 DEF CreateRole, CreateDb, DropDb, DropRole, DbCallsTyped
  <2>5. ASSUME NEW c \in DbCalls, EvictManaged(c) \/ AcquireManaged(c) PROVE DbServerTyped'
    BY <2>5 DEF EvictManaged, AcquireManaged, DbCallsTyped
  <2>6. ASSUME NEW c \in DbCalls,
               InsertDatabase(c) \/ InsertDatabaseUser(c) \/ DeleteDatabase(c) \/ DbStepFails(c) PROVE DbServerTyped'
    BY <2>6 DEF InsertDatabase, InsertDatabaseUser, DeleteDatabase, DbStepFails
  <2>7. ASSUME NEW d \in DbIds, SessionCloses(d) \/ SessionIdles(d) PROVE DbServerTyped'
    BY <2>7 DEF SessionCloses, SessionIdles
  <2> QED
    BY <2>1, <2>2, <2>3, <2>4, <2>5, <2>6, <2>7 DEF DatabasesNext
<1> QED
  BY <1>1, <1>2 DEF DatabasesTyped

LEMMA DatabasesTypedInit == DatabasesInit => DatabasesTyped
BY DatabasesAssumption, NoDbCallTyped, NoDbRowTyped
   DEF DatabasesInit, DatabasesTyped, DbServerTyped, DbServerRow, DbCallsTyped, DbAddressed, DbRowsTyped

LEMMA DatabasesAreTyped == DatabasesTyped => DatabasesTypeOK
BY DEF DatabasesTyped, DbServerTyped, DbCallsTyped, DbRowsTyped, DatabasesTypeOK

\* What is on the server, the rows about it and the requests under way.
THEOREM DatabasesTypeCorrect == DatabasesSpec => []DatabasesTypeOK
BY DatabasesAreTyped, DatabasesTypedInit, DatabasesTypedStep, PTL DEF DatabasesSpec

\* Before its row is inserted a database has what its request made so far, unless the
\* drop of another row of the same name got there first.
SqlMade ==
  \A c \in DbCalls : dbCalls[c].id \in doomed \/
    /\ dbCalls[c].at \in {"db", "row"} => sqlRole[dbCalls[c].name] = dbCalls[c].id
    /\ dbCalls[c].at = "row" => sqlDb[dbCalls[c].name] = dbCalls[c].id

BackedInv == DatabasesTyped /\ RowBacked /\ SqlMade

LEMMA BackedInit == DatabasesInit => BackedInv
BY DatabasesTypedInit, NoDbCallTyped DEF DatabasesInit, BackedInv, RowBacked, SqlMade

LEMMA BackedStep == BackedInv /\ [DatabasesNext]_databasesVars => BackedInv'
<1> SUFFICES ASSUME BackedInv, [DatabasesNext]_databasesVars PROVE RowBacked' /\ SqlMade'
  BY DatabasesTypedStep DEF BackedInv
<1> DEFINE Kept == RowBacked' /\ SqlMade'
<1>0. DbServerTyped /\ DbCallsTyped /\ DbRowsTyped /\ RowBacked /\ SqlMade /\ DbCallsTyped'
  BY DatabasesTypedStep DEF BackedInv, DatabasesTyped
<1> USE <1>0, DatabasesAssumption DEF RowBacked, SqlMade, DbServerTyped, OnServer, DbCallAt
<1>1. CASE UNCHANGED databasesVars \/ RegisterDbServer
  BY <1>1 DEF databasesVars, RegisterDbServer
<1>2. CASE DeleteDbServer
  BY <1>2 DEF DeleteDbServer
<1>3. CASE DbProcessDies
  BY <1>3, NoDbCallTyped DEF DbProcessDies
<1>4. ASSUME NEW c \in DbCalls, CreateDatabase(c) PROVE Kept
  <2>1. PICK d \in DbIds, n \in DbNames :
          dbCalls' = [dbCalls EXCEPT ![c] = [NoDbCall EXCEPT !.op = "create", !.at = "role", !.id = d, !.name = n]]
    BY <1>4 DEF CreateDatabase
  <2>2. dbCalls'[c].at = "role" /\ \A k \in DbCalls \ {c} : dbCalls'[k] = dbCalls[k]
    BY <2>1, DbCallArrives
  <2> QED
    BY <1>4, <2>2 DEF CreateDatabase
<1>5. ASSUME NEW c \in DbCalls, DropDatabase(c) PROVE Kept
  <2>1. PICK d \in DbIds : /\ dbRows[d] # NoDbRow /\ doomed' = doomed \cup {d}
          /\ dbCalls' = [dbCalls EXCEPT ![c] = [NoDbCall EXCEPT !.op = "drop", !.at = "evict", !.id = d,
                                                                !.name = dbRows[d].name]]
    BY <1>5 DEF DropDatabase
  <2>2. dbCalls'[c].at = "evict" /\ \A k \in DbCalls \ {c} : dbCalls'[k] = dbCalls[k]
    BY <2>1, DbCallArrives DEF DbRowsTyped
  <2> QED
    BY <1>5, <2>1, <2>2 DEF DropDatabase
<1>6. ASSUME NEW c \in DbCalls, ResolveManaged(c) PROVE Kept
  <2>1. dbCalls'[c].at = "acquire" /\ \A k \in DbCalls \ {c} : dbCalls'[k] = dbCalls[k]
    BY <1>6, DbQueryArrives DEF ResolveManaged
  <2> QED
    BY <1>6, <2>1 DEF ResolveManaged
<1>7. ASSUME NEW c \in DbCalls, CreateRole(c) PROVE Kept
  <2>1. /\ \A k \in DbCalls \ {c} : dbCalls'[k] = dbCalls[k]
        /\ \/ dbCalls'[c].at = "none" /\ UNCHANGED sqlRole
           \/ /\ dbCalls'[c].at = "db" /\ dbCalls'[c].id = dbCalls[c].id /\ dbCalls'[c].name = dbCalls[c].name
              /\ sqlRole[dbCalls[c].name] = NoDb /\ sqlRole' = [sqlRole EXCEPT ![dbCalls[c].name] = dbCalls[c].id]
    BY <1>7, DbCallGoes, DbCallEnds DEF CreateRole
  <2>2. UNCHANGED <<dbRows, sqlDb, doomed>> /\ dbCalls[c].name \in DbNames
    BY <1>7 DEF CreateRole, DbCallsTyped, DbAddressed
  <2>3. RowBacked'
    BY <2>1, <2>2 DEF DbCallsTyped, DbAddressed, DbRowsTyped
  <2>4. SqlMade'
    BY <2>1, <2>2 DEF DbCallsTyped, DbAddressed
  <2> QED
    BY <2>3, <2>4
<1>8. ASSUME NEW c \in DbCalls, CreateDb(c) PROVE Kept
  <2>1. /\ \A k \in DbCalls \ {c} : dbCalls'[k] = dbCalls[k]
        /\ \/ dbCalls'[c].at = "none" /\ UNCHANGED sqlDb
           \/ /\ dbCalls'[c].at = "row" /\ dbCalls'[c].id = dbCalls[c].id /\ dbCalls'[c].name = dbCalls[c].name
              /\ sqlDb[dbCalls[c].name] = NoDb /\ sqlDb' = [sqlDb EXCEPT ![dbCalls[c].name] = dbCalls[c].id]
    BY <1>8, DbCallGoes, DbCallEnds DEF CreateDb
  <2>2. UNCHANGED <<dbRows, sqlRole, doomed>> /\ dbCalls[c].name \in DbNames /\ dbCalls[c].at = "db"
    BY <1>8 DEF CreateDb, DbCallsTyped, DbAddressed
  <2>3. RowBacked'
    BY <2>1, <2>2 DEF DbCallsTyped, DbAddressed, DbRowsTyped
  <2>4. SqlMade'
    BY <2>1, <2>2 DEF DbCallsTyped, DbAddressed
  <2> QED
    BY <2>3, <2>4
<1>9. ASSUME NEW c \in DbCalls, InsertDatabase(c) PROVE Kept
  BY <1>9, DbCallGoes, DbCallEnds DEF InsertDatabase, DbCallsTyped, DbAddressed, DbRowsTyped, DbRow
<1>10. ASSUME NEW c \in DbCalls, InsertDatabaseUser(c) PROVE Kept
  BY <1>10, DbCallEnds DEF InsertDatabaseUser, DbRowsTyped, DbRow
<1>11. ASSUME NEW c \in DbCalls, DropDb(c) \/ DropRole(c) PROVE Kept
  <2>1. /\ \A k \in DbCalls \ {c} : dbCalls'[k] = dbCalls[k]
        /\ dbCalls'[c].at \in {"none", "droprole", "delete"}
    BY <1>11, DbCallGoes, DbCallEnds DEF DropDb, DropRole
  <2>2. UNCHANGED dbRows /\ dbCalls[c].name \in DbNames
    BY <1>11 DEF DropDb, DropRole, DbCallsTyped, DbAddressed
  <2>3. \/ UNCHANGED <<sqlDb, sqlRole, doomed>>
        \/ /\ sqlDb' = [sqlDb EXCEPT ![dbCalls[c].name] = NoDb] /\ sqlRole' = sqlRole
           /\ doomed' = doomed \cup ({sqlDb[dbCalls[c].name]} \ {NoDb})
        \/ /\ sqlRole' = [sqlRole EXCEPT ![dbCalls[c].name] = NoDb] /\ sqlDb' = sqlDb
           /\ doomed' = doomed \cup ({sqlRole[dbCalls[c].name]} \ {NoDb})
    BY <1>11 DEF DropDb, DropRole
  <2> QED
    BY <2>1, <2>2, <2>3 DEF DbCallsTyped, DbAddressed, DbRowsTyped
<1>12. ASSUME NEW c \in DbCalls, DeleteDatabase(c) \/ DbStepFails(c) PROVE Kept
  <2>1. dbCalls'[c].at = "none" /\ \A k \in DbCalls \ {c} : dbCalls'[k] = dbCalls[k]
    BY <1>12, DbCallEnds DEF DeleteDatabase, DbStepFails
  <2>2. UNCHANGED <<sqlDb, sqlRole, doomed>> /\ dbRows' \in {dbRows, [dbRows EXCEPT ![dbCalls[c].id] = NoDbRow]}
    BY <1>12 DEF DeleteDatabase, DbStepFails
  <2> QED
    BY <2>1, <2>2 DEF DbRowsTyped
<1>13. ASSUME NEW c \in DbCalls, EvictManaged(c) PROVE Kept
  BY <1>13, DbCallGoes DEF EvictManaged
<1>14. ASSUME NEW c \in DbCalls, AcquireManaged(c) PROVE Kept
  BY <1>14, DbCallEnds, NoDbCallTyped DEF AcquireManaged, DbCallsTyped, DbCallState
<1>15. ASSUME NEW d \in DbIds, SessionCloses(d) \/ SessionIdles(d) PROVE Kept
  BY <1>15 DEF SessionCloses, SessionIdles, DbCallsTyped, DbCallState
<1> QED
  BY <1>1, <1>2, <1>3, <1>4, <1>5, <1>6, <1>7, <1>8, <1>9, <1>10, <1>11, <1>12, <1>13, <1>14, <1>15
     DEF DatabasesNext

\* A listed database that nobody asked to drop is on the server with its role, for
\* every number of requests, of failures and of deaths (provisioner.ts:39-59,
\* databases.service.ts:182-216).
THEOREM RowsBacked == DatabasesSpec => []RowBacked
<1>1. BackedInv => RowBacked
  BY DEF BackedInv
<1> QED
  BY <1>1, BackedInit, BackedStep, PTL DEF DatabasesSpec

\* A session that is being closed has a request that waits for it, and where a session
\* is pooled again every drop that is past its eviction was told.
SessionsKnown ==
  /\ \A d \in DbIds : <<d, "closing">> \in sessions => \E k \in DbCalls : DbCallAt(k, "close") /\ dbCalls[k].id = d
  /\ \A c \in DbCalls : dbCalls[c].at \in {"close", "dropdb"} /\ <<dbCalls[c].id, "pooled">> \in sessions => dbCalls[c].again

SessionsInv == DatabasesTyped /\ SessionsKnown

LEMMA SessionsInit == DatabasesInit => SessionsInv
BY DatabasesTypedInit, NoDbCallTyped DEF DatabasesInit, SessionsInv, SessionsKnown

LEMMA SessionsStep == SessionsInv /\ [DatabasesNext]_databasesVars => SessionsInv'
<1> SUFFICES ASSUME SessionsInv, [DatabasesNext]_databasesVars PROVE SessionsKnown'
  BY DatabasesTypedStep DEF SessionsInv
<1>0. DbServerTyped /\ DbCallsTyped /\ DbRowsTyped /\ SessionsKnown
  BY DEF SessionsInv, DatabasesTyped
<1> USE <1>0, DatabasesAssumption DEF SessionsKnown, DbCallAt
\* A request that is not at "close" moves, and to no place that knows of sessions.
<1>A. ASSUME NEW c \in DbCalls, dbCalls[c].at # "close", sessions' = sessions,
             \A k \in DbCalls \ {c} : dbCalls'[k] = dbCalls[k], dbCalls'[c].at \notin {"close", "dropdb"}
      PROVE  SessionsKnown'
  BY <1>A
<1>1. CASE sessions' = sessions /\ dbCalls' = dbCalls
  BY <1>1
<1>2. CASE DbProcessDies
  BY <1>2, NoDbCallTyped DEF DbProcessDies
<1>3. ASSUME NEW c \in DbCalls, CreateDatabase(c) \/ DropDatabase(c) \/ ResolveManaged(c) PROVE SessionsKnown'
  <2>1. dbCalls[c].at # "close" /\ sessions' = sessions
    BY <1>3, NoDbCallTyped DEF CreateDatabase, DropDatabase, ResolveManaged
  <2>2. CASE CreateDatabase(c)
    <3>1. PICK d \in DbIds, n \in DbNames :
            dbCalls' = [dbCalls EXCEPT ![c] = [NoDbCall EXCEPT !.op = "create", !.at = "role", !.id = d, !.name = n]]
      BY <2>2 DEF CreateDatabase
    <3> QED
      BY <3>1, <2>1, <1>A, DbCallArrives
  <2>3. CASE DropDatabase(c)
    <3>1. PICK d \in DbIds : /\ dbRows[d] # NoDbRow
            /\ dbCalls' = [dbCalls EXCEPT ![c] = [NoDbCall EXCEPT !.op = "drop", !.at = "evict", !.id = d,
                                                                  !.name = dbRows[d].name]]
      BY <2>3 DEF DropDatabase
    <3>2. dbRows[d].name \in DbNames
      BY <3>1 DEF DbRowsTyped
    <3> QED
      BY <3>1, <3>2, <2>1, <1>A, DbCallArrives
  <2>4. CASE ResolveManaged(c)
    <3>1. PICK d \in DbIds :
            dbCalls' = [dbCalls EXCEPT ![c] = [NoDbCall EXCEPT !.op = "query", !.at = "acquire", !.id = d]]
      BY <2>4 DEF ResolveManaged
    <3> QED
      BY <3>1, <2>1, <1>A, DbQueryArrives
  <2> QED
    BY <1>3, <2>2, <2>3, <2>4
<1>4. ASSUME NEW c \in DbCalls, CreateRole(c) \/ CreateDb(c) \/ InsertDatabase(c) \/ DropDb(c) \/ DropRole(c)
      PROVE  SessionsKnown'
  <2>1. /\ dbCalls[c].at # "close" /\ sessions' = sessions
        /\ \A k \in DbCalls \ {c} : dbCalls'[k] = dbCalls[k]
        /\ dbCalls'[c].at \notin {"close", "dropdb"}
    BY <1>4, DbCallGoes, DbCallEnds DEF CreateRole, CreateDb, InsertDatabase, DropDb, DropRole
  <2> QED
    BY <2>1, <1>A
<1>5. ASSUME NEW c \in DbCalls, InsertDatabaseUser(c) \/ DeleteDatabase(c) \/ DbStepFails(c) PROVE SessionsKnown'
  <2>1. /\ dbCalls[c].at # "close" /\ sessions' = sessions
        /\ \A k \in DbCalls \ {c} : dbCalls'[k] = dbCalls[k]
        /\ dbCalls'[c].at \notin {"close", "dropdb"}
    BY <1>5, DbCallEnds DEF InsertDatabaseUser, DeleteDatabase, DbStepFails
  <2> QED
    BY <2>1, <1>A
<1>6. ASSUME NEW c \in DbCalls, EvictManaged(c) PROVE SessionsKnown'
  <2> DEFINE d == dbCalls[c].id
  <2>1. /\ \A k \in DbCalls \ {c} : dbCalls'[k] = dbCalls[k]
        /\ dbCalls[c].at = "evict" /\ dbCalls'[c].id = d
        /\ \/ /\ dbCalls'[c].at = "close" /\ sessions' = (sessions \ {<<d, "pooled">>}) \cup {<<d, "closing">>}
           \/ dbCalls'[c].at = "dropdb" /\ sessions' = sessions /\ <<d, "pooled">> \notin sessions
    BY <1>6, DbCallGoes DEF EvictManaged
  <2> HIDE DEF d
  <2> QED
    BY <2>1 DEF d
<1>7. ASSUME NEW c \in DbCalls, AcquireManaged(c) PROVE SessionsKnown'
  <2>1. CASE DbAnswers(c) /\ sessions' = sessions
    BY <1>7, <2>1, <1>A, DbCallEnds DEF AcquireManaged
  <2>2. CASE ~(DbAnswers(c) /\ sessions' = sessions)
    <3> DEFINE d == dbCalls[c].id
    <3>1. /\ sessions' = sessions \cup {<<d, "pooled">>} /\ dbCalls[c].at = "acquire"
          /\ dbCalls' = [k \in DbCalls |-> IF k = c THEN NoDbCall
               ELSE IF dbCalls[k].id = d
                    THEN [dbCalls[k] EXCEPT !.again = dbCalls[k].at \in {"close", "dropdb"}] ELSE dbCalls[k]]
      BY <1>7, <2>2 DEF AcquireManaged
    <3>2. ASSUME NEW k \in DbCalls \ {c}, dbCalls[k].id # d PROVE dbCalls'[k] = dbCalls[k]
      BY <3>1, <3>2
    <3>3. ASSUME NEW k \in DbCalls \ {c}, dbCalls[k].id = d
          PROVE  /\ dbCalls'[k].at = dbCalls[k].at /\ dbCalls'[k].id = d
                 /\ dbCalls'[k].again = (dbCalls[k].at \in {"close", "dropdb"})
      BY <3>1, <3>3 DEF DbCallsTyped, DbCallState
    <3>4. dbCalls'[c].at = "none"
      BY <3>1, NoDbCallTyped
    <3> HIDE DEF d
    <3>5. \A e \in DbIds : <<e, "closing">> \in sessions' => \E k \in DbCalls : dbCalls'[k].at = "close" /\ dbCalls'[k].id = e
      <4> SUFFICES ASSUME NEW e \in DbIds, <<e, "closing">> \in sessions'
                   PROVE  \E k \in DbCalls : dbCalls'[k].at = "close" /\ dbCalls'[k].id = e
        OBVIOUS
      <4>1. PICK k \in DbCalls : dbCalls[k].at = "close" /\ dbCalls[k].id = e
        BY <3>1
      <4> QED
        BY <4>1, <3>1, <3>2, <3>3
    <3>6. ASSUME NEW k \in DbCalls, dbCalls'[k].at \in {"close", "dropdb"}, <<dbCalls'[k].id, "pooled">> \in sessions'
          PROVE  dbCalls'[k].again
      <4>1. k # c
        BY <3>4, <3>6
      <4>2. CASE dbCalls[k].id = d
        BY <4>1, <4>2, <3>3, <3>6
      <4>3. CASE dbCalls[k].id # d
        BY <4>1, <4>3, <3>1, <3>2, <3>6
      <4> QED
        BY <4>2, <4>3
    <3> QED
      BY <3>5, <3>6
  <2> QED
    BY <2>1, <2>2
<1>8. ASSUME NEW d \in DbIds, SessionCloses(d) PROVE SessionsKnown'
  <2>1. ASSUME NEW k \in DbCalls
        PROVE  /\ dbCalls'[k].id = dbCalls[k].id /\ dbCalls'[k].again = dbCalls[k].again
               /\ dbCalls'[k].at = IF dbCalls[k].id = d /\ dbCalls[k].at = "close" THEN "dropdb" ELSE dbCalls[k].at
    BY <1>8 DEF SessionCloses, DbCallsTyped, DbCallState
  <2> QED
    BY <1>8, <2>1 DEF SessionCloses
<1>9. ASSUME NEW d \in DbIds, SessionIdles(d) PROVE SessionsKnown'
  BY <1>9 DEF SessionIdles
<1> QED
  BY <1>1, <1>2, <1>3, <1>4, <1>5, <1>6, <1>7, <1>8, <1>9
     DEF DatabasesNext, databasesVars, RegisterDbServer, DeleteDbServer

\* When DROP DATABASE is sent a session is on the database only if a query came after
\* the eviction or another drop took the eviction over, however many requests there are
\* (databases.service.ts:250-252).
THEOREM DropFindsOnlyLateSessions == DatabasesSpec => []DropFindsNoSession
<1>1. SessionsInv => DropFindsNoSession
  <2> SUFFICES ASSUME SessionsInv, NEW c \in DbCalls, DbCallAt(c, "dropdb"), NEW s \in sessions, s[1] = dbCalls[c].id
               PROVE  dbCalls[c].again \/ \E k \in DbCalls \ {c} : DbCallAt(k, "close") /\ dbCalls[k].id = dbCalls[c].id
    BY DEF DropFindsNoSession
  <2>1. dbCalls[c].id \in DbIds /\ (s = <<dbCalls[c].id, "pooled">> \/ s = <<dbCalls[c].id, "closing">>)
    BY DEF SessionsInv, DatabasesTyped, DbServerTyped, DbCallsTyped, DbAddressed, DbCallAt
  <2> QED
    BY <2>1 DEF SessionsInv, SessionsKnown, DbCallAt
<1> QED
  BY <1>1, SessionsInit, SessionsStep, PTL DEF DatabasesSpec

(***************************************************************************)
(* Installations of a GitHub App.                                          *)
(***************************************************************************)

\* A callback is of a flow that began, and of a manifest if it creates an App.
FlowBegun(c) ==
  callbacks[c].at # "none" =>
    /\ callbacks[c].flow \in Flows /\ flowOf[callbacks[c].flow] \in VcsOrgs
    /\ callbacks[c].at \in {"exchange", "register"} => callbacks[c].flow \in manifests

\* What got past the nonce in this life of the process: then what is left of the nonce, and
\* the age of the state, outlive the state together.
NonceOutlives(f) ==
  /\ passes[f] \in Nat /\ installDeaths \in Nat
  /\ \/ passes[f] <= installDeaths
     \/ /\ passes[f] <= installDeaths + 1 /\ flowOf[f] # "none"
        /\ nonces[f] + flowAge[f] > StateTtl

BoundOnce == bound = {} \/ \E o \in VcsOrgs : bound = {o}

InstallInv ==
  /\ VcsInstallTypeOK /\ BoundOnce
  /\ \A c \in Callbacks : FlowBegun(c)
  /\ \A f \in Flows : NonceOutlives(f)

CallbackSteps == {"none", "lookup", "check", "update", "insert", "raced", "exchange", "register"}
CallbackRows  == [flow : Flows \cup {"none"}, at : CallbackSteps]

LEMMA InstallStarts == VcsInstallInit => InstallInv
<1> SUFFICES ASSUME VcsInstallInit PROVE InstallInv
  OBVIOUS
<1>1. VcsInstallTypeOK
  BY VcsInstallAssumption
  DEF VcsInstallInit, VcsInstallTypeOK, NoCallback, InstallState, NonceLife, Connections, Registered
<1> QED
  BY <1>1, VcsInstallAssumption
  DEF VcsInstallInit, InstallInv, BoundOnce, FlowBegun, NonceOutlives, NoCallback, VcsInstallTypeOK

\* A callback moves on, in its flow, or is answered.
LEMMA CallbackMoves ==
  ASSUME VcsInstallTypeOK, NEW c \in Callbacks, NEW at \in CallbackSteps,
         CallbackTo(c, at) \/ Redirected(c)
  PROVE  /\ callbacks' \in [Callbacks -> CallbackRows]
         /\ \A x \in Callbacks : x # c => callbacks'[x] = callbacks[x]
         /\ \/ callbacks'[c].at = "none"
            \/ callbacks'[c].at = at /\ callbacks'[c].flow = callbacks[c].flow
BY DEF VcsInstallTypeOK, CallbackTo, Redirected, NoCallback, CallbackRows, CallbackSteps

LEMMA InstallBegins ==
  ASSUME InstallInv, NEW f \in Flows, BeginInstall(f) \/ BeginManifest(f)
  PROVE  InstallInv'
<1>1. PICK o \in VcsOrgs : /\ flowOf[f] = "none" /\ flowOf' = [flowOf EXCEPT ![f] = o]
                           /\ manifests \subseteq manifests' /\ manifests' \subseteq Flows
                           /\ UNCHANGED <<created, flowAge, nonces, callbacks, bound, passes, installDeaths>>
  BY DEF BeginInstall, BeginManifest, manifestVars, InstallInv, VcsInstallTypeOK
<1>2. VcsInstallTypeOK'
  BY <1>1 DEF InstallInv, VcsInstallTypeOK, InstallState, Registered
<1>3. \A g \in Flows : /\ flowOf[g] \in VcsOrgs => flowOf'[g] \in VcsOrgs
                       /\ flowOf[g] # "none" => flowOf'[g] # "none"
  BY <1>1 DEF InstallInv, VcsInstallTypeOK
<1>4. \A c \in Callbacks : FlowBegun(c)'
  BY <1>1, <1>3 DEF InstallInv, FlowBegun
<1>5. \A g \in Flows : NonceOutlives(g)'
  BY <1>1, <1>3 DEF InstallInv, NonceOutlives
<1> QED
  BY <1>1, <1>2, <1>4, <1>5 DEF InstallInv, BoundOnce

LEMMA InstallAges ==
  ASSUME InstallInv, InstallTimePasses
  PROVE  InstallInv'
<1>0. /\ VcsInstallTypeOK
      /\ UNCHANGED <<flowOf, manifests, created, callbacks, bound, passes, installDeaths>>
  BY DEF InstallInv, InstallTimePasses, manifestVars
<1>1. \A f \in Flows :
        /\ flowAge[f] \in 0..StateTtl + 1 /\ nonces[f] \in 0..NonceTtl
        /\ flowAge'[f] = IF flowOf[f] = "none" \/ flowAge[f] > StateTtl THEN flowAge[f] ELSE flowAge[f] + 1
        /\ nonces'[f] = IF nonces[f] = 0 THEN 0 ELSE nonces[f] - 1
  BY <1>0 DEF VcsInstallTypeOK, NonceLife, InstallTimePasses
<1>2. \A f \in Flows : flowAge'[f] \in 0..StateTtl + 1 /\ nonces'[f] \in 0..NonceTtl
  BY <1>1, VcsInstallAssumption
<1>3. VcsInstallTypeOK'
  <2>1. flowAge' \in [Flows -> 0..StateTtl + 1] /\ nonces' \in [Flows -> 0..NonceTtl]
    BY <1>2 DEF InstallTimePasses
  <2> QED
    BY <1>0, <2>1 DEF VcsInstallTypeOK, NonceLife
<1>4. \A f \in Flows : NonceOutlives(f)'
  <2> TAKE f \in Flows
  <2>1. NonceOutlives(f)
    BY DEF InstallInv
  <2>2. flowOf[f] # "none" /\ nonces[f] + flowAge[f] > StateTtl => nonces'[f] + flowAge'[f] > StateTtl
    BY <1>1, VcsInstallAssumption
  <2> QED
    BY <1>0, <2>1, <2>2 DEF NonceOutlives
<1> QED
  BY <1>0, <1>3, <1>4 DEF InstallInv, BoundOnce, FlowBegun

\* A flow gets past the nonce when it has been forgotten and the state still is good: then it
\* has not been past it in this life.
LEMMA InstallCalledBack ==
  ASSUME InstallInv, NEW c \in Callbacks, NEW f \in Flows, InstallCallback(c, f)
  PROVE  InstallInv'
<1>0. /\ VcsInstallTypeOK /\ FlowBegun(c) /\ NonceOutlives(f)
      /\ UNCHANGED <<flowOf, manifests, created, flowAge, bound, installDeaths>>
  BY DEF InstallInv, InstallCallback, manifestVars
<1>1. /\ flowOf[f] # "none" /\ flowAge[f] <= StateTtl /\ nonces[f] = 0
      /\ nonces' = [nonces EXCEPT ![f] = NonceTtl] /\ passes' = [passes EXCEPT ![f] = @ + 1]
      /\ flowAge[f] \in Nat /\ passes[f] \in Nat
  BY <1>0, VcsInstallAssumption DEF InstallCallback, VerifyInstallState, VcsInstallTypeOK
<1>2. passes[f] <= installDeaths
  BY <1>0, <1>1, VcsInstallAssumption DEF NonceOutlives
<1>3. \A g \in Flows : NonceOutlives(g)'
  <2> TAKE g \in Flows
  <2>1. CASE g = f
    <3>1. nonces'[f] = NonceTtl /\ passes'[f] = passes[f] + 1 /\ flowAge'[f] = flowAge[f]
      BY <1>0, <1>1 DEF VcsInstallTypeOK
    <3>2. NonceTtl + flowAge[f] > StateTtl /\ passes[f] + 1 <= installDeaths + 1 /\ passes[f] + 1 \in Nat
      BY <1>0, <1>1, <1>2, VcsInstallAssumption DEF NonceOutlives
    <3> QED
      BY <1>0, <1>1, <2>1, <3>1, <3>2 DEF NonceOutlives
  <2>2. CASE g # f
    <3>1. nonces'[g] = nonces[g] /\ passes'[g] = passes[g]
      BY <1>0, <1>1, <2>2 DEF VcsInstallTypeOK
    <3> QED
      BY <1>0, <3>1 DEF InstallInv, NonceOutlives
  <2> QED
    BY <2>1, <2>2
<1>4. /\ callbacks' \in [Callbacks -> CallbackRows]
      /\ \A x \in Callbacks : callbacks'[x] = callbacks[x] \/ callbacks'[x] = [flow |-> f, at |-> Back(f)]
  <2>1. [flow |-> f, at |-> Back(f)] \in CallbackRows
    BY DEF Back, CallbackRows, CallbackSteps
  <2> QED
    BY <1>0, <2>1 DEF InstallCallback, VcsInstallTypeOK, CallbackRows, CallbackSteps
<1>5. VcsInstallTypeOK'
  BY <1>0, <1>1, <1>4, VcsInstallAssumption DEF VcsInstallTypeOK, NonceLife, CallbackRows, CallbackSteps
<1>6. \A x \in Callbacks : FlowBegun(x)'
  <2> TAKE x \in Callbacks
  <2>1. CASE callbacks'[x] = callbacks[x]
    BY <1>0, <2>1 DEF InstallInv, FlowBegun
  <2>2. CASE callbacks'[x] = [flow |-> f, at |-> Back(f)]
    <3>1. callbacks'[x].flow = f /\ callbacks'[x].at = Back(f)
      BY <2>2
    <3>2. flowOf[f] \in VcsOrgs
      BY <1>0, <1>1 DEF VcsInstallTypeOK, InstallState
    <3> QED
      BY <1>0, <3>1, <3>2 DEF FlowBegun, Back
  <2> QED
    BY <1>4, <2>1, <2>2
<1> QED
  BY <1>0, <1>3, <1>5, <1>6 DEF InstallInv, BoundOnce

LEMMA InstallProceeds ==
  ASSUME InstallInv, NEW c \in Callbacks,
         \/ LookupAccount(c) \/ CheckBound(c) \/ UpdateBound(c) \/ InsertBound(c) \/ UpdateRaced(c)
         \/ ExchangeManifestCode(c) \/ CreateAppRegistration(c)
  PROVE  InstallInv'
<1>0. VcsInstallTypeOK /\ FlowBegun(c)
  BY DEF InstallInv
<1>1. PICK at \in CallbackSteps :
        /\ CallbackTo(c, at) \/ Redirected(c)
        /\ callbacks[c].at # "none"
        /\ at \in {"exchange", "register"} => callbacks[c].at = "exchange"
  BY DEF LookupAccount, CheckBound, UpdateBound, InsertBound, UpdateRaced, ExchangeManifestCode,
         CreateAppRegistration, CallbackAt, CallbackSteps
<1>2. /\ callbacks' \in [Callbacks -> CallbackRows]
      /\ \A x \in Callbacks : x # c => callbacks'[x] = callbacks[x]
      /\ \/ callbacks'[c].at = "none"
         \/ callbacks'[c].at = at /\ callbacks'[c].flow = callbacks[c].flow
  BY <1>0, <1>1, CallbackMoves
<1>3. UNCHANGED <<flowOf, manifests, flowAge, nonces, passes, installDeaths>>
  BY DEF LookupAccount, CheckBound, UpdateBound, InsertBound, UpdateRaced, ExchangeManifestCode,
         CreateAppRegistration, manifestVars
<1>4. created' \subseteq manifests /\ created' \in SUBSET Flows
  BY <1>0 DEF LookupAccount, CheckBound, UpdateBound, InsertBound, UpdateRaced, ExchangeManifestCode,
         CreateAppRegistration, manifestVars, CallbackAt, FlowBegun, VcsInstallTypeOK, Registered
<1>5. BoundOnce' /\ bound' \in SUBSET VcsOrgs
  BY <1>0 DEF LookupAccount, CheckBound, UpdateBound, InsertBound, UpdateRaced, ExchangeManifestCode,
         CreateAppRegistration, CallbackAt, FlowBegun, BoundFor, InstallInv, BoundOnce, VcsInstallTypeOK, Connections
<1>6. VcsInstallTypeOK'
  BY <1>0, <1>2, <1>3, <1>4, <1>5 DEF VcsInstallTypeOK, CallbackRows, CallbackSteps, Registered, Connections
<1>7. \A x \in Callbacks : FlowBegun(x)'
  BY <1>0, <1>1, <1>2, <1>3 DEF InstallInv, FlowBegun
<1> QED
  BY <1>3, <1>5, <1>6, <1>7 DEF InstallInv, NonceOutlives

LEMMA InstallStep == InstallInv /\ [VcsInstallNext]_installVars => InstallInv'
<1> SUFFICES ASSUME InstallInv, [VcsInstallNext]_installVars PROVE InstallInv'
  OBVIOUS
<1>1. CASE UNCHANGED installVars
  BY <1>1 DEF installVars, manifestVars, InstallInv, VcsInstallTypeOK, BoundOnce, FlowBegun, NonceOutlives
<1>2. ASSUME NEW o \in VcsOrgs, DeleteConnection(o) PROVE InstallInv'
  BY <1>2 DEF DeleteConnection, manifestVars, InstallInv, VcsInstallTypeOK, Connections, BoundOnce, FlowBegun, NonceOutlives
<1>3. CASE InstallProcessDies
  <2>1. VcsInstallTypeOK'
    BY <1>3, VcsInstallAssumption
    DEF InstallProcessDies, manifestVars, InstallInv, VcsInstallTypeOK, NonceLife, NoCallback
  <2>2. \A c \in Callbacks : FlowBegun(c)'
    BY <1>3 DEF InstallProcessDies, FlowBegun, NoCallback
  <2>3. \A f \in Flows : NonceOutlives(f)'
    BY <1>3 DEF InstallProcessDies, InstallInv, NonceOutlives
  <2> QED
    BY <1>3, <2>1, <2>2, <2>3 DEF InstallProcessDies, InstallInv, BoundOnce
<1> QED
  BY <1>1, <1>2, <1>3, InstallBegins, InstallAges, InstallCalledBack, InstallProceeds DEF VcsInstallNext

LEMMA BoundIsOnce == InstallInv => VcsInstallTypeOK /\ InstallIsBoundOnce
<1> SUFFICES ASSUME InstallInv PROVE VcsInstallTypeOK /\ InstallIsBoundOnce
  OBVIOUS
<1>1. OneOrgPerInstallation
  BY FS_EmptySet, FS_Singleton DEF InstallInv, BoundOnce, OneOrgPerInstallation
<1>2. StateSingleUse
  BY DEF InstallInv, NonceOutlives, StateSingleUse
<1> QED
  BY <1>1, <1>2 DEF InstallInv, InstallIsBoundOnce

(***************************************************************************)
(* The credential of a connection and the secret of a webhook.             *)
(***************************************************************************)

\* Credentials in hand or in the row are none that the provider has yet to issue.
IssuedFirst == credential <= issued /\ \A u \in Clones : clones[u].cred <= issued

\* Who is about to write back has the one that the provider takes, and nobody else has it.
OneWritesBack ==
  \A u \in Clones : clones[u].at = "persist" =>
    /\ clones[u].cred = issued /\ credential # issued
    /\ \A v \in Clones : v # u /\ clones[v].at \in {"read", "persist"} => clones[v].cred # issued

\* A row has the secret of a registration that is past the write, and a hook that has been
\* made has that of its own, or its user has it.
SecretsInHand ==
  /\ \A r \in Registrations : hookRows[r] # NoHook =>
       /\ hookRows[r] \in Registrations
       /\ regs[hookRows[r]].at \in {"remote", "record", "done", "failed"}
  /\ \A g \in Registrations : regs[g].at = "record" => remote[g] = g
  /\ \A g \in Registrations : regs[g].at = "done" => remote[g] = g \/ g \in toPaste
  /\ \A g \in Registrations : regs[g].at # "none" => regs[g].row \in Registrations

TokensInv == VcsTokensTypeOK /\ IssuedFirst /\ OneWritesBack /\ CredentialKept /\ SecretsInHand

CloneRows == [at : {"none", "read", "persist", "use"}, cred : Credentials \cup {0}]
RegRows   == [at : {"none", "write", "remote", "record", "done", "failed"}, row : Registrations \cup {NoHook}]

LEMMA TokensStart == VcsTokensInit => TokensInv
BY VcsTokensAssumption
DEF VcsTokensInit, TokensInv, VcsTokensTypeOK, IssuedFirst, OneWritesBack, CredentialKept, SecretsInHand,
    Credentials, ConnectionRow, WebhookRow, NoUse, NoReg

\* What the steps of the credential leave alone, and those of the webhooks.
LEMMA SecretsStay ==
  ASSUME TokensInv, UNCHANGED registerVars
  PROVE  SecretsInHand'
BY DEF TokensInv, registerVars, SecretsInHand

LEMMA CloneMoves ==
  ASSUME VcsTokensTypeOK, NEW u \in Clones, NEW at \in {"none", "read", "persist", "use"}, NEW cred \in Credentials \cup {0},
         clones' = [clones EXCEPT ![u] = [at |-> at, cred |-> cred]]
  PROVE  /\ clones' \in [Clones -> CloneRows]
         /\ clones'[u].at = at /\ clones'[u].cred = cred
         /\ \A v \in Clones : v # u => clones'[v] = clones[v]
BY DEF VcsTokensTypeOK, CloneRows

LEMMA TokensUsed ==
  ASSUME TokensInv, NEW u \in Clones, GetConnection(u) \/ PersistOauthCredential(u) \/ UseAccessToken(u)
  PROVE  TokensInv'
<1>0. /\ VcsTokensTypeOK /\ issued \in Nat /\ credential \in Nat
      /\ UNCHANGED <<issued, expiring>> /\ UNCHANGED registerVars
      /\ vcsFaults' \in 0..MaxVcsFaults /\ vcsFaults \in Nat /\ (vcsFaults' = 0 => vcsFaults = 0)
  BY VcsTokensAssumption DEF TokensInv, VcsTokensTypeOK, ConnectionRow, Credentials, GetConnection, PersistOauthCredential,
     UseAccessToken, VcsFault
<1>1. CASE GetConnection(u)
  <2>1. /\ clones' \in [Clones -> CloneRows] /\ clones'[u].at = "read" /\ clones'[u].cred = credential
        /\ \A v \in Clones : v # u => clones'[v] = clones[v]
    BY <1>0, <1>1, CloneMoves DEF GetConnection, UseTo, VcsTokensTypeOK, ConnectionRow
  <2>2. credential' = credential /\ clones[u].at = "none" /\ vcsFaults' = vcsFaults
    BY <1>1 DEF GetConnection, NoUse
  <2>3. VcsTokensTypeOK'
    BY <1>0, <2>1, <2>2 DEF VcsTokensTypeOK, CloneRows, registerVars
  <2>4. IssuedFirst' /\ OneWritesBack' /\ CredentialKept'
    BY <1>0, <2>1, <2>2 DEF TokensInv, IssuedFirst, OneWritesBack, CredentialKept
  <2> QED
    BY <1>0, <2>3, <2>4, SecretsStay DEF TokensInv
<1>2. CASE PersistOauthCredential(u)
  <2>1. clones[u].at = "persist" /\ clones[u].cred = issued /\ clones[u].cred \in Credentials \cup {0}
    BY <1>0, <1>2 DEF PersistOauthCredential, TokensInv, OneWritesBack, VcsTokensTypeOK
  <2>2. /\ clones' \in [Clones -> CloneRows] /\ clones'[u].at = "use" /\ clones'[u].cred = issued
        /\ \A v \in Clones : v # u => clones'[v] = clones[v]
    BY <1>0, <1>2, <2>1, CloneMoves DEF PersistOauthCredential, UseTo
  <2>3. credential' \in {0, issued, credential} /\ (vcsFaults' = 0 => credential' \in {0, issued})
    BY <1>0, <1>2, <2>1 DEF PersistOauthCredential, VcsFault
  <2>4. VcsTokensTypeOK'
    BY <1>0, <2>2, <2>3 DEF VcsTokensTypeOK, CloneRows, registerVars, ConnectionRow
  <2>5. \A v \in Clones : clones'[v].at # "persist"
    BY <2>1, <2>2 DEF TokensInv, OneWritesBack
  <2>6. IssuedFirst' /\ OneWritesBack' /\ CredentialKept'
    BY <1>0, <2>2, <2>3, <2>5 DEF TokensInv, IssuedFirst, OneWritesBack, CredentialKept
  <2> QED
    BY <1>0, <2>4, <2>6, SecretsStay DEF TokensInv
<1>3. CASE UseAccessToken(u)
  <2>1. /\ clones' \in [Clones -> CloneRows] /\ clones'[u].at = "none" /\ clones'[u].cred = 0
        /\ \A v \in Clones : v # u => clones'[v] = clones[v]
    BY <1>0, <1>3, CloneMoves DEF UseAccessToken, UseEnds, NoUse
  <2>2. credential' = credential /\ clones[u].at = "use" /\ vcsFaults' = vcsFaults
    BY <1>3 DEF UseAccessToken
  <2>3. VcsTokensTypeOK'
    BY <1>0, <2>1, <2>2 DEF VcsTokensTypeOK, CloneRows, registerVars
  <2>4. IssuedFirst' /\ OneWritesBack' /\ CredentialKept'
    BY <1>0, <2>1, <2>2 DEF TokensInv, IssuedFirst, OneWritesBack, CredentialKept
  <2> QED
    BY <1>0, <2>3, <2>4, SecretsStay DEF TokensInv
<1> QED
  BY <1>1, <1>2, <1>3

\* Only who has the credential that the provider takes can have it replaced, and then nobody
\* else is about to write one back.
LEMMA TokensRefreshed ==
  ASSUME TokensInv, NEW u \in Clones, EnsureFreshToken(u)
  PROVE  TokensInv'
<1>0. /\ VcsTokensTypeOK /\ issued \in Credentials /\ issued \in Nat /\ credential \in Nat
      /\ UNCHANGED <<credential, expiring>> /\ UNCHANGED registerVars /\ clones[u].at = "read"
      /\ vcsFaults' \in 0..MaxVcsFaults /\ vcsFaults \in Nat /\ (vcsFaults' = 0 => vcsFaults = 0)
      /\ \A v \in Clones : clones[v].cred \in Nat /\ clones[v].cred \in Credentials \cup {0}
      /\ IssuedFirst /\ OneWritesBack /\ CredentialKept
  BY VcsTokensAssumption DEF TokensInv, VcsTokensTypeOK, ConnectionRow, Credentials, EnsureFreshToken, VcsFault
<1>1. ASSUME issued' = issued, NEW at \in {"none", "use"}, NEW cred \in {clones[u].cred, 0},
             clones' = [clones EXCEPT ![u] = [at |-> at, cred |-> cred]]
      PROVE  TokensInv'
  <2>1. /\ clones' \in [Clones -> CloneRows] /\ clones'[u].at = at /\ clones'[u].cred = cred
        /\ \A v \in Clones : v # u => clones'[v] = clones[v]
    BY <1>0, <1>1, CloneMoves
  <2>2. VcsTokensTypeOK'
    BY <1>0, <1>1, <2>1 DEF VcsTokensTypeOK, CloneRows, registerVars
  <2>3. IssuedFirst' /\ OneWritesBack' /\ CredentialKept'
    BY <1>0, <1>1, <2>1 DEF IssuedFirst, OneWritesBack, CredentialKept
  <2> QED
    BY <1>0, <2>2, <2>3, SecretsStay DEF TokensInv
<1>2. ASSUME clones[u].cred = issued, issued <= MaxRotations, issued' = issued + 1,
             \/ clones' = [clones EXCEPT ![u] = [at |-> "persist", cred |-> issued']]
             \/ clones' = [clones EXCEPT ![u] = [at |-> "none", cred |-> 0]] /\ vcsFaults' = vcsFaults + 1
      PROVE  TokensInv'
  <2>1. issued' \in Credentials
    BY <1>0, <1>2, VcsTokensAssumption DEF Credentials
  <2>2. PICK at \in {"none", "persist"}, cred \in {0, issued'} :
          /\ clones' = [clones EXCEPT ![u] = [at |-> at, cred |-> cred]]
          /\ at = "persist" <=> cred = issued'
          /\ vcsFaults' = 0 => at = "persist"
    BY <1>0, <1>2
  <2>3. /\ clones' \in [Clones -> CloneRows] /\ clones'[u].at = at /\ clones'[u].cred = cred
        /\ \A v \in Clones : v # u => clones'[v] = clones[v]
    BY <1>0, <2>1, <2>2, CloneMoves
  <2>4. \A v \in Clones : v # u => clones[v].at # "persist" /\ clones[v].cred # issued'
    BY <1>0, <1>2 DEF OneWritesBack, IssuedFirst
  <2>5. VcsTokensTypeOK'
    BY <1>0, <2>1, <2>3 DEF VcsTokensTypeOK, CloneRows, registerVars
  <2>6. IssuedFirst' /\ OneWritesBack'
    BY <1>0, <1>2, <2>2, <2>3, <2>4 DEF IssuedFirst, OneWritesBack
  <2>7. CredentialKept'
    BY <1>0, <2>2, <2>3 DEF CredentialKept
  <2> QED
    BY <1>0, <2>5, <2>6, <2>7, SecretsStay DEF TokensInv
<1> QED
  BY <1>1, <1>2 DEF EnsureFreshToken, UseTo, UseEnds, NoUse, VcsFault

LEMMA RegMoves ==
  ASSUME VcsTokensTypeOK, NEW g \in Registrations, NEW row \in Registrations \cup {NoHook},
         NEW at \in {"none", "write", "remote", "record", "done", "failed"}, RegTo(g, at, row)
  PROVE  /\ regs' \in [Registrations -> RegRows]
         /\ regs'[g].at = at /\ regs'[g].row = row
         /\ \A h \in Registrations : h # g => regs'[h] = regs[h]
BY DEF VcsTokensTypeOK, RegTo, RegRows

LEMMA TokensRegister ==
  ASSUME TokensInv, NEW g \in Registrations,
         \/ FindWebhook(g) \/ WriteWebhook(g) \/ RegisterRemote(g) \/ RecordRemote(g)
         \/ AnswerManual(g) \/ PasteSecret(g)
  PROVE  TokensInv'
<1>0. /\ VcsTokensTypeOK /\ SecretsInHand /\ UNCHANGED tokenVars
      /\ vcsFaults' \in 0..MaxVcsFaults /\ vcsFaults \in Nat /\ (vcsFaults' = 0 => vcsFaults = 0)
      /\ regs[g].row \in Registrations \cup {NoHook}
  BY VcsTokensAssumption DEF TokensInv, VcsTokensTypeOK, FindWebhook, WriteWebhook, RegisterRemote, RecordRemote,
     AnswerManual, PasteSecret, VcsFault
<1>1. IssuedFirst' /\ OneWritesBack' /\ CredentialKept'
  BY <1>0 DEF TokensInv, IssuedFirst, OneWritesBack, CredentialKept, tokenVars
<1>2. CASE FindWebhook(g)
  <2>1. PICK r \in Registrations : RegTo(g, "write", r) /\ UNCHANGED <<hookRows, remote, toPaste>> /\ regs[g].at = "none"
    BY <1>2 DEF FindWebhook, NoReg
  <2>2. /\ regs' \in [Registrations -> RegRows] /\ regs'[g].at = "write" /\ regs'[g].row = r
        /\ \A h \in Registrations : h # g => regs'[h] = regs[h]
    BY <1>0, <2>1, RegMoves
  <2>3. VcsTokensTypeOK' /\ SecretsInHand'
    BY <1>0, <2>1, <2>2 DEF VcsTokensTypeOK, SecretsInHand, RegRows, tokenVars
  <2> QED
    BY <1>1, <2>3 DEF TokensInv
<1>3. CASE WriteWebhook(g)
  <2>1. /\ regs[g].at = "write" /\ regs[g].row \in Registrations /\ RegTo(g, "remote", regs[g].row)
        /\ hookRows' = [hookRows EXCEPT ![regs[g].row] = g] /\ UNCHANGED <<remote, toPaste>>
    BY <1>0, <1>3 DEF WriteWebhook, SecretsInHand
  <2>2. /\ regs' \in [Registrations -> RegRows] /\ regs'[g].at = "remote" /\ regs'[g].row = regs[g].row
        /\ \A h \in Registrations : h # g => regs'[h] = regs[h]
    BY <1>0, <2>1, RegMoves
  <2>3. VcsTokensTypeOK'
    BY <1>0, <2>1, <2>2 DEF VcsTokensTypeOK, RegRows, WebhookRow, tokenVars
  <2>4. \A r \in Registrations : hookRows'[r] = g \/ hookRows'[r] = hookRows[r]
    BY <1>0, <2>1 DEF VcsTokensTypeOK
  <2>5. SecretsInHand'
    BY <1>0, <2>1, <2>2, <2>4 DEF SecretsInHand
  <2> QED
    BY <1>1, <2>3, <2>5 DEF TokensInv
<1>4. CASE RegisterRemote(g)
  <2>1. PICK at \in {"record", "failed"} :
          /\ RegTo(g, at, regs[g].row) /\ regs[g].at = "remote" /\ UNCHANGED <<hookRows, toPaste>>
          /\ IF at = "record" THEN remote' = [remote EXCEPT ![g] = g] ELSE remote' = remote
    BY <1>4 DEF RegisterRemote
  <2>2. /\ regs' \in [Registrations -> RegRows] /\ regs'[g].at = at /\ regs'[g].row = regs[g].row
        /\ \A h \in Registrations : h # g => regs'[h] = regs[h]
    BY <1>0, <2>1, RegMoves
  <2>3. VcsTokensTypeOK' /\ SecretsInHand'
    BY <1>0, <2>1, <2>2 DEF VcsTokensTypeOK, SecretsInHand, RegRows, WebhookRow, tokenVars
  <2> QED
    BY <1>1, <2>3 DEF TokensInv
<1>5. CASE RecordRemote(g)
  <2>1. RegTo(g, "done", regs[g].row) /\ regs[g].at = "record" /\ UNCHANGED <<hookRows, remote, toPaste>>
    BY <1>5 DEF RecordRemote
  <2>2. /\ regs' \in [Registrations -> RegRows] /\ regs'[g].at = "done" /\ regs'[g].row = regs[g].row
        /\ \A h \in Registrations : h # g => regs'[h] = regs[h]
    BY <1>0, <2>1, RegMoves
  <2>3. VcsTokensTypeOK' /\ SecretsInHand'
    BY <1>0, <2>1, <2>2 DEF VcsTokensTypeOK, SecretsInHand, RegRows, tokenVars
  <2> QED
    BY <1>1, <2>3 DEF TokensInv
<1>6. CASE AnswerManual(g)
  <2>1. RegTo(g, "done", regs[g].row) /\ regs[g].at = "remote" /\ UNCHANGED <<hookRows, remote>> /\ toPaste' = toPaste \cup {g}
    BY <1>6 DEF AnswerManual
  <2>2. /\ regs' \in [Registrations -> RegRows] /\ regs'[g].at = "done" /\ regs'[g].row = regs[g].row
        /\ \A h \in Registrations : h # g => regs'[h] = regs[h]
    BY <1>0, <2>1, RegMoves
  <2>3. VcsTokensTypeOK' /\ SecretsInHand'
    BY <1>0, <2>1, <2>2 DEF VcsTokensTypeOK, SecretsInHand, RegRows, tokenVars
  <2> QED
    BY <1>1, <2>3 DEF TokensInv
<1>7. CASE PasteSecret(g)
  <2>1. toPaste' = toPaste \ {g} /\ remote' = [remote EXCEPT ![g] = g] /\ UNCHANGED <<hookRows, regs>>
    BY <1>7 DEF PasteSecret
  <2>2. VcsTokensTypeOK' /\ SecretsInHand'
    BY <1>0, <2>1 DEF VcsTokensTypeOK, SecretsInHand, WebhookRow, tokenVars
  <2> QED
    BY <1>1, <2>2 DEF TokensInv
<1> QED
  BY <1>2, <1>3, <1>4, <1>5, <1>6, <1>7

LEMMA TokensDie ==
  ASSUME TokensInv, VcsProcessDies
  PROVE  TokensInv'
<1>0. /\ VcsTokensTypeOK /\ UNCHANGED <<issued, credential, expiring, hookRows, remote, toPaste>>
      /\ vcsFaults' \in 0..MaxVcsFaults /\ vcsFaults' # 0
  BY VcsTokensAssumption DEF TokensInv, VcsTokensTypeOK, VcsProcessDies, VcsFault
<1>1. \A g \in Registrations :
        /\ regs'[g] \in RegRows /\ regs'[g].row = regs[g].row
        /\ IF regs[g].at \in {"none", "done"} THEN regs'[g].at = regs[g].at ELSE regs'[g].at = "failed"
  <2> TAKE g \in Registrations
  <2>1. regs[g] \in RegRows
    BY <1>0 DEF VcsTokensTypeOK, RegRows
  <2>2. regs'[g] = IF regs[g].at \in {"none", "done"} THEN regs[g] ELSE [regs[g] EXCEPT !.at = "failed"]
    BY DEF VcsProcessDies
  <2> QED
    BY <2>1, <2>2 DEF RegRows
<1>2. clones' \in [Clones -> CloneRows] /\ \A u \in Clones : clones'[u].at = "none" /\ clones'[u].cred = 0
  BY DEF VcsProcessDies, NoUse, CloneRows
<1>3. VcsTokensTypeOK'
  <2>1. regs' \in [Registrations -> RegRows]
    BY <1>1 DEF VcsProcessDies
  <2> QED
    BY <1>0, <1>2, <2>1 DEF VcsTokensTypeOK, CloneRows, RegRows
<1>4. IssuedFirst' /\ OneWritesBack' /\ CredentialKept'
  BY <1>0, <1>2, VcsTokensAssumption DEF TokensInv, IssuedFirst, OneWritesBack, CredentialKept, VcsTokensTypeOK, Credentials
<1>5. SecretsInHand'
  BY <1>0, <1>1 DEF TokensInv, SecretsInHand
<1> QED
  BY <1>3, <1>4, <1>5 DEF TokensInv

LEMMA TokensStep == TokensInv /\ [VcsTokensNext]_vcsTokenVars => TokensInv'
<1> SUFFICES ASSUME TokensInv, [VcsTokensNext]_vcsTokenVars PROVE TokensInv'
  OBVIOUS
<1>1. ASSUME UNCHANGED <<issued, clones, vcsFaults>>, UNCHANGED registerVars,
             credential' = credential \/ credential' = 0, expiring' \subseteq Credentials
      PROVE  TokensInv'
  <2>1. VcsTokensTypeOK'
    BY <1>1 DEF TokensInv, VcsTokensTypeOK, registerVars, ConnectionRow
  <2>2. IssuedFirst' /\ OneWritesBack' /\ CredentialKept'
    BY <1>1, VcsTokensAssumption DEF TokensInv, VcsTokensTypeOK, Credentials, IssuedFirst, OneWritesBack, CredentialKept
  <2> QED
    BY <1>1, <2>1, <2>2, SecretsStay DEF TokensInv
<1>2. CASE AccessTokenAges \/ DeleteOauthConnection \/ UNCHANGED vcsTokenVars
  BY <1>1, <1>2 DEF AccessTokenAges, DeleteOauthConnection, vcsTokenVars, tokenVars, TokensInv, VcsTokensTypeOK
<1> QED
  BY <1>2, TokensUsed, TokensRefreshed, TokensRegister, TokensDie DEF VcsTokensNext

LEMMA SecretsAreKept == TokensInv => VcsTokensTypeOK /\ VcsSecretsKept
<1> SUFFICES ASSUME TokensInv PROVE VcsTokensTypeOK /\ VcsSecretsKept
  OBVIOUS
<1>1. HookSecretKnown
  BY DEF TokensInv, SecretsInHand, HookSecretKnown
<1> QED
  BY <1>1 DEF TokensInv, VcsSecretsKept

\* Both, in the run's module: they move when they are in focus.
LEMMA TenantsVcs ==
  /\ TenantsInit => VcsInstallInit /\ VcsTokensInit
  /\ [TenantsNext]_tenantsVars => [VcsInstallNext]_installVars /\ [VcsTokensNext]_vcsTokenVars
BY DEF TenantsInit, TenantsNext, tenantsVars, otherVars, restVars, domainVars, installVars, vcsTokenVars

\* However many callbacks and deaths of the process there are, an installation has one
\* organization and a signed state counts once in a life of the process; and whatever uses of
\* a connection, rotations and registrations overlap, the credential that the provider takes
\* is that of the row, and the secret of a row is one that the provider signs with or that a
\* user was shown to paste there.
THEOREM ConnectionsAreSound == TenantsSpec => []VcsIsSound
<1>1. InstallInv /\ TokensInv => VcsIsSound
  BY BoundIsOnce, SecretsAreKept DEF VcsIsSound
<1> QED
  BY <1>1, InstallStarts, TokensStart, TenantsVcs, InstallStep, TokensStep, PTL DEF TenantsSpec

(***************************************************************************)
(* Replication.                                                            *)
(***************************************************************************)

\* Who makes a replica has made what comes before, unless somebody who asked for its
\* deletion took it down again; and who takes down was asked to.
Made(c) ==
  /\ repCalls[c].at # "none" => repCalls[c].id \in RepIds
  /\ repCalls[c].at \in {"subscribe", "insert"} => repCalls[c].id \in publications \cup tornDown
  /\ repCalls[c].at = "insert" => repCalls[c].id \in subscriptions \cup tornDown
  /\ repCalls[c].at \in {"unsubscribe", "unpublish", "delete"} => repCalls[c].id \in tornDown

ReplicasInv == ReplicasTypeOK /\ (\A c \in RepCalls : Made(c)) /\ StreamingIsReal

RepCallRow == [at : {"none", "publish", "subscribe", "insert", "unsubscribe", "unpublish", "delete"},
               id : RepIds \cup {NoRep}, both : BOOLEAN]

LEMMA ReplicasStart == ReplicasInit => ReplicasInv
<1> SUFFICES ASSUME ReplicasInit PROVE ReplicasInv
  OBVIOUS
<1>1. \A c \in RepCalls : repCalls[c].at = "none" /\ repCalls[c] \in RepCallRow
  BY DEF ReplicasInit, NoRepCall, RepCallRow
<1>2. ReplicasTypeOK
  BY <1>1, ReplicasAssumption DEF ReplicasInit, ReplicasTypeOK, RepCallRow, ReplicaRow, ManagedServers, NoRepCall
<1> QED
  BY <1>1, <1>2 DEF ReplicasInv, ReplicasInit, Made, StreamingIsReal

\* One request moves; the others keep what they know, since nothing is forgotten that was torn down.
LEMMA ReplicaMoves ==
  ASSUME ReplicasInv, NEW c \in RepCalls, NEW query \in RepCallRow, repCalls' = [repCalls EXCEPT ![c] = query],
         repFaults' \in 0..MaxRepFaults, managed' = managed, Made(c)',
         repRows' \in [RepIds -> ReplicaRow], publications' \subseteq RepIds, subscriptions' \subseteq RepIds,
         tornDown' \subseteq RepIds, tornDown \subseteq tornDown',
         publications \subseteq publications' \cup tornDown', subscriptions \subseteq subscriptions' \cup tornDown',
         \A i \in RepIds : repRows'[i] = "streaming" => repRows[i] = "streaming" \/ i \in (publications' \cap subscriptions') \cup tornDown'
  PROVE  ReplicasInv'
<1>1. ReplicasTypeOK'
  BY DEF ReplicasInv, ReplicasTypeOK, RepCallRow
<1>2. \A k \in RepCalls \ {c} : repCalls'[k] = repCalls[k]
  BY DEF ReplicasInv, ReplicasTypeOK
<1>3. \A k \in RepCalls \ {c} : Made(k)'
  BY <1>2 DEF ReplicasInv, Made
<1>4. StreamingIsReal'
  BY DEF ReplicasInv, StreamingIsReal
<1> QED
  BY <1>1, <1>3, <1>4 DEF ReplicasInv

LEMMA ReplicasStep == ReplicasInv /\ [ReplicasNext]_replicasVars => ReplicasInv'
<1> SUFFICES ASSUME ReplicasInv, [ReplicasNext]_replicasVars PROVE ReplicasInv'
  OBVIOUS
<1>0. ReplicasTypeOK /\ repCalls \in [RepCalls -> RepCallRow] /\ MaxRepFaults \in Nat
  BY ReplicasAssumption DEF ReplicasInv, ReplicasTypeOK, RepCallRow
<1>1. ASSUME NEW s \in ManagedServers, DeleteManaged(s) PROVE ReplicasInv'
  <2>1. ReplicasTypeOK' /\ \A i \in RepIds : repRows'[i] # "streaming"
    BY <1>0, <1>1 DEF DeleteManaged, ReplicasTypeOK, ReplicaRow, ManagedServers
  <2> QED
    BY <1>1, <2>1 DEF ReplicasInv, DeleteManaged, Made, StreamingIsReal
<1>2. CASE RepProcessDies
  <2>1. repCalls' \in [RepCalls -> RepCallRow] /\ \A c \in RepCalls : repCalls'[c].at = "none"
    BY <1>2 DEF RepProcessDies, NoRepCall, RepCallRow
  <2> QED
    BY <1>0, <1>2, <2>1 DEF RepProcessDies, Fails, ReplicasInv, ReplicasTypeOK, Made, StreamingIsReal, RepCallRow
<1>3. CASE UNCHANGED replicasVars
  BY <1>3 DEF replicasVars, ReplicasInv, ReplicasTypeOK, Made, StreamingIsReal
<1>4. ASSUME NEW c \in RepCalls,
             \/ CreateReplica(c) \/ CreatePublication(c) \/ CreateSubscription(c) \/ InsertReplica(c)
             \/ DeleteReplica(c) \/ DropSubscription(c) \/ DropPublication(c) \/ DeleteReplicaRow(c)
      PROVE  ReplicasInv'
  <2>0. repCalls[c] \in RepCallRow /\ NoRepCall \in RepCallRow /\ NoRepCall.at = "none" /\ Made(c)
    BY <1>0 DEF NoRepCall, RepCallRow, ReplicasInv
  <2>1. ASSUME NEW at \in {"subscribe", "insert", "unpublish", "delete"}
        PROVE  [repCalls[c] EXCEPT !.at = at] \in RepCallRow
    BY <2>0 DEF RepCallRow
  <2>2. CASE CreateReplica(c)
    <3>1. PICK i \in RepIds : RepArrives(c, "publish", i, TRUE)
      BY <2>2 DEF CreateReplica
    <3>2. [at |-> "publish", id |-> i, both |-> TRUE] \in RepCallRow
      BY DEF RepCallRow
    <3>3. Made(c)'
      BY <1>0, <3>1 DEF RepArrives, Made
    <3> QED
      BY <1>0, <2>2, <3>1, <3>2, <3>3, ReplicaMoves DEF CreateReplica, RepArrives, ReplicasTypeOK
  <2>3. CASE CreatePublication(c)
    <3>1. CASE Works /\ RepTo(c, "subscribe") /\ publications' = publications \cup {repCalls[c].id}
      <4>1. Made(c)'
        BY <1>0, <2>0, <3>1, <2>3 DEF RepTo, Made, CreatePublication, RepAt
      <4> QED
        BY <1>0, <2>0, <2>1, <2>3, <3>1, <4>1, ReplicaMoves DEF CreatePublication, RepAt, RepTo, Works, ReplicasTypeOK, Made
    <3>2. CASE Fails /\ RepAnswers(c) /\ UNCHANGED publications
      <4>1. Made(c)'
        BY <1>0, <2>0, <3>2 DEF RepAnswers, Made
      <4> QED
        <5>1. repCalls' = [repCalls EXCEPT ![c] = NoRepCall] /\ repFaults' \in 0..MaxRepFaults
          BY <1>0, <3>2 DEF RepAnswers, Fails, ReplicasTypeOK
        <5>2. UNCHANGED <<managed, repRows, publications, subscriptions, tornDown>>
          BY <2>3, <3>2 DEF CreatePublication
        <5> QED
          BY <1>0, <2>0, <4>1, <5>1, <5>2, ReplicaMoves DEF ReplicasTypeOK
    <3> QED
      BY <2>3, <3>1, <3>2 DEF CreatePublication
  <2>4. CASE CreateSubscription(c)
    <3>1. CASE Works /\ RepTo(c, "insert") /\ subscriptions' = subscriptions \cup {repCalls[c].id}
      <4>1. Made(c)'
        BY <1>0, <2>0, <3>1, <2>4 DEF RepTo, Made, CreateSubscription, RepAt
      <4> QED
        BY <1>0, <2>0, <2>1, <2>4, <3>1, <4>1, ReplicaMoves DEF CreateSubscription, RepAt, RepTo, Works, ReplicasTypeOK, Made
    <3>2. CASE Fails /\ RepAnswers(c) /\ UNCHANGED subscriptions
      <4>1. Made(c)'
        BY <1>0, <2>0, <3>2 DEF RepAnswers, Made
      <4> QED
        <5>1. repCalls' = [repCalls EXCEPT ![c] = NoRepCall] /\ repFaults' \in 0..MaxRepFaults
          BY <1>0, <3>2 DEF RepAnswers, Fails, ReplicasTypeOK
        <5>2. UNCHANGED <<managed, repRows, publications, subscriptions, tornDown>>
          BY <2>4, <3>2 DEF CreateSubscription
        <5> QED
          BY <1>0, <2>0, <4>1, <5>1, <5>2, ReplicaMoves DEF ReplicasTypeOK
    <3> QED
      BY <2>4, <3>1, <3>2 DEF CreateSubscription
  <2>5. CASE InsertReplica(c) \/ DeleteReplicaRow(c)
    <3>1. Made(c)' /\ repCalls[c].id \in RepIds
      BY <1>0, <2>0, <2>5 DEF InsertReplica, DeleteReplicaRow, RepAt, RepAnswers, Made
    <3>2. /\ repRows' \in [RepIds -> ReplicaRow]
          /\ \A i \in RepIds : repRows'[i] = "streaming" =>
               repRows[i] = "streaming" \/ i \in (publications \cap subscriptions) \cup tornDown
      BY <1>0, <2>0, <2>5, <3>1 DEF InsertReplica, DeleteReplicaRow, RepAt, Made, ReplicasTypeOK, ReplicaRow
    <3> QED
      BY <1>0, <2>0, <2>5, <3>1, <3>2, ReplicaMoves DEF InsertReplica, DeleteReplicaRow, RepAnswers, ReplicasTypeOK
  <2>6. CASE DeleteReplica(c)
    <3>1. PICK i \in RepIds : /\ tornDown' = tornDown \cup {i}
                              /\ RepArrives(c, IF repRows[i] = "streaming" THEN "unsubscribe" ELSE "unpublish", i, repRows[i] = "streaming")
      BY <2>6 DEF DeleteReplica
    <3> DEFINE at == IF repRows[i] = "streaming" THEN "unsubscribe" ELSE "unpublish"
               query == [at |-> at, id |-> i, both |-> repRows[i] = "streaming"]
    <3>2. query \in RepCallRow /\ query.at \in {"unsubscribe", "unpublish"} /\ query.id = i
      BY DEF RepCallRow
    <3>3. repCalls' = [repCalls EXCEPT ![c] = query]
      BY <3>1 DEF RepArrives
    <3> HIDE DEF query
    <3>4. Made(c)'
      BY <1>0, <3>1, <3>2, <3>3 DEF Made
    <3> QED
      BY <1>0, <2>6, <3>1, <3>2, <3>3, <3>4, ReplicaMoves DEF DeleteReplica, ReplicasTypeOK
  <2>7. CASE DropSubscription(c) \/ DropPublication(c)
    <3>1. PICK at \in {"unpublish", "delete"} : /\ RepTo(c, at) /\ repCalls[c].at \in {"unsubscribe", "unpublish"}
                                               /\ UNCHANGED <<managed, repRows, tornDown>>
      BY <2>7 DEF DropSubscription, DropPublication, RepAt
    <3>2. repCalls[c].id \in RepIds /\ repCalls[c].id \in tornDown
      BY <2>0, <3>1 DEF Made
    <3>3. repCalls'[c].at = at /\ repCalls'[c].id = repCalls[c].id
      BY <1>0, <2>0, <3>1 DEF RepTo, RepCallRow
    <3>4. Made(c)'
      BY <3>1, <3>2, <3>3 DEF Made
    <3> QED
      <4>1. repFaults' \in 0..MaxRepFaults
        BY <1>0, <2>7 DEF DropSubscription, DropPublication, Works, Fails, ReplicasTypeOK
      <4>2. /\ subscriptions' \subseteq subscriptions /\ subscriptions \subseteq subscriptions' \cup tornDown
            /\ publications' \subseteq publications /\ publications \subseteq publications' \cup tornDown
        BY <2>7, <3>2 DEF DropSubscription, DropPublication
      <4>3. [repCalls[c] EXCEPT !.at = at] \in RepCallRow /\ repCalls' = [repCalls EXCEPT ![c] = [repCalls[c] EXCEPT !.at = at]]
        BY <1>0, <2>1, <3>1 DEF RepTo
      <4> QED
        BY <1>0, <3>1, <3>4, <4>1, <4>2, <4>3, ReplicaMoves DEF ReplicasTypeOK
  <2> QED
    BY <1>4, <2>2, <2>3, <2>4, <2>5, <2>6, <2>7
<1> QED
  BY <1>1, <1>2, <1>3, <1>4 DEF ReplicasNext

\* A row that says "streaming" has its publication and its subscription until somebody asks
\* for its deletion, for any number of replicas, requests, failed connections and deaths.
THEOREM StreamsAreReal == ReplicasSpec => []StreamingIsReal
<1>1. ReplicasInv => StreamingIsReal
  BY DEF ReplicasInv
<1> QED
  BY <1>1, ReplicasStart, ReplicasStep, PTL DEF ReplicasSpec

(***************************************************************************)
(* Mailboxes.                                                              *)
(***************************************************************************)

\* Between the account and the row the account has the password of this request, unless a
\* late deletion or another creation took it; and who deletes was asked to.
Promised(c) ==
  /\ boxCalls[c].at # "none" => boxCalls[c].id \in BoxIds /\ boxCalls[c].address \in LocalParts
  /\ boxCalls[c].at = "insert" => boxCalls[c].id \in unwanted \/ accounts[boxCalls[c].address] = boxCalls[c].id
  /\ boxCalls[c].at \in {"remove", "delete"} => boxCalls[c].id \in unwanted

MailboxesInv == MailboxesTypeOK /\ (\A c \in BoxCalls : Promised(c)) /\ ShownPasswordWorks

BoxCallRow == [at : {"none", "create", "insert", "remove", "delete"},
               id : BoxIds \cup {NoBox}, address : LocalParts \cup {NoBox}]

LEMMA MailboxesStart == MailboxesInit => MailboxesInv
<1> SUFFICES ASSUME MailboxesInit PROVE MailboxesInv
  OBVIOUS
<1>1. NoBoxCall \in BoxCallRow /\ NoBoxCall.at = "none"
  BY DEF NoBoxCall, BoxCallRow
<1>2. MailboxesTypeOK /\ \A c \in BoxCalls : Promised(c)
  BY <1>1, MailboxesAssumption DEF MailboxesInit, MailboxesTypeOK, Promised, BoxCallRow, Account, MailboxRow
<1> QED
  BY <1>2 DEF MailboxesInv, MailboxesInit, ShownPasswordWorks

\* One request moves, and shows nothing.  An account that goes had a password that nobody
\* wants, and so has a row that changes.
LEMMA MailboxMoves ==
  ASSUME MailboxesInv, NEW c \in BoxCalls, NEW query \in BoxCallRow, boxCalls' = [boxCalls EXCEPT ![c] = query],
         boxFaults' \in 0..MaxBoxFaults, Promised(c)',
         accounts' \in [LocalParts -> Account], boxRows' \in [BoxIds -> MailboxRow],
         handedOver' = handedOver, unwanted' \subseteq BoxIds, unwanted \subseteq unwanted',
         \A a \in LocalParts : accounts[a] \in {accounts'[a], NoBox} \cup unwanted',
         \A b \in BoxIds : boxRows'[b] = boxRows[b] \/ b \in unwanted'
  PROVE  MailboxesInv'
<1>1. MailboxesTypeOK'
  BY DEF MailboxesInv, MailboxesTypeOK, BoxCallRow
<1>2. \A k \in BoxCalls \ {c} : boxCalls'[k] = boxCalls[k]
  BY DEF MailboxesInv, MailboxesTypeOK
<1>3. \A k \in BoxCalls \ {c} : Promised(k)'
  BY <1>2, MailboxesAssumption DEF MailboxesInv, Promised
<1>4. ShownPasswordWorks'
  <2> SUFFICES ASSUME NEW b \in handedOver \ unwanted' PROVE boxRows'[b] # NoBox /\ accounts'[boxRows'[b]] = b
    BY DEF ShownPasswordWorks
  <2>1. b \in BoxIds /\ boxRows[b] \in LocalParts /\ accounts[boxRows[b]] = b
    BY DEF MailboxesInv, ShownPasswordWorks, MailboxesTypeOK, MailboxRow
  <2> QED
    BY <2>1, MailboxesAssumption DEF MailboxesInv, MailboxesTypeOK
<1> QED
  BY <1>1, <1>3, <1>4 DEF MailboxesInv

LEMMA MailboxesStep == MailboxesInv /\ [MailboxesNext]_mailboxVars => MailboxesInv'
<1> SUFFICES ASSUME MailboxesInv, [MailboxesNext]_mailboxVars PROVE MailboxesInv'
  OBVIOUS
<1>0. MailboxesTypeOK /\ boxCalls \in [BoxCalls -> BoxCallRow] /\ MaxBoxFaults \in Nat /\ NoBox \notin BoxIds \cup LocalParts
  BY MailboxesAssumption DEF MailboxesInv, MailboxesTypeOK, BoxCallRow
<1>1. NoBoxCall \in BoxCallRow /\ NoBoxCall.at = "none"
  BY DEF NoBoxCall, BoxCallRow
<1>2. CASE BoxProcessDies
  BY <1>0, <1>1, <1>2 DEF BoxProcessDies, MailboxesInv, MailboxesTypeOK, Promised, ShownPasswordWorks, BoxCallRow
<1>3. CASE UNCHANGED mailboxVars
  BY <1>3 DEF mailboxVars, MailboxesInv, MailboxesTypeOK, Promised, ShownPasswordWorks
<1>4. ASSUME NEW c \in BoxCalls,
             \/ CreateMailbox(c) \/ CreateAccount(c) \/ InsertMailbox(c) \/ DeleteMailbox(c)
             \/ RemoveAccount(c) \/ DeleteMailboxRow(c) \/ BoxStepFails(c)
      PROVE  MailboxesInv'
  <2>0. boxCalls[c] \in BoxCallRow /\ Promised(c)
    BY <1>0 DEF MailboxesInv
  <2>1. ASSUME NEW at \in {"insert", "delete"} PROVE [boxCalls[c] EXCEPT !.at = at] \in BoxCallRow
    BY <2>0 DEF BoxCallRow
  <2>2. CASE CreateMailbox(c)
    <3>1. PICK b \in BoxIds, a \in LocalParts : boxCalls' = [boxCalls EXCEPT ![c] = [at |-> "create", id |-> b, address |-> a]]
      BY <2>2 DEF CreateMailbox
    <3>2. [at |-> "create", id |-> b, address |-> a] \in BoxCallRow
      BY DEF BoxCallRow
    <3>3. Promised(c)'
      BY <1>0, <3>1 DEF Promised
    <3> QED
      BY <1>0, <2>2, <3>1, <3>2, <3>3, MailboxMoves DEF CreateMailbox, MailboxesTypeOK
  <2>3. CASE CreateAccount(c)
    <3>0. boxCalls[c].id \in BoxIds /\ boxCalls[c].address \in LocalParts /\ boxCalls[c].at = "create"
      BY <2>0, <2>3 DEF CreateAccount, BoxAt, Promised
    <3>1. CASE BoxAnswers(c) /\ UNCHANGED <<accounts, unwanted>>
      <4>1. boxCalls' = [boxCalls EXCEPT ![c] = NoBoxCall] /\ Promised(c)'
        BY <1>0, <1>1, <3>1 DEF BoxAnswers, Promised
      <4> QED
        BY <1>0, <1>1, <2>3, <3>1, <4>1, MailboxMoves DEF CreateAccount, MailboxesTypeOK
    <3>2. CASE /\ BoxTo(c, "insert") /\ accounts' = [accounts EXCEPT ![boxCalls[c].address] = boxCalls[c].id]
               /\ unwanted' = unwanted \cup ({accounts[boxCalls[c].address]} \ {NoBox})
      <4>1. boxCalls' = [boxCalls EXCEPT ![c].at = "insert"]
        BY <3>2 DEF BoxTo
      <4>2. Promised(c)'
        BY <1>0, <2>0, <3>0, <3>2, <4>1 DEF Promised, MailboxesTypeOK, BoxCallRow
      <4>3. /\ accounts' \in [LocalParts -> Account] /\ unwanted' \subseteq BoxIds
            /\ \A x \in LocalParts : accounts[x] \in {accounts'[x], NoBox} \cup unwanted'
        BY <1>0, <3>0, <3>2 DEF MailboxesTypeOK, Account
      <4> QED
        BY <1>0, <2>1, <2>3, <3>2, <4>1, <4>2, <4>3, MailboxMoves DEF CreateAccount, MailboxesTypeOK
    <3> QED
      BY <2>3, <3>1, <3>2 DEF CreateAccount
  <2>4. CASE InsertMailbox(c)
    <3>0. boxCalls[c].id \in BoxIds /\ boxCalls[c].address \in LocalParts /\ boxCalls[c].at = "insert"
      BY <2>0, <2>4 DEF InsertMailbox, BoxAt, Promised
    <3>1. boxCalls' = [boxCalls EXCEPT ![c] = NoBoxCall] /\ Promised(c)' /\ UNCHANGED <<accounts, unwanted, boxFaults>>
      BY <1>0, <1>1, <2>4 DEF InsertMailbox, BoxAnswers, Promised
    <3>2. CASE \E b \in BoxIds : boxRows[b] = boxCalls[c].address
      BY <1>0, <1>1, <2>4, <3>1, <3>2, MailboxMoves DEF InsertMailbox, MailboxesTypeOK
    <3>3. CASE ~ \E b \in BoxIds : boxRows[b] = boxCalls[c].address
      <4>1. /\ boxRows' = [boxRows EXCEPT ![boxCalls[c].id] = boxCalls[c].address]
            /\ handedOver' = handedOver \cup {boxCalls[c].id}
        BY <2>4, <3>3 DEF InsertMailbox
      <4>2. boxCalls[c].id \in unwanted \/ accounts[boxCalls[c].address] = boxCalls[c].id
        BY <2>0, <3>0 DEF Promised
      <4>3. MailboxesTypeOK'
        BY <1>0, <1>1, <3>0, <3>1, <4>1 DEF MailboxesTypeOK, MailboxRow, BoxCallRow
      <4>4. \A k \in BoxCalls \ {c} : Promised(k)'
        BY <1>0, <3>1 DEF MailboxesInv, Promised
      <4>5. ShownPasswordWorks'
        BY <1>0, <3>0, <3>1, <4>1, <4>2 DEF MailboxesInv, MailboxesTypeOK, ShownPasswordWorks
      <4> QED
        BY <3>1, <4>3, <4>4, <4>5 DEF MailboxesInv
    <3> QED
      BY <3>2, <3>3
  <2>5. CASE DeleteMailbox(c)
    <3>1. PICK b \in BoxIds : /\ boxRows[b] # NoBox /\ unwanted' = unwanted \cup {b}
                              /\ boxCalls' = [boxCalls EXCEPT ![c] = [at |-> "remove", id |-> b, address |-> boxRows[b]]]
      BY <2>5 DEF DeleteMailbox
    <3>2. [at |-> "remove", id |-> b, address |-> boxRows[b]] \in BoxCallRow /\ boxRows[b] \in LocalParts
      BY <1>0, <3>1 DEF BoxCallRow, MailboxesTypeOK, MailboxRow
    <3>3. Promised(c)'
      BY <1>0, <3>1, <3>2 DEF Promised
    <3> QED
      BY <1>0, <2>5, <3>1, <3>2, <3>3, MailboxMoves DEF DeleteMailbox, MailboxesTypeOK
  <2>6. CASE RemoveAccount(c)
    <3> DEFINE a == boxCalls[c].address
    <3>0. boxCalls[c].id \in BoxIds /\ a \in LocalParts /\ boxCalls[c].at = "remove"
      BY <2>0, <2>6 DEF RemoveAccount, BoxAt, Promised
    <3>1. CASE accounts[a] = NoBox
      <4>1. boxCalls' = [boxCalls EXCEPT ![c] = NoBoxCall] /\ Promised(c)'
        BY <1>0, <1>1, <2>6, <3>1 DEF RemoveAccount, BoxAnswers, Promised
      <4> QED
        BY <1>0, <1>1, <2>6, <3>1, <4>1, MailboxMoves DEF RemoveAccount, MailboxesTypeOK
    <3>2. CASE accounts[a] # NoBox
      <4>1. /\ boxCalls' = [boxCalls EXCEPT ![c].at = "delete"] /\ accounts' = [accounts EXCEPT ![a] = NoBox]
            /\ unwanted' = unwanted \cup {accounts[a]} /\ accounts[a] \in BoxIds
        BY <1>0, <2>6, <3>0, <3>2 DEF RemoveAccount, BoxTo, MailboxesTypeOK, Account
      <4>2. Promised(c)'
        BY <1>0, <2>0, <3>0, <4>1 DEF Promised, BoxCallRow
      <4>3. accounts' \in [LocalParts -> Account] /\ \A x \in LocalParts : accounts[x] \in {accounts'[x]} \cup unwanted'
        BY <1>0, <3>0, <4>1 DEF MailboxesTypeOK, Account
      <4> QED
        BY <1>0, <2>1, <2>6, <4>1, <4>2, <4>3, MailboxMoves DEF RemoveAccount, MailboxesTypeOK
    <3> QED
      BY <3>1, <3>2
  <2>7. CASE DeleteMailboxRow(c)
    <3>1. boxCalls' = [boxCalls EXCEPT ![c] = NoBoxCall] /\ Promised(c)' /\ boxCalls[c].id \in BoxIds /\ boxCalls[c].id \in unwanted
      BY <1>0, <1>1, <2>0, <2>7 DEF DeleteMailboxRow, BoxAt, BoxAnswers, Promised
    <3>2. boxRows' \in [BoxIds -> MailboxRow] /\ \A b \in BoxIds : boxRows'[b] = boxRows[b] \/ b \in unwanted'
      BY <1>0, <2>7, <3>1 DEF DeleteMailboxRow, MailboxesTypeOK, MailboxRow
    <3> QED
      BY <1>0, <1>1, <2>7, <3>1, <3>2, MailboxMoves DEF DeleteMailboxRow, MailboxesTypeOK
  <2>8. CASE BoxStepFails(c)
    <3>1. boxCalls' = [boxCalls EXCEPT ![c] = NoBoxCall] /\ Promised(c)' /\ boxFaults' \in 0..MaxBoxFaults
      BY <1>0, <1>1, <2>8 DEF BoxStepFails, BoxAnswers, Promised, MailboxesTypeOK
    <3> QED
      BY <1>0, <1>1, <2>8, <3>1, MailboxMoves DEF BoxStepFails, MailboxesTypeOK
  <2> QED
    BY <1>4, <2>2, <2>3, <2>4, <2>5, <2>6, <2>7, <2>8
<1> QED
  BY <1>2, <1>3, <1>4 DEF MailboxesNext

\* A password that was shown opens the mailbox it was shown for until somebody asks for its
\* deletion, a late deletion of its address comes through or somebody asks for another
\* mailbox of the address, for any number of mailboxes, addresses, requests, failures and
\* deaths, and whether Stalwart updates an account that it has or refuses it.
THEOREM ShownPasswordsWork == MailboxesSpec => []ShownPasswordWorks
<1>1. MailboxesInv => ShownPasswordWorks
  BY DEF MailboxesInv
<1> QED
  BY <1>1, MailboxesStart, MailboxesStep, PTL DEF MailboxesSpec

(***************************************************************************)
(* The catalog.                                                            *)
(***************************************************************************)

\* What is about to be said to run is up.
CatalogInv ==
  /\ CatalogTypeOK /\ RunningIsUp
  /\ \A s \in Services : installing[s] = "mark-running" /\ uninstalling[s] = "none" => stack[s]

LEMMA CatalogStarts == CatalogInit => CatalogInv
BY CatalogAssumption DEF CatalogInit, CatalogInv, CatalogTypeOK, RunningIsUp, ServiceRow, MailInstanceRow

LEMMA CatalogStep == CatalogInv /\ [CatalogNext]_catalogVars => CatalogInv'
<1> SUFFICES ASSUME CatalogInv, [CatalogNext]_catalogVars PROVE CatalogInv'
  OBVIOUS
<1> USE CatalogAssumption DEF CatalogInv, CatalogTypeOK, RunningIsUp, ServiceRow, MailInstanceRow, Installed, SvcGone,
                              CatalogFault, InstallTo, UninstallTo
<1>1. CASE UNCHANGED catalogVars
  BY <1>1 DEF catalogVars
<1>2. CASE CatalogProcessDies
  <2>1. /\ stack' \in [Services -> BOOLEAN]
        /\ \A s \in Services : uninstalling[s] = "none" /\ stack[s] => stack'[s]
    BY <1>2 DEF CatalogProcessDies
  <2>2. /\ \A s \in Services : installing'[s] \in {"none", "over"}
        /\ installing' \in [Services -> {"none", "files", "up", "mark-running", "mark-failed", "over"}]
    BY <1>2 DEF CatalogProcessDies
  <2>3. /\ uninstalling' \in [Services -> {"none", "down", "delete", "over"}]
        /\ \A s \in Services : uninstalling'[s] = "none" => uninstalling[s] = "none"
    BY <1>2 DEF CatalogProcessDies
  <2>4. catalogFaults' \in 0..MaxCatalogFaults /\ svcRow' = svcRow /\ mailOf' = mailOf
    BY <1>2 DEF CatalogProcessDies
  <2> QED
    BY <2>1, <2>2, <2>3, <2>4
<1>3. ASSUME NEW s \in Services, InstallCatalogService(s) PROVE CatalogInv'
  BY <1>3 DEF InstallCatalogService
<1>4. ASSUME NEW s \in Services, WriteProject(s) PROVE CatalogInv'
  BY <1>4 DEF WriteProject
<1>5. ASSUME NEW s \in Services, ComposeUp(s) PROVE CatalogInv'
  <2>0. stack' \in {stack, [stack EXCEPT ![s] = TRUE]}
    BY <1>5 DEF ComposeUp
  <2>1. stack' \in [Services -> BOOLEAN] /\ \A t \in Services : stack[t] => stack'[t]
    BY <2>0
  <2>3. catalogFaults' \in 0..MaxCatalogFaults /\ svcRow' = svcRow /\ uninstalling' = uninstalling /\ mailOf' = mailOf
    BY <1>5 DEF ComposeUp
  <2>2. PICK at \in {"mark-running", "mark-failed"} :
          installing' = [installing EXCEPT ![s] = at] /\ (at = "mark-running" => stack'[s])
    BY <1>5 DEF ComposeUp
  <2> QED
    BY <2>1, <2>2, <2>3
<1>6. ASSUME NEW s \in Services, MarkInstalled(s) PROVE CatalogInv'
  BY <1>6 DEF MarkInstalled
<1>7. ASSUME NEW s \in Services, UninstallCatalogService(s) PROVE CatalogInv'
  BY <1>7 DEF UninstallCatalogService
<1>8. ASSUME NEW s \in Services, ComposeDown(s) PROVE CatalogInv'
  <2>1. stack' \in {stack, [stack EXCEPT ![s] = FALSE]}
    BY <1>8 DEF ComposeDown
  <2>2. stack' \in [Services -> BOOLEAN] /\ \A t \in Services \ {s} : stack'[t] = stack[t]
    BY <2>1
  <2>3. /\ catalogFaults' \in 0..MaxCatalogFaults /\ svcRow' = svcRow /\ installing' = installing /\ mailOf' = mailOf
        /\ uninstalling' = [uninstalling EXCEPT ![s] = "delete"]
    BY <1>8 DEF ComposeDown
  <2> QED
    BY <2>2, <2>3
<1>9. ASSUME NEW s \in Services, DeleteService(s) PROVE CatalogInv'
  BY <1>9 DEF DeleteService
<1>10. ASSUME NEW s \in Services, NEW m \in MailInstances, ProvisionInstance(m, s) PROVE CatalogInv'
  BY <1>10 DEF ProvisionInstance
<1> QED
  BY <1>1, <1>2, <1>3, <1>4, <1>5, <1>6, <1>7, <1>8, <1>9, <1>10 DEF CatalogNext

\* A service that is said to run is up, unless someone has begun to uninstall it, and a mail
\* instance has the row of its service, for any number of both, of failures and of deaths.
THEOREM ServicesAreUp == CatalogSpec => []RunningIsUp
<1>1. CatalogInv => RunningIsUp
  BY DEF CatalogInv
<1> QED
  BY <1>1, CatalogStarts, CatalogStep, PTL DEF CatalogSpec

(***************************************************************************)
(* The edge.                                                               *)
(***************************************************************************)

\* A host gets one of S from these routes: there is none for it and none is right, or the
\* first ones for it are right.
GoodFor(q, h, S) ==
  \/ NoUpstream \in S /\ \A i \in DOMAIN q : q[i].host # h
  \/ \E i \in DOMAIN q : q[i].host = h /\ \A j \in 1..i : q[j].host = h => q[j].up \in S

\* A domain with a deployment to serve it.
Owes(h) == domainOf[h] # NoApp /\ livePort[domainOf[h]] # NoUpstream

\* The routes that have been found are those of the rows, and what was not found is still
\* looked up.
DraftIsTrue ==
  /\ \A h \in Hosts, a \in EdgeApps : <<h, a>> \in lookups => domainOf[h] = a
  /\ \A i \in DOMAIN draft : Owes(draft[i].host) /\ draft[i].up = livePort[domainOf[draft[i].host]]
  /\ \A h \in Hosts : Owes(h) => <<h, domainOf[h]>> \in lookups \/ \E i \in DOMAIN draft : draft[i].host = h

\* Who changes the rows leaves a converge to do, so while none is left to do the one inside
\* the mutex reads the rows that will stay.
EdgeInv ==
  /\ EdgeTypeOK
  /\ loaded # <<>> => loaded[1] = CpRoute
  /\ lookups # {} => phase = "domains"
  /\ waitingLoads = 0 /\ tearing = {} =>
       /\ phase = "idle" /\ ~missed => \A h \in Hosts : GoodFor(loaded, h, Deserved(h))
       /\ phase = "load" => \A h \in Hosts \ {CpHost} : GoodFor(draft, h, Deserved(h))
       /\ phase = "domains" => DraftIsTrue

LEMMA RoutesTyped ==
  /\ NoUpstream \notin EdgePorts /\ CpRoute \in RouteEntry
  /\ \A h \in Hosts, up \in EdgePorts : Route(h, up) \in RouteEntry
BY EdgeAssumption DEF NoUpstream, EdgePorts, CpRoute, Route, RouteEntry, ControlPlane

LEMMA EdgeStarts == EdgeInit => EdgeInv
<1> SUFFICES ASSUME EdgeInit PROVE EdgeInv
  OBVIOUS
<1> DEFINE some == CHOOSE a \in EdgeApps : TRUE
<1>1. some \in EdgeApps
  BY EdgeAssumption
<1> HIDE DEF some
<1>2. domainOf \in [Hosts -> DomainRow]
  BY <1>1 DEF EdgeInit, DomainRow, some
<1>3. livePort \in [EdgeApps -> EdgePorts \cup {NoUpstream}]
  BY EdgeAssumption DEF EdgeInit, EdgePorts
<1>4. <<>> \in Seq(RouteEntry)
  BY EmptySeq
<1>5. previewPort \in [EdgeApps -> EdgePorts \cup {NoUpstream}]
  BY DEF EdgeInit
<1>6. waitingLoads = 1 /\ phase = "idle" /\ missed = FALSE /\ lookups = {} /\ changes = 0 /\ edgeFaults = 0
  BY DEF EdgeInit
<1>7. 0 \in 0..MaxChanges /\ 0 \in 0..MaxEdgeFaults
  BY EdgeAssumption
<1>8. EdgeTypeOK
  <2>1. {draft, loaded} \subseteq Seq(RouteEntry)
    BY <1>4 DEF EdgeInit
  <2>2. appsThere \subseteq EdgeApps /\ tearing \subseteq EdgeApps
    BY DEF EdgeInit
  <2> QED
    BY <1>2, <1>3, <1>5, <1>6, <1>7, <2>1, <2>2 DEF EdgeTypeOK, MutexPhase
<1> QED
  BY <1>6, <1>8 DEF EdgeInv, EdgeInit

\* Of a change the converge is still to come.
LEMMA ChangesAreToCome ==
  ASSUME EdgeInv, EdgeTypeOK', loaded' = loaded, lookups' = {} \/ UNCHANGED <<lookups, phase>>, waitingLoads' # 0 \/ tearing' # {} PROVE EdgeInv'
BY DEF EdgeInv

LEMMA RowChanges ==
  ASSUME EdgeInv,
         \/ \E a \in EdgeApps, h \in Hosts : AddDomain(a, h)
         \/ \E h \in Hosts : RemoveDomain(h)
         \/ \E a \in EdgeApps : ServeOn(a) \/ RunPreview(a) \/ ClosePreview(a) \/ TearDown(a) \/ RemoveApp(a)
  PROVE  EdgeInv'
<1> USE EdgeAssumption DEF EdgeInv, EdgeTypeOK, Change, Reconverge
<1>0. waitingLoads + 1 \in Nat /\ waitingLoads + 1 # 0
  OBVIOUS
<1>1. ASSUME NEW a \in EdgeApps, NEW h \in Hosts, AddDomain(a, h) PROVE EdgeInv'
  <2>1. EdgeTypeOK'
    BY <1>1 DEF AddDomain, DomainRow
  <2> QED
    BY <1>0, <1>1, <2>1, ChangesAreToCome DEF AddDomain
<1>2. ASSUME NEW h \in Hosts, RemoveDomain(h) PROVE EdgeInv'
  <2>1. EdgeTypeOK'
    BY <1>2 DEF RemoveDomain, DomainRow
  <2> QED
    BY <1>0, <1>2, <2>1, ChangesAreToCome DEF RemoveDomain
<1>3. ASSUME NEW a \in EdgeApps, ServeOn(a) \/ RunPreview(a) PROVE EdgeInv'
  <2>1. <<a, changes'>> \in EdgePorts /\ changes' \in 0..MaxChanges
    BY <1>3 DEF ServeOn, RunPreview, EdgePorts
  <2>2. /\ livePort' \in {livePort, [livePort EXCEPT ![a] = <<a, changes'>>]}
        /\ previewPort' \in {previewPort, [previewPort EXCEPT ![a] = <<a, changes'>>]}
    BY <1>3 DEF ServeOn, RunPreview
  <2>3. livePort' \in [EdgeApps -> EdgePorts \cup {NoUpstream}]
    BY <2>1, <2>2
  <2>4. previewPort' \in [EdgeApps -> EdgePorts \cup {NoUpstream}]
    BY <2>1, <2>2
  <2>5. EdgeTypeOK'
    BY <1>3, <2>1, <2>3, <2>4 DEF ServeOn, RunPreview
  <2> QED
    BY <1>0, <1>3, <2>5, ChangesAreToCome DEF ServeOn, RunPreview
<1>4. ASSUME NEW a \in EdgeApps, ClosePreview(a) PROVE EdgeInv'
  <2>1. EdgeTypeOK'
    BY <1>4 DEF ClosePreview
  <2> QED
    BY <1>4, <2>1, ChangesAreToCome DEF ClosePreview
<1>5. ASSUME NEW a \in EdgeApps, TearDown(a) PROVE EdgeInv'
  <2>1. EdgeTypeOK'
    BY <1>5 DEF TearDown
  <2> QED
    BY <1>0, <1>5, <2>1, ChangesAreToCome DEF TearDown
<1>6. ASSUME NEW a \in EdgeApps, RemoveApp(a) PROVE EdgeInv'
  <2>1. domainOf' \in [Hosts -> DomainRow]
    BY <1>6 DEF RemoveApp, DomainRow
  <2>2. /\ livePort' \in [EdgeApps -> EdgePorts \cup {NoUpstream}]
        /\ previewPort' \in [EdgeApps -> EdgePorts \cup {NoUpstream}]
    BY <1>6 DEF RemoveApp
  <2>3. EdgeTypeOK'
    BY <1>6, <2>1, <2>2 DEF RemoveApp
  <2> QED
    BY <1>0, <1>6, <2>3, ChangesAreToCome DEF RemoveApp
<1> QED
  BY <1>1, <1>2, <1>3, <1>4, <1>5, <1>6

LEMMA LookUpsAreTrue ==
  ASSUME EdgeInv, LookUpDomain PROVE EdgeInv'
<1>0. PICK h \in Hosts, a \in EdgeApps : LookUp(h, a, livePort[a])
  BY DEF LookUpDomain
<1>1. /\ EdgeTypeOK /\ livePort[a] \in EdgePorts \cup {NoUpstream} /\ draft \in Seq(RouteEntry)
      /\ phase = "domains" /\ UNCHANGED <<phase, loaded, waitingLoads, tearing>>
  BY <1>0 DEF EdgeInv, EdgeTypeOK, LookUp, edgeRows
<1>2. CASE livePort[a] = NoUpstream
  <2>1. EdgeTypeOK' /\ draft' = draft
    BY <1>0, <1>1, <1>2 DEF LookUp, EdgeTypeOK, edgeRows
  <2>2. DraftIsTrue => DraftIsTrue'
    BY <1>0, <1>2, <2>1 DEF LookUp, edgeRows, DraftIsTrue, Owes
  <2> QED
    BY <1>1, <2>1, <2>2 DEF EdgeInv
<1>3. CASE livePort[a] # NoUpstream
  <2> DEFINE r == Route(h, livePort[a])
  <2>1. r \in RouteEntry /\ r.host = h /\ r.up = livePort[a]
    BY <1>1, <1>3, RoutesTyped DEF Route
  <2> HIDE DEF r
  <2>2. draft' = Append(draft, r)
    BY <1>0, <1>3 DEF LookUp, r
  <2>3. /\ draft' \in Seq(RouteEntry) /\ Len(draft') = Len(draft) + 1 /\ draft'[Len(draft) + 1] = r
        /\ \A i \in 1..Len(draft) : draft'[i] = draft[i]
    BY <1>1, <2>1, <2>2, AppendProperties
  <2>4. EdgeTypeOK'
    BY <1>0, <1>1, <2>3 DEF LookUp, EdgeTypeOK, edgeRows
  <2>5. ASSUME DraftIsTrue PROVE DraftIsTrue'
    <3>1. domainOf[h] = a /\ NoApp \notin EdgeApps
      BY <1>0, <2>5, EdgeAssumption DEF LookUp, DraftIsTrue
    <3>2. UNCHANGED <<domainOf, livePort>> /\ lookups' = lookups \ {<<h, a>>}
      BY <1>0 DEF LookUp, edgeRows
    <3>3. DOMAIN draft = 1..Len(draft) /\ DOMAIN draft' = 1..Len(draft) + 1 /\ Len(draft) \in Nat
      BY <1>1, <2>3, LenProperties
    <3>4. \A i \in DOMAIN draft' : Owes(draft'[i].host) /\ draft'[i].up = livePort[domainOf[draft'[i].host]]
      <4> SUFFICES ASSUME NEW i \in DOMAIN draft' PROVE Owes(draft'[i].host) /\ draft'[i].up = livePort[domainOf[draft'[i].host]]
        OBVIOUS
      <4>1. CASE i \in DOMAIN draft
        BY <2>3, <2>5, <3>3, <4>1 DEF DraftIsTrue
      <4>2. CASE i = Len(draft) + 1
        BY <1>3, <2>1, <2>3, <3>1, <4>2 DEF Owes
      <4> QED
        BY <3>3, <4>1, <4>2
    <3>5. \A k \in Hosts : Owes(k) => <<k, domainOf[k]>> \in lookups' \/ \E i \in DOMAIN draft' : draft'[i].host = k
      <4> SUFFICES ASSUME NEW k \in Hosts, Owes(k), <<k, domainOf[k]>> \notin lookups'
                   PROVE \E i \in DOMAIN draft' : draft'[i].host = k
        OBVIOUS
      <4>1. CASE k = h
        BY <2>1, <2>3, <3>3, <4>1
      <4>2. CASE k # h
        <5>1. <<k, domainOf[k]>> \notin lookups
          BY <3>2, <4>2
        <5> QED
          BY <2>3, <2>5, <3>3, <5>1 DEF DraftIsTrue
      <4> QED
        BY <4>1, <4>2
    <3> QED
      BY <2>5, <3>2, <3>4, <3>5 DEF DraftIsTrue, Owes
  <2> QED
    BY <1>1, <2>4, <2>5 DEF EdgeInv
<1> QED
  BY <1>2, <1>3

LEMMA PreviewsComeLast ==
  ASSUME EdgeInv, LoadPreviewEntries PROVE EdgeInv'
<1> DEFINE running == {a \in EdgeApps : previewPort[a] # NoUpstream}
<1>1. PICK order \in [1..Cardinality(running) -> running] :
        /\ \A a \in running : \E i \in DOMAIN order : order[i] = a
        /\ draft' = draft \o [i \in DOMAIN order |-> Route(PreviewHost[order[i]], previewPort[order[i]])]
  BY DEF LoadPreviewEntries
<1>2. EdgeTypeOK /\ draft \in Seq(RouteEntry) /\ previewPort \in [EdgeApps -> EdgePorts \cup {NoUpstream}]
  BY DEF EdgeInv, EdgeTypeOK
<1>3. Cardinality(running) \in Nat
  BY EdgeAssumption, FS_Subset, FS_CardinalityType
<1> DEFINE n == Cardinality(running)
           more == [i \in DOMAIN order |-> Route(PreviewHost[order[i]], previewPort[order[i]])]
<1>4. \A a \in running : /\ Route(PreviewHost[a], previewPort[a]) \in RouteEntry
                         /\ Route(PreviewHost[a], previewPort[a]).host = PreviewHost[a]
                         /\ Route(PreviewHost[a], previewPort[a]).up = previewPort[a]
  BY <1>2, RoutesTyped, EdgeAssumption DEF Route
<1>5. more \in [1..n -> RouteEntry] /\ \A i \in 1..n : more[i] = Route(PreviewHost[order[i]], previewPort[order[i]])
  BY <1>4
<1>13. n \in Nat /\ draft' = draft \o more
  BY <1>1, <1>3
<1> HIDE DEF more, n
<1>6. more \in Seq(RouteEntry) /\ Len(more) = n
  BY <1>13, <1>5, SeqDef
<1>7. /\ draft' \in Seq(RouteEntry) /\ Len(draft') = Len(draft) + n
      /\ \A i \in 1..Len(draft) + n : draft'[i] = IF i <= Len(draft) THEN draft[i] ELSE more[i - Len(draft)]
  BY <1>2, <1>6, <1>13, ConcatProperties
<1>8. Len(draft) \in Nat /\ DOMAIN draft = 1..Len(draft) /\ DOMAIN draft' = 1..Len(draft) + n /\ n \in Nat /\ DOMAIN order = 1..n
  BY <1>2, <1>3, <1>7, LenProperties DEF n
<1>9. \A i \in 1..n : more[i].host = PreviewHost[order[i]] /\ more[i].up = previewPort[order[i]] /\ order[i] \in running
  BY <1>4, <1>5 DEF n
<1>10. EdgeTypeOK'
  BY <1>2, <1>7 DEF LoadPreviewEntries, EdgeTypeOK, MutexPhase, edgeRows
<1>11. ASSUME DraftIsTrue, NEW h \in Hosts \ {CpHost} PROVE GoodFor(draft', h, Deserved(h))
  <2>0. lookups = {}
    BY DEF LoadPreviewEntries
  <2>1. CASE Owes(h)
    <3>1. livePort[domainOf[h]] \in Deserved(h)
      BY <2>1 DEF Deserved, Owes
    <3>2. PICK i \in DOMAIN draft : draft[i].host = h
      BY <1>11, <2>0, <2>1 DEF DraftIsTrue
    <3>3. \A j \in 1..i : draft'[j] = draft[j] /\ j \in DOMAIN draft
      BY <1>7, <1>8
    <3>4. i \in DOMAIN draft' /\ draft'[i].host = h
      BY <1>8, <3>2, <3>3
    <3> QED
      BY <1>11, <3>1, <3>3, <3>4 DEF GoodFor, DraftIsTrue
  <2>2. CASE ~Owes(h)
    <3>1. \A i \in 1..Len(draft) : draft'[i].host # h
      <4> SUFFICES ASSUME NEW i \in 1..Len(draft) PROVE draft'[i].host # h
        OBVIOUS
      <4>1. Owes(draft[i].host) /\ draft'[i] = draft[i]
        BY <1>7, <1>8, <1>11 DEF DraftIsTrue
      <4> QED
        BY <2>2, <4>1
    <3> DEFINE previews == {previewPort[b] : b \in {c \in EdgeApps : PreviewHost[c] = h}} \ {NoUpstream}
    <3>2. Deserved(h) = IF previews # {} THEN previews ELSE {NoUpstream}
      BY <2>2 DEF Deserved, Owes
    <3>3. \A i \in DOMAIN draft' : draft'[i].host = h => draft'[i].up \in previews
      <4> SUFFICES ASSUME NEW i \in DOMAIN draft', draft'[i].host = h PROVE draft'[i].up \in previews
        OBVIOUS
      <4>1. i - Len(draft) \in 1..n /\ draft'[i] = more[i - Len(draft)]
        BY <1>7, <1>8, <3>1
      <4>2. PICK b \in EdgeApps : previewPort[b] # NoUpstream /\ PreviewHost[b] = h /\ draft'[i].up = previewPort[b]
        BY <1>9, <4>1
      <4> QED
        BY <4>2
    <3>4. CASE previews = {}
      BY <3>2, <3>3, <3>4 DEF GoodFor
    <3>5. CASE previews # {}
      <4>1. PICK b \in running : PreviewHost[b] = h
        BY <3>5
      <4>2. PICK i \in 1..n : order[i] = b
        BY <1>1, <1>8
      <4>3. i + Len(draft) \in DOMAIN draft' /\ draft'[i + Len(draft)] = more[i]
        <5>1. i + Len(draft) \in 1..Len(draft) + n /\ ~(i + Len(draft) <= Len(draft)) /\ i + Len(draft) - Len(draft) = i
          BY <1>8
        <5> QED
          BY <1>7, <1>8, <5>1
      <4>4. draft'[i + Len(draft)].host = h
        BY <1>9, <4>1, <4>2, <4>3
      <4>5. \A j \in 1..i + Len(draft) : j \in DOMAIN draft'
        BY <1>8, <4>3
      <4> QED
        BY <3>2, <3>3, <3>5, <4>3, <4>4, <4>5 DEF GoodFor
    <3> QED
      BY <3>4, <3>5
  <2> QED
    BY <2>1, <2>2
<1>12. /\ phase = "domains" /\ phase' = "load" /\ loaded' = loaded /\ lookups' = {} /\ waitingLoads' = waitingLoads /\ tearing' = tearing
       /\ \A h \in Hosts : Deserved(h)' = Deserved(h)
  BY DEF LoadPreviewEntries, edgeRows, Deserved
<1> QED
  BY <1>10, <1>11, <1>12 DEF EdgeInv

LEMMA ConvergesLoad ==
  ASSUME EdgeInv, DoConverge PROVE EdgeInv'
<1>1. EdgeTypeOK /\ draft \in Seq(RouteEntry) /\ CpRoute \in RouteEntry
  BY RoutesTyped DEF EdgeInv, EdgeTypeOK
<1>2. <<CpRoute>> \in Seq(RouteEntry) /\ Len(<<CpRoute>>) = 1 /\ <<CpRoute>>[1] = CpRoute
  BY <1>1
<1>3. /\ loaded' \in Seq(RouteEntry) /\ Len(loaded') = Len(draft) + 1
      /\ \A i \in 1..Len(draft) + 1 : loaded'[i] = IF i <= 1 THEN CpRoute ELSE draft[i - 1]
  BY <1>1, <1>2, ConcatProperties DEF DoConverge
<1>4. Len(draft) \in Nat /\ DOMAIN draft = 1..Len(draft) /\ DOMAIN loaded' = 1..Len(draft) + 1
  BY <1>1, <1>3, LenProperties
<1>5. loaded'[1] = CpRoute /\ CpRoute.host = CpHost /\ CpRoute.up = ControlPlane
  BY <1>3, <1>4 DEF CpRoute, Route
<1>6. EdgeTypeOK'
  BY <1>1, <1>3, EmptySeq DEF DoConverge, EdgeTypeOK, MutexPhase, edgeRows
<1>7. GoodFor(loaded', CpHost, Deserved(CpHost))
  BY <1>4, <1>5 DEF GoodFor, Deserved
<1>8. ASSUME NEW h \in Hosts \ {CpHost}, GoodFor(draft, h, Deserved(h)) PROVE GoodFor(loaded', h, Deserved(h))
  <2>1. CASE NoUpstream \in Deserved(h) /\ \A i \in DOMAIN draft : draft[i].host # h
    <3>1. ASSUME NEW i \in DOMAIN loaded' PROVE loaded'[i].host # h
      <4>1. CASE i = 1
        BY <1>5, <4>1
      <4>2. CASE i # 1
        BY <1>3, <1>4, <2>1, <4>2
      <4> QED
        BY <4>1, <4>2
    <3> QED
      BY <2>1, <3>1 DEF GoodFor
  <2>2. ASSUME NEW i \in DOMAIN draft, draft[i].host = h, \A j \in 1..i : draft[j].host = h => draft[j].up \in Deserved(h)
        PROVE  GoodFor(loaded', h, Deserved(h))
    <3>1. i + 1 \in DOMAIN loaded' /\ loaded'[i + 1].host = h
      BY <1>3, <1>4, <2>2
    <3>2. ASSUME NEW j \in 1..i + 1, loaded'[j].host = h PROVE loaded'[j].up \in Deserved(h)
      <4>1. j # 1
        BY <1>5, <3>2
      <4>2. j - 1 \in 1..i /\ loaded'[j] = draft[j - 1]
        BY <1>3, <1>4, <4>1
      <4> QED
        BY <2>2, <3>2, <4>2
    <3> QED
      BY <3>1, <3>2 DEF GoodFor
  <2> QED
    BY <1>8, <2>1, <2>2 DEF GoodFor
<1>9. /\ phase = "load" /\ phase' = "idle" /\ lookups' = lookups /\ waitingLoads' = waitingLoads /\ tearing' = tearing
      /\ \A h \in Hosts : Deserved(h)' = Deserved(h)
  BY DEF DoConverge, edgeRows, Deserved
<1> QED
  BY <1>5, <1>6, <1>7, <1>8, <1>9 DEF EdgeInv

LEMMA EdgeHolds == EdgeInv /\ [EdgeNext]_edgeVars => EdgeInv'
<1> SUFFICES ASSUME EdgeInv, [EdgeNext]_edgeVars PROVE EdgeInv'
  OBVIOUS
<1>0. EdgeTypeOK
  BY DEF EdgeInv
<1>1. CASE LoadDomainEntries
  <2>1. <<>> \in Seq(RouteEntry) /\ waitingLoads - 1 \in Nat
    BY <1>0, <1>1, EmptySeq DEF LoadDomainEntries, EdgeTypeOK
  <2>2. EdgeTypeOK'
    BY <1>0, <1>1, <2>1 DEF LoadDomainEntries, EdgeTypeOK, MutexPhase, edgeRows
  <2>3. DraftIsTrue'
    <3>1. /\ lookups' = {r \in Hosts \X EdgeApps : domainOf[r[1]] = r[2]} /\ draft' = <<>> /\ domainOf' = domainOf
          /\ domainOf \in [Hosts -> DomainRow]
      BY <1>0, <1>1 DEF LoadDomainEntries, edgeRows, EdgeTypeOK
    <3>2. \A h \in Hosts, a \in EdgeApps : <<h, a>> \in lookups' <=> domainOf[h] = a
      BY <3>1
    <3> QED
      BY <3>1, <3>2 DEF DraftIsTrue, Owes, DomainRow
  <2> QED
    BY <1>0, <1>1, <2>2, <2>3 DEF EdgeInv, LoadDomainEntries
<1>2. CASE ConvergeSkipped
  <2>1. EdgeTypeOK'
    <3>1. /\ draft' = <<>> /\ missed' = TRUE /\ phase' = "idle" /\ waitingLoads' \in Nat /\ edgeFaults' \in 0..MaxEdgeFaults
          /\ UNCHANGED <<edgeRows, lookups, loaded, changes>>
      BY <1>0, <1>2, EdgeAssumption DEF ConvergeSkipped, Fault, EdgeTypeOK
    <3>2. draft' \in Seq(RouteEntry)
      BY <3>1, EmptySeq
    <3> QED
      BY <1>0, <3>1, <3>2 DEF EdgeTypeOK, MutexPhase, edgeRows
  <2> QED
    BY <1>2, <2>1 DEF EdgeInv, ConvergeSkipped
<1>3. CASE EdgeRestart
  <2>1. EdgeTypeOK'
    <3>1. edgeFaults' \in 0..MaxEdgeFaults /\ draft' \in Seq(RouteEntry)
      BY <1>0, <1>3, EdgeAssumption, EmptySeq DEF EdgeRestart, Fault, EdgeTypeOK
    <3> QED
      BY <1>0, <1>3, <3>1 DEF EdgeRestart, EdgeTypeOK, MutexPhase
  <2> QED
    BY <1>3, <2>1, ChangesAreToCome DEF EdgeRestart
<1>4. CASE UNCHANGED edgeVars
  <2>1. EdgeTypeOK' = EdgeTypeOK /\ DraftIsTrue' = DraftIsTrue
    BY <1>4 DEF edgeVars, edgeRows, EdgeTypeOK, DraftIsTrue, Owes
  <2>2. \A h \in Hosts : Deserved(h)' = Deserved(h)
    BY <1>4 DEF edgeVars, edgeRows, Deserved
  <2> QED
    BY <1>4, <2>1, <2>2 DEF edgeVars, edgeRows, EdgeInv
<1> QED
  BY <1>1, <1>2, <1>3, <1>4, RowChanges, LookUpsAreTrue, PreviewsComeLast, ConvergesLoad DEF EdgeNext

\* The first route of a host is one.
LEMMA FirstServes ==
  ASSUME EdgeTypeOK, NEW h \in Hosts, NEW S, GoodFor(loaded, h, S) PROVE Served(h) \in S
<1>1. loaded \in Seq(RouteEntry) /\ DOMAIN loaded = 1..Len(loaded) /\ Len(loaded) \in Nat
  BY LenProperties DEF EdgeTypeOK
<1>2. CASE \A i \in DOMAIN loaded : loaded[i].host # h
  BY <1>2 DEF GoodFor, Served
<1>3. CASE ~ \A i \in DOMAIN loaded : loaded[i].host # h
  <2> DEFINE of == {i \in 1..Len(loaded) : loaded[i].host = h}
             First(i) == loaded[i].host = h /\ \A j \in 1..i - 1 : loaded[j].host # h
  <2>1. PICK i \in DOMAIN loaded : loaded[i].host = h /\ \A j \in 1..i : loaded[j].host = h => loaded[j].up \in S
    BY <1>3 DEF GoodFor
  <2>0. of \in SUBSET Nat /\ of # {}
    BY <1>1, <1>3
  <2>2. PICK k \in of : \A j \in of : k <= j
    BY <2>0, LeastNumber
  <2>3. k \in DOMAIN loaded /\ First(k)
    BY <1>1, <2>2
  <2> DEFINE m == CHOOSE j \in DOMAIN loaded : First(j)
  <2>4. m \in DOMAIN loaded /\ First(m)
    BY <2>3
  <2>5. Served(h) = loaded[m].up
    BY <1>3 DEF Served
  <2> HIDE DEF m
  <2>6. m <= i
    BY <1>1, <2>1, <2>4
  <2> QED
    BY <1>1, <2>1, <2>4, <2>5, <2>6
<1> QED
  BY <1>2, <1>3

LEMMA EdgeShown == EdgeInv => EdgeServesTheRows /\ DashboardKeepsItsHost
<1> SUFFICES ASSUME EdgeInv PROVE EdgeServesTheRows /\ DashboardKeepsItsHost
  OBVIOUS
<1>1. EdgeServesTheRows
  BY FirstServes DEF EdgeInv, EdgeServesTheRows
<1>2. DashboardKeepsItsHost
  <2> SUFFICES ASSUME loaded # <<>> PROVE Served(CpHost) = ControlPlane
    BY DEF DashboardKeepsItsHost
  <2>1. loaded \in Seq(RouteEntry) /\ 1 \in DOMAIN loaded /\ loaded[1].host = CpHost /\ loaded[1].up = ControlPlane
    BY EmptySeq, LenProperties DEF EdgeInv, EdgeTypeOK, CpRoute, Route
  <2>2. GoodFor(loaded, CpHost, {ControlPlane})
    BY <2>1 DEF GoodFor
  <2> QED
    BY <2>2, FirstServes, EdgeAssumption DEF EdgeInv
<1> QED
  BY <1>1, <1>2

(***************************************************************************)
(* In the run's module: each component moves when it is in focus.          *)
(***************************************************************************)
LEMMA TenantsEdge ==
  /\ TenantsInit => EdgeInit
  /\ [TenantsNext]_tenantsVars => [EdgeNext]_edgeVars
BY DEF TenantsInit, TenantsNext, tenantsVars, otherVars, restVars, domainVars, edgeVars

LEMMA TenantsCards ==
  /\ TenantsInit => SettingsInit
  /\ [TenantsNext]_tenantsVars => [SettingsNext]_settingsVars
BY DEF TenantsInit, TenantsNext, tenantsVars, otherVars, restVars, uiVars, settingsVars

LEMMA TenantsAppPages ==
  /\ TenantsInit => AppPageInit
  /\ [TenantsNext]_tenantsVars => [AppPageNext]_appPageVars
BY DEF TenantsInit, TenantsNext, tenantsVars, otherVars, restVars, uiVars, appPageVars

LEMMA TenantsMail ==
  /\ TenantsInit => MailPageInit
  /\ [TenantsNext]_tenantsVars => [MailPageNext]_mailPageVars
BY DEF TenantsInit, TenantsNext, tenantsVars, otherVars, restVars, domainVars, mailPageVars

LEMMA TenantsMembers ==
  /\ TenantsInit => AccessInit /\ ChatInit
  /\ [TenantsNext]_tenantsVars => [AccessNext]_accessVars /\ [ChatNext]_chatVars
BY DEF TenantsInit, TenantsNext, tenantsVars, otherVars, restVars, accessVars, chatVars

LEMMA TenantsDatabases ==
  /\ TenantsInit => DatabasesInit /\ ReplicasInit
  /\ [TenantsNext]_tenantsVars => [DatabasesNext]_databasesVars /\ [ReplicasNext]_replicasVars
BY DEF TenantsInit, TenantsNext, tenantsVars, otherVars, restVars, databasesVars, replicasVars

LEMMA TenantsServices ==
  /\ TenantsInit => MailboxesInit /\ CatalogInit
  /\ [TenantsNext]_tenantsVars => [MailboxesNext]_mailboxVars /\ [CatalogNext]_catalogVars
BY DEF TenantsInit, TenantsNext, tenantsVars, otherVars, restVars, domainVars, mailboxVars, catalogVars

\* Whatever domains and previews come and go, and whichever syncs of the routes fail, a host
\* that the proxy serves leads to an upstream that a row gives it, and the dashboard keeps
\* its own host.
THEOREM EdgeServesRows == TenantsSpec => [](EdgeServesTheRows /\ DashboardKeepsItsHost)
BY EdgeStarts, EdgeHolds, EdgeShown, TenantsEdge, PTL DEF TenantsSpec

\* However many requests of a card of the settings overlap, get lost or are answered out of
\* order, a token that was shown opens the API until its key is revoked, and a card on which
\* nothing is under way lists the rows of the server.
THEOREM CardsAreTrue == TenantsSpec => []SettingsAreTrue
BY CardStarts, SettingsHolds, SettingsShown, TenantsCards, PTL DEF TenantsSpec

\* However many loads and writes of an application's page overlap, what the user did not touch
\* stays as it was unless a form was saved that had been read before another change; and the
\* domains and the webhook that a quiet page shows are those of the rows.
THEOREM AppPagesAreTrue == TenantsSpec => []AppPageIsTrue
BY AppPageStarts, AppPageHolds, AppPageShown, TenantsAppPages, PTL DEF TenantsSpec

\* However many requests of the mail page overlap, get lost or are answered out of order, and
\* whatever a sweep of the records finds meanwhile, a password that was handed over is on
\* display until it is dismissed or its card goes; a list on which nothing is under way, and
\* the records that an open panel shows, are those of the server.
THEOREM MailPagesAreTrue == TenantsSpec => []MailPageIsTrue
BY MailStarts, MailHolds, MailShown, TenantsMail, PTL DEF TenantsSpec

\* All of it together: whatever of an organization a row speaks of is there, or somebody has
\* asked for its removal; what was handed over works; and what the pages show is true.
THEOREM RowsStayReal == TenantsSpec => []RowsAreReal
<1>1. BackedInv /\ ReplicasInv /\ MailboxesInv /\ CatalogInv => RowBacked /\ StreamingIsReal /\ ShownPasswordWorks /\ RunningIsUp
  BY DEF BackedInv, ReplicasInv, MailboxesInv, CatalogInv
<1>2. TenantsSpec => [](BackedInv /\ ReplicasInv)
  BY BackedInit, BackedStep, ReplicasStart, ReplicasStep, TenantsDatabases, PTL DEF TenantsSpec
<1>3. TenantsSpec => [](MailboxesInv /\ CatalogInv)
  BY MailboxesStart, MailboxesStep, CatalogStarts, CatalogStep, TenantsServices, PTL DEF TenantsSpec
<1>4. /\ RowBacked /\ StreamingIsReal /\ ShownPasswordWorks /\ RunningIsUp
      /\ EdgeServesTheRows /\ DashboardKeepsItsHost /\ SettingsAreTrue /\ AppPageIsTrue /\ MailPageIsTrue
      => RowsAreReal
  BY DEF RowsAreReal
<1> QED
  BY <1>1, <1>2, <1>3, <1>4, EdgeServesRows, CardsAreTrue, AppPagesAreTrue, MailPagesAreTrue, PTL

(***************************************************************************)
(* The types of the whole run.                                             *)
(***************************************************************************)
LEMMA OwnedTyped ==
  AccessTyped /\ ChatInv /\ DatabasesTyped /\ ReplicasInv /\ MailboxesInv /\ CatalogInv =>
    AccessTypeOK /\ ChatTypeOK /\ DatabasesTypeOK /\ ReplicasTypeOK /\ MailboxesTypeOK /\ CatalogTypeOK
<1> SUFFICES ASSUME AccessTyped, ChatInv, DatabasesTyped, ReplicasInv, MailboxesInv, CatalogInv
             PROVE  AccessTypeOK /\ ChatTypeOK /\ DatabasesTypeOK /\ ReplicasTypeOK /\ MailboxesTypeOK /\ CatalogTypeOK
  OBVIOUS
<1>1. AccessTypeOK /\ ReplicasTypeOK /\ MailboxesTypeOK /\ CatalogTypeOK
  BY DEF AccessTyped, ReplicasInv, MailboxesInv, CatalogInv
<1>2. ChatTypeOK /\ DatabasesTypeOK
  BY ChatIsTyped, DatabasesAreTyped
<1> QED
  BY <1>1, <1>2

LEMMA PagesTyped ==
  EdgeInv /\ SettingsInv /\ AppInv /\ MailInv => EdgeTypeOK /\ SettingsTypeOK /\ AppPageTypeOK /\ MailPageTypeOK
BY DEF EdgeInv, SettingsInv, CardTyped, AppInv, TabsTyped, MailInv, MailTyped

\* In every component that an organization's rows are spread over, every variable keeps its type.
THEOREM TenantsTypeCorrect == TenantsSpec => []TenantsTypeOK
<1>1. TenantsSpec => [](AccessTyped /\ ChatInv)
  BY AccessTypedInit, AccessTypedStep, ChatInvInit, ChatInvStep, TenantsMembers, PTL DEF TenantsSpec
<1>2. TenantsSpec => [](DatabasesTyped /\ ReplicasInv)
  BY DatabasesTypedInit, DatabasesTypedStep, ReplicasStart, ReplicasStep, TenantsDatabases, PTL DEF TenantsSpec
<1>3. TenantsSpec => [](MailboxesInv /\ CatalogInv)
  BY MailboxesStart, MailboxesStep, CatalogStarts, CatalogStep, TenantsServices, PTL DEF TenantsSpec
<1>4. TenantsSpec => [](VcsInstallTypeOK /\ VcsTokensTypeOK)
  BY BoundIsOnce, SecretsAreKept, InstallStarts, TokensStart, InstallStep, TokensStep, TenantsVcs, PTL DEF TenantsSpec
<1>5. TenantsSpec => [](EdgeInv /\ SettingsInv)
  BY EdgeStarts, EdgeHolds, CardStarts, SettingsHolds, TenantsEdge, TenantsCards, PTL DEF TenantsSpec
<1>6. TenantsSpec => [](AppInv /\ MailInv)
  BY AppPageStarts, AppPageHolds, MailStarts, MailHolds, TenantsAppPages, TenantsMail, PTL DEF TenantsSpec
<1>7. TenantsSpec => [](AppConfigTypeOK /\ StudioTypeOK)
  BY ConfigStarts, ConfigHolds, ConfigShown, PoolStarts, PoolHolds, StudioStarts, StudioHolds, StudioShown, TenantsWrites, PTL
     DEF TenantsSpec
<1>8. TenantsSpec => [](StudioPageTypeOK /\ ChatWindowTypeOK)
  BY PageStarts, PageHolds, PageShown, WindowStarts, WindowHolds, WindowShown, TenantsWrites, PTL DEF TenantsSpec
<1>9. /\ AccessTypeOK /\ ChatTypeOK /\ DatabasesTypeOK /\ ReplicasTypeOK /\ MailboxesTypeOK /\ CatalogTypeOK
      /\ VcsInstallTypeOK /\ VcsTokensTypeOK /\ EdgeTypeOK /\ SettingsTypeOK /\ AppPageTypeOK /\ MailPageTypeOK
      /\ AppConfigTypeOK /\ StudioTypeOK /\ StudioPageTypeOK /\ ChatWindowTypeOK
      => TenantsTypeOK
  BY DEF TenantsTypeOK
<1> QED
  BY <1>1, <1>2, <1>3, <1>4, <1>5, <1>6, <1>7, <1>8, <1>9, OwnedTyped, PagesTyped, PTL
=============================================================================
