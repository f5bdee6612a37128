----------------------------- MODULE DeployPages -----------------------------
(***************************************************************************)
(* What the web pages show of an application's deployments.  The dashboard *)
(* follows each deployment that it started over a socket of its own, for   *)
(* ten minutes at most; the application's page follows the selected one    *)
(* and loads the list again at every frame.  A behaviour has one of the    *)
(* two pages open: they share nothing but the server.                      *)
(***************************************************************************)
EXTENDS Naturals, Sequences, FiniteSets

CONSTANTS
  MaxDeploys, \* bound: deployments in all, one of which is there at first
  MaxListed,  \* bound: the same, while the application's page is open
  MaxPicks,   \* bound: rows that the user picks in the list
  ListLoads   \* bound: loads of the list under way at a time

ASSUME DeployPagesAssumption == MaxDeploys \in Nat \ {0} /\ MaxListed \in 0..MaxDeploys /\ MaxPicks \in Nat

Deploys == 1..MaxDeploys
ActiveStatuses  == {"queued", "running"}
EndedStatuses   == {"finished", "cancelled"} \* finished: succeeded or failed

VARIABLES
  openPage,  \* "dashboard" or "detail", once it is open
  rowStatus, \* deployments.status, of each that was created
  created,  \* how many were, the newest last
  post,     \* the POST of the page: its answer
  socks,    \* its sockets, by deployment
  loads,    \* its loads of the latest deployment or of the list
  pill,     \* the dashboard: the deployment and the status it shows
  watched,  \* those it was given the id of
  list,     \* the application's page: the statuses in its list
  selected, \* and the selected deployment
  picks,    \* rows picked so far
  excused   \* something came about that the page cannot recover from

deployPagesVars == <<openPage, rowStatus, created, post, socks, loads, pill, watched, list, selected, picks, excused>>

NoSock == [at |-> "none", read |-> "none", frames |-> <<>>]
NoPost == [at |-> "none", id |-> 0]
NoLoad == [at |-> "none", saw |-> [d \in Deploys |-> "none"], then |-> 0]
Loads  == Deploys \cup {0} \* on the dashboard: the first, and one for each socket that closes

DeployPagesTypeOK ==
  /\ rowStatus \in [Deploys -> ActiveStatuses \cup EndedStatuses \cup {"none"}] /\ created \in 0..MaxDeploys
  /\ post.at \in {"none", "sent", "ok", "conflict", "failed"} /\ post.id \in Deploys \cup {0}
  /\ \A d \in Deploys : /\ socks[d].at \in {"none", "opening", "read", "live", "over"}
                        /\ Len(socks[d].frames) <= 4
  /\ pill.of \in Deploys \cup {0} /\ pill.status \in ActiveStatuses \cup EndedStatuses \cup {"none"}
  /\ list \in [Deploys -> ActiveStatuses \cup EndedStatuses \cup {"none"}] /\ selected \in Deploys \cup {0}
  /\ watched \subseteq Deploys /\ picks \in 0..MaxPicks /\ excused \in BOOLEAN

DeployPagesInit ==
  /\ openPage = "none" /\ created = 1
  /\ rowStatus = [d \in Deploys |-> IF d = 1 THEN "finished" ELSE "none"] /\ post = NoPost
  /\ socks = [d \in Deploys |-> NoSock]
  /\ loads = [l \in Loads |-> NoLoad]
  /\ pill = [of |-> 0, status |-> "none"] /\ watched = {} /\ list = [d \in Deploys |-> "none"]
  /\ selected = 0 /\ picks = 0 /\ excused = FALSE

server == <<rowStatus, created>>
shown  == <<pill, watched, list, selected, picks>>
OnDashboard == openPage = "dashboard"
OnDetail    == openPage = "detail"
Room        == created < IF OnDetail THEN MaxListed ELSE MaxDeploys

\* The page is opened and loads what it shows first.
OpenPage ==
  /\ openPage = "none" /\ openPage' \in {"dashboard", "detail"}
  /\ loads' = [loads EXCEPT ![0].at = "sent"]
  /\ UNCHANGED <<server, post, socks, shown, excused>>

(***************************************************************************)
(* The server.                                                             *)
(***************************************************************************)
PublishStatus(d, s) == [socks EXCEPT ![d].frames = IF socks[d].at = "live" THEN Append(@, s) ELSE @]

\* A frame that nobody is registered for is lost; the application's page has no other way.
Advance(d) ==
  /\ \E s \in CASE rowStatus[d] = "queued"  -> {"running", "cancelled"}
                [] rowStatus[d] = "running" -> EndedStatuses
                [] OTHER -> {} :
       rowStatus' = [rowStatus EXCEPT ![d] = s] /\ socks' = PublishStatus(d, s)
  /\ excused' = (excused \/ (OnDetail /\ socks[d].at = "read"))
  /\ UNCHANGED <<openPage, created, post, loads, shown>>

NothingActive == \A d \in 1..created : rowStatus[d] \in EndedStatuses
Create == created' = created + 1 /\ rowStatus' = [rowStatus EXCEPT ![created + 1] = "queued"]

\* A push, a schedule or another user.
CreatedElsewhere ==
  /\ openPage # "none" /\ Room /\ NothingActive /\ Create
  /\ UNCHANGED <<openPage, post, socks, loads, shown, excused>>

ServeDeploy ==
  /\ post.at = "sent" /\ UNCHANGED <<openPage, socks, loads, shown>>
  /\ \/ /\ NothingActive /\ Room /\ Create
        /\ \/ post' = [at |-> "ok", id |-> created + 1] /\ UNCHANGED excused
           \/ post' = [NoPost EXCEPT !.at = "failed"] /\ excused' = TRUE
     \/ ~NothingActive /\ post' = [NoPost EXCEPT !.at = "conflict"] /\ UNCHANGED <<server, excused>>

ServeLoad(l) ==
  /\ loads[l].at = "sent" /\ UNCHANGED <<openPage, server, post, socks, shown>>
  /\ \/ loads' = [loads EXCEPT ![l].at = "answered", ![l].saw = rowStatus] /\ UNCHANGED excused
     \/ loads' = [loads EXCEPT ![l].at = "failed"] /\ excused' = TRUE

\* subscribe: the status is read, and only then is the socket registered.
ServeSubscribe(d) ==
  /\ socks[d].at = "opening" /\ socks' = [socks EXCEPT ![d].at = "read", ![d].read = rowStatus[d]]
  /\ excused' = (excused \/ (OnDetail /\ rowStatus[d] = "cancelled"))
  /\ UNCHANGED <<openPage, server, post, loads, shown>>

\* An end that was read is told; a cancelled one is not.
Register(d) ==
  /\ socks[d].at = "read" /\ UNCHANGED <<openPage, server, post, loads, shown, excused>>
  /\ socks' = [socks EXCEPT ![d].at = "live", ![d].read = "none",
                            ![d].frames = IF socks[d].read = "finished"
                                          THEN Append(@, socks[d].read) ELSE @]

(***************************************************************************)
(* The dashboard.                                                          *)
(***************************************************************************)
Rank(s) == CASE s = "none" -> 0 [] s = "queued" -> 1 [] s = "running" -> 2 [] OTHER -> 3
Older(d, s) == d < pill.of \/ (d = pill.of /\ Rank(s) < Rank(pill.status))
Newest(saw) == IF \A d \in Deploys : saw[d] = "none" THEN 0
               ELSE CHOOSE d \in Deploys : saw[d] # "none" /\ \A e \in Deploys : e > d => saw[e] = "none"

ClickDeploy ==
  /\ OnDashboard /\ pill.status \notin ActiveStatuses /\ post.at = "none" /\ Room
  /\ pill' = [of |-> created + 1, status |-> "queued"] /\ post' = [NoPost EXCEPT !.at = "sent"]
  /\ UNCHANGED <<openPage, server, socks, loads, watched, list, selected, picks, excused>>

\* After a conflict the row says "running", of a deployment that nothing follows.
DeployAnswered ==
  /\ OnDashboard /\ post.at \notin {"none", "sent"} /\ post' = NoPost
  /\ IF post.at = "ok"
     THEN /\ socks' = [socks EXCEPT ![post.id].at = "opening"]
          /\ watched' = watched \cup {post.id} /\ UNCHANGED <<pill, excused>>
     ELSE /\ pill' = [pill EXCEPT !.status = IF post.at = "conflict" THEN "running" ELSE "finished"]
          /\ excused' = TRUE /\ UNCHANGED <<socks, watched>>
  /\ UNCHANGED <<openPage, server, loads, list, selected, picks>>

DashboardFrame(d) ==
  LET s == Head(socks[d].frames) IN
  /\ OnDashboard /\ socks[d].at = "live" /\ socks[d].frames # <<>>
  /\ pill' = [of |-> d, status |-> s] /\ excused' = (excused \/ d < pill.of)
  /\ socks' = [socks EXCEPT ![d] = IF s = "finished" THEN [NoSock EXCEPT !.at = "over"]
                                   ELSE [socks[d] EXCEPT !.frames = Tail(@)]]
  /\ UNCHANGED <<openPage, server, post, loads, watched, list, selected, picks>>

\* The ten minutes are over, or the connection is lost: the status is looked at once more.
DashboardClose(d) ==
  /\ OnDashboard /\ socks[d].at \in {"opening", "read", "live"}
  /\ socks' = [socks EXCEPT ![d] = [NoSock EXCEPT !.at = "over"]]
  /\ loads' = [loads EXCEPT ![d].at = "sent"] /\ excused' = (excused \/ rowStatus[d] \in ActiveStatuses)
  /\ UNCHANGED <<openPage, server, post, shown>>

DashboardLoaded(l) ==
  LET d == Newest(loads[l].saw) IN
  /\ OnDashboard /\ loads[l].at \in {"answered", "failed"} /\ loads' = [loads EXCEPT ![l] = NoLoad]
  /\ IF d = 0 THEN UNCHANGED <<pill, excused>>
     ELSE /\ pill' = [of |-> d, status |-> loads[l].saw[d]]
          /\ excused' = (excused \/ Older(d, loads[l].saw[d]))
  /\ UNCHANGED <<openPage, server, post, socks, watched, list, selected, picks>>

(***************************************************************************)
(* The application's page.                                                 *)
(***************************************************************************)
FreeLoads == {l \in Loads : l < ListLoads /\ loads[l].at = "none"}
LoadDeploys(then) ==
  /\ FreeLoads # {}
  /\ loads' = [loads EXCEPT ![CHOOSE l \in FreeLoads : \A k \in FreeLoads : l <= k] =
                                [NoLoad EXCEPT !.at = "sent", !.then = then]]

\* The effect of the selection: the other socket is closed, one for this is opened.
Follow(d) == [e \in Deploys |-> IF e = d THEN [NoSock EXCEPT !.at = "opening"] ELSE NoSock]

PressDeploy ==
  /\ OnDetail /\ post.at = "none" /\ Room
  /\ post' = [NoPost EXCEPT !.at = "sent"]
  /\ UNCHANGED <<openPage, server, socks, loads, shown, excused>>

\* The list is loaded first, and the new one selected then.
PressAnswered ==
  /\ OnDetail /\ post.at \notin {"none", "sent"} /\ post' = NoPost
  /\ IF post.at = "ok" THEN LoadDeploys(post.id) ELSE UNCHANGED loads
  /\ UNCHANGED <<openPage, server, socks, shown, excused>>

SelectRow(d) ==
  /\ OnDetail /\ list[d] # "none" /\ d # selected /\ selected' = d /\ socks' = Follow(d)
  /\ picks < MaxPicks /\ picks' = picks + 1
  /\ UNCHANGED <<openPage, server, post, loads, pill, watched, list, excused>>

DetailFrame(d) ==
  /\ OnDetail /\ socks[d].frames # <<>> /\ LoadDeploys(0)
  /\ socks' = [socks EXCEPT ![d].frames = Tail(@)]
  /\ UNCHANGED <<openPage, server, post, shown, excused>>

\* Nothing opens it again.
DetailDrop(d) ==
  /\ OnDetail /\ socks[d].at \in {"opening", "read", "live"}
  /\ socks' = [socks EXCEPT ![d] = [NoSock EXCEPT !.at = "over"]] /\ excused' = TRUE
  /\ UNCHANGED <<openPage, server, post, loads, shown>>

\* Two loads may come back in the other order; the last to come is what the page shows.
DetailLoaded(l) ==
  LET saw == loads[l].saw  good == loads[l].at = "answered" IN
  /\ OnDetail /\ loads[l].at \in {"answered", "failed"} /\ loads' = [loads EXCEPT ![l] = NoLoad]
  /\ list' = IF good THEN saw ELSE list
  /\ excused' = (excused \/ (good /\ \E d \in Deploys : Rank(saw[d]) < Rank(list[d])))
  /\ selected' = IF loads[l].then # 0 THEN loads[l].then
                 ELSE IF good /\ selected = 0 THEN Newest(saw) ELSE selected
  /\ socks' = IF selected' # selected THEN Follow(selected') ELSE socks
  /\ UNCHANGED <<openPage, server, post, pill, watched, picks>>

PagesStep ==
  \/ OpenPage \/ CreatedElsewhere \/ ServeDeploy
  \/ ClickDeploy \/ DeployAnswered \/ PressDeploy \/ PressAnswered
  \/ \E l \in Loads : ServeLoad(l) \/ DashboardLoaded(l) \/ DetailLoaded(l)
  \/ \E d \in Deploys :
       \/ Advance(d) \/ ServeSubscribe(d) \/ Register(d)
       \/ DashboardFrame(d) \/ DashboardClose(d)
       \/ SelectRow(d) \/ DetailFrame(d) \/ DetailDrop(d)

\* After what the page cannot recover from, nothing is said of it.
DeployPagesNext == ~excused /\ PagesStep

\* Deployments end, requests are answered, and the ten minutes of a socket pass.
DeployPagesFairness ==
  /\ WF_deployPagesVars(ServeDeploy) /\ WF_deployPagesVars(DeployAnswered) /\ WF_deployPagesVars(PressAnswered)
  /\ \A l \in Loads : WF_deployPagesVars(ServeLoad(l)) /\ WF_deployPagesVars(DashboardLoaded(l)) /\ WF_deployPagesVars(DetailLoaded(l))
  /\ \A d \in Deploys : /\ WF_deployPagesVars(Advance(d)) /\ WF_deployPagesVars(ServeSubscribe(d)) /\ WF_deployPagesVars(Register(d))
                        /\ WF_deployPagesVars(DashboardFrame(d)) /\ WF_deployPagesVars(DashboardClose(d)) /\ WF_deployPagesVars(DetailFrame(d))

DeployPagesSpec == DeployPagesInit /\ [][DeployPagesNext]_deployPagesVars /\ DeployPagesFairness

(***************************************************************************)
(* Properties.                                                             *)
(***************************************************************************)

\* dashboard.tsx:57-61: the row of a deployment started from the dashboard comes to show
\* how it ended and keeps showing it, also when a frame fell between the read of the
\* status and the registration.  Unless the socket closed before the deployment ended, an
\* answer was lost, or an older answer came after a newer one.
DashboardSettles ==
  <>[](OnDashboard /\ ~excused /\ created \in watched
         => pill = [of |-> created, status |-> rowStatus[created]])

\* app-detail.tsx:229-255: so does the list for the deployment that is selected, with no
\* frame missed and no connection lost.
DetailSettles ==
  <>[](OnDetail /\ ~excused /\ selected = created /\ created # 0 => list[created] = rowStatus[created])
=============================================================================
