----------------------------- MODULE UpdatesCard -----------------------------
(***************************************************************************)
(* The updates card of the settings page, and as much of the service and     *)
(* the updater as it sees: what is offered, the settings, and the status     *)
(* file, which is polled across the restart of the control plane and still   *)
(* tells of the update before until the updater has started.  The updater    *)
(* itself is Updater.tla.                                                    *)
(***************************************************************************)
EXTENDS Naturals, FiniteSets

CONSTANTS
  LastVersion, \* bound: releases
  CardCalls,   \* bound: requests of the card under way
  CardSaves    \* bound: changes of the settings

ASSUME UpdatesCardAssumption == LastVersion \in Nat \ {0} /\ CardSaves \in Nat /\ CardCalls \subseteq Nat

CardVersions == 1..LastVersion
Patches  == [of : {"channel", "auto"}, to : BOOLEAN]

VARIABLES
  latestRelease, \* the manifest of the channel
  runs,        \* the release that runs, 0 while the control plane is down
  offer,       \* update_state: the release that is offered, 0 for none
  updSettings, \* update_settings: another channel than the default, auto-update
  statusFile,  \* update.status: its state and its TO
  wanted,      \* update.request is there
  updating,    \* the updater runs
  cardView,    \* what the card shows
  cardCalls,   \* its requests
  topic,       \* bound: a behaviour is about an update, or about the settings
  saves,       \* changes of the settings that were made
  spoken,      \* what the updater has written since applyUpdate accepted the last request
  unsure       \* changes of the settings overlapped, or the answer to one was lost

updatesCardVars == <<latestRelease, runs, offer, updSettings, statusFile, wanted, updating, cardView, cardCalls,
                     topic, saves, spoken, unsure>>

\* A poll is early when it is answered before the updater has written anything.
NoCardCall == [kind |-> "none", at |-> "sent", live |-> FALSE, ok |-> FALSE, early |-> FALSE, offer |-> 0,
               state |-> "idle", saw |-> [channel |-> FALSE, auto |-> FALSE], of |-> "auto", to |-> FALSE]
FreshCard == [offer |-> 0, read |-> FALSE, failed |-> FALSE, checking |-> FALSE, applying |-> FALSE,
              settings |-> [channel |-> FALSE, auto |-> FALSE], known |-> FALSE, told |-> "none", early |-> FALSE]
StatusStates == {"idle", "running", "done", "failed"}

\* The settings of update_state.
UpdSettings == [channel : BOOLEAN, auto : BOOLEAN]

UpdatesCardTypeOK ==
  /\ latestRelease \in CardVersions /\ runs \in 0..LastVersion /\ offer \in 0..LastVersion
  /\ updSettings \in UpdSettings
  /\ statusFile.state \in StatusStates /\ {wanted, updating, unsure} \subseteq BOOLEAN
  /\ cardView.offer \in 0..LastVersion /\ cardView.told \in {"none", "done", "failed"}
  /\ \A c \in CardCalls : cardCalls[c].kind \in {"none", "load", "settings", "check", "apply", "poll", "save"}
  /\ saves \in 0..CardSaves /\ spoken \subseteq StatusStates

UpdatesCardInit ==
  /\ latestRelease = 1 /\ runs = 1 /\ offer = 0 /\ updSettings = [channel |-> FALSE, auto |-> FALSE]
  /\ statusFile = [state |-> "idle", to |-> 0] /\ wanted = FALSE /\ updating = FALSE
  /\ cardView = FreshCard /\ cardCalls = [c \in CardCalls |-> NoCardCall] /\ saves = 0
  /\ spoken = {} /\ unsure = FALSE /\ topic \in {"update", "settings"}

planeSide == <<latestRelease, runs, offer, updSettings, statusFile, wanted, updating>>
cardGhosts == <<saves, spoken, unsure>>

FreeSlot(c)   == cardCalls[c] = NoCardCall /\ \A d \in CardCalls : d < c => cardCalls[d] # NoCardCall
Calling(kind) == {c \in CardCalls : cardCalls[c].kind = kind}
Place(c, kind) == cardCalls' = [cardCalls EXCEPT ![c] = [NoCardCall EXCEPT !.kind = kind, !.live = TRUE]]

(***************************************************************************)
(* The card.                                                                 *)
(***************************************************************************)

\* On mount and with Retry: the state, and then the settings.
LoadCard(c) ==
  /\ (~cardView.read \/ cardView.failed) /\ Calling("load") \cup Calling("settings") = {} /\ FreeSlot(c) /\ Place(c, "load")
  /\ UNCHANGED <<planeSide, cardView, cardGhosts>>

CheckClicked(c) ==
  /\ ~cardView.checking /\ ~cardView.applying /\ FreeSlot(c) /\ Place(c, "check")
  /\ cardView' = [cardView EXCEPT !.checking = TRUE] /\ UNCHANGED <<planeSide, cardGhosts>>

\* The card shows an error, a progress or an offer, the first that there is.
OfferShown == cardView.read /\ ~cardView.failed /\ ~cardView.applying /\ cardView.offer # 0

\* Update now, confirmed.  The button stays while the request is under way; bound: it is
\* pressed once at a time.
ApplyPressed(c) ==
  /\ OfferShown /\ Calling("apply") = {} /\ FreeSlot(c) /\ Place(c, "apply")
  /\ cardView' = [cardView EXCEPT !.told = "none"] /\ UNCHANGED <<planeSide, cardGhosts>>

\* Every two seconds, whether or not the last poll has been answered.
ProgressTick(c) ==
  /\ cardView.applying /\ cardView.told = "none" /\ FreeSlot(c) /\ Place(c, "poll")
  /\ UNCHANGED <<planeSide, cardView, cardGhosts>>

\* The channel or the switch; a change sends the one field.
SaveSettings(c) ==
  /\ cardView.read /\ ~cardView.failed /\ topic = "settings" /\ cardView.known /\ ~cardView.applying /\ saves < CardSaves /\ FreeSlot(c)
  /\ \E p \in Patches :
       /\ p.to # cardView.settings[p.of]
       /\ cardCalls' = [cardCalls EXCEPT ![c] = [NoCardCall EXCEPT !.kind = "save", !.live = TRUE,
                                                                   !.of = p.of, !.to = p.to]]
  /\ saves' = saves + 1 /\ unsure' = (unsure \/ Calling("save") \cup Calling("settings") # {})
  /\ UNCHANGED <<planeSide, cardView, spoken>>

(***************************************************************************)
(* The service.                                                              *)
(***************************************************************************)
AnswerCall(c, call) == cardCalls' = [cardCalls EXCEPT ![c] = [call EXCEPT !.at = "answered"]]
Sent(c, kind)     == cardCalls[c].kind = kind /\ cardCalls[c].at = "sent"

\* While the control plane is down, and now and then, a request fails.
ServeNothing(c) ==
  /\ cardCalls[c].kind # "none" /\ cardCalls[c].at \in {"sent", "read"} /\ AnswerCall(c, cardCalls[c])
  /\ UNCHANGED <<planeSide, cardView, cardGhosts>>

\* GET /system/updates.
ServeState(c) ==
  /\ runs # 0 /\ Sent(c, "load") /\ AnswerCall(c, [cardCalls[c] EXCEPT !.ok = TRUE, !.offer = offer])
  /\ UNCHANGED <<planeSide, cardView, cardGhosts>>

\* GET /system/updates/settings.
ServeSettings(c) ==
  /\ runs # 0 /\ Sent(c, "settings") /\ AnswerCall(c, [cardCalls[c] EXCEPT !.ok = TRUE, !.saw = updSettings])
  /\ UNCHANGED <<planeSide, cardView, cardGhosts>>

\* What the manifest has is newer when it differs.
NewRelease == IF latestRelease # runs THEN latestRelease ELSE 0

\* checkForUpdate, asked for by the card.
ServeCheck(c) ==
  /\ runs # 0 /\ Sent(c, "check") /\ offer' = NewRelease
  /\ AnswerCall(c, [cardCalls[c] EXCEPT !.ok = TRUE, !.offer = NewRelease])
  /\ UNCHANGED <<latestRelease, runs, updSettings, statusFile, wanted, updating, cardView, cardGhosts>>

\* checkForUpdate by cron and at boot; auto-update is left to Updater.tla.
CheckByItself ==
  /\ runs # 0 /\ offer # NewRelease /\ offer' = NewRelease
  /\ UNCHANGED <<latestRelease, runs, updSettings, statusFile, wanted, updating, cardView, cardCalls, cardGhosts>>

\* applyUpdate: 409 when there is nothing newer; its answer may get lost.
ServeApply(c) ==
  /\ runs # 0 /\ Sent(c, "apply")
  /\ \E told \in BOOLEAN : AnswerCall(c, [cardCalls[c] EXCEPT !.ok = (told /\ NewRelease # 0)])
  /\ wanted' = (wanted \/ NewRelease # 0) /\ spoken' = IF NewRelease # 0 THEN {} ELSE spoken
  /\ UNCHANGED <<latestRelease, runs, offer, updSettings, statusFile, updating, cardView, saves, unsure>>

\* getUpdateProgress.
ServeProgress(c) ==
  /\ runs # 0 /\ Sent(c, "poll")
  /\ AnswerCall(c, [cardCalls[c] EXCEPT !.ok = TRUE, !.state = statusFile.state, !.early = (spoken = {})])
  /\ UNCHANGED <<planeSide, cardView, cardGhosts>>

\* setUpdateSettings reads the row ...
ReadSettings(c) ==
  /\ runs # 0 /\ Sent(c, "save")
  /\ cardCalls' = [cardCalls EXCEPT ![c].at = "read", ![c].saw = updSettings]
  /\ UNCHANGED <<planeSide, cardView, cardGhosts>>

\* ... and writes all of it; the answer may get lost.
WriteSettings(c) ==
  LET next == [cardCalls[c].saw EXCEPT ![cardCalls[c].of] = cardCalls[c].to] IN
  /\ runs # 0 /\ cardCalls[c].kind = "save" /\ cardCalls[c].at = "read"
  /\ updSettings' = next
  /\ \E told \in BOOLEAN : /\ AnswerCall(c, [cardCalls[c] EXCEPT !.ok = told, !.saw = next])
                           /\ unsure' = (unsure \/ ~told)
  /\ UNCHANGED <<latestRelease, runs, offer, statusFile, wanted, updating, cardView, saves, spoken>>

(***************************************************************************)
(* Outside: releases, and the updater.                                       *)
(***************************************************************************)
PublishLatest ==
  /\ topic = "update" /\ latestRelease < LastVersion /\ latestRelease' = latestRelease + 1
  /\ UNCHANGED <<runs, offer, updSettings, statusFile, wanted, updating, cardView, cardCalls, cardGhosts>>

SetStatus(state) == statusFile' = [state |-> state, to |-> latestRelease] /\ spoken' = spoken \cup {state}

\* Consumes the request; the status is that of the update before until it writes its own.
UpdaterStarts ==
  /\ wanted /\ ~updating /\ wanted' = FALSE /\ updating' = TRUE
  /\ UNCHANGED <<latestRelease, runs, offer, updSettings, statusFile, cardView, cardCalls, cardGhosts>>

UpdaterWrites ==
  /\ updating /\ statusFile.state # "running" /\ SetStatus("running")
  /\ UNCHANGED <<latestRelease, runs, offer, updSettings, wanted, updating, cardView, cardCalls, saves, unsure>>

UpdaterStops ==
  /\ updating /\ statusFile.state = "running" /\ runs # 0 /\ runs' = 0
  /\ UNCHANGED <<latestRelease, offer, updSettings, statusFile, wanted, updating, cardView, cardCalls, cardGhosts>>

\* The new release is up and ready, or the old one is back.  It ends without a restart when
\* there is nothing to do, or when the release cannot be had.
UpdaterEnds ==
  /\ updating /\ statusFile.state = "running" /\ updating' = FALSE
  /\ \/ runs = 0 /\ runs' = statusFile.to /\ SetStatus("done")
     \/ runs = 0 /\ \E v \in CardVersions : v # statusFile.to /\ runs' = v /\ SetStatus("failed")
     \/ runs # 0 /\ UNCHANGED runs /\ SetStatus(IF runs = statusFile.to THEN "done" ELSE "failed")
  /\ UNCHANGED <<latestRelease, offer, updSettings, wanted, cardView, cardCalls, saves, unsure>>

(***************************************************************************)
(* The answers.                                                              *)
(***************************************************************************)
CameBack(c, kind) == cardCalls[c].kind = kind /\ cardCalls[c].at = "answered"
FreeCall(c)      == cardCalls' = [cardCalls EXCEPT ![c] = NoCardCall]

\* Whatever became of the state, the settings are read next.
StateLoaded(c) ==
  LET a == cardCalls[c] IN
  /\ CameBack(c, "load") /\ Place(c, "settings")
  /\ cardView' = IF a.ok THEN [cardView EXCEPT !.offer = a.offer, !.read = TRUE, !.failed = FALSE]
             ELSE [cardView EXCEPT !.failed = TRUE]
  /\ UNCHANGED <<planeSide, cardGhosts>>

SettingsLoaded(c) ==
  /\ \E kind \in {"settings", "save"} : CameBack(c, kind)
  /\ FreeCall(c)
  /\ cardView' = IF cardCalls[c].ok THEN [cardView EXCEPT !.settings = cardCalls[c].saw, !.known = TRUE] ELSE cardView
  /\ UNCHANGED <<planeSide, cardGhosts>>

Checked(c) ==
  /\ CameBack(c, "check") /\ FreeCall(c)
  /\ cardView' = [cardView EXCEPT !.checking = FALSE, !.offer = IF cardCalls[c].ok THEN cardCalls[c].offer ELSE @,
                          !.read = @ \/ cardCalls[c].ok]
  /\ UNCHANGED <<planeSide, cardGhosts>>

\* The card polls from here on; what it still hears of earlier polls does not count (stop).
ApplyAccepted(c) ==
  /\ CameBack(c, "apply")
  /\ cardCalls' = [d \in CardCalls |->
       IF d = c THEN NoCardCall
       ELSE IF cardCalls[d].kind = "poll" /\ cardCalls[c].ok /\ ~cardView.applying THEN [cardCalls[d] EXCEPT !.live = FALSE]
       ELSE cardCalls[d]]
  /\ cardView' = IF cardCalls[c].ok THEN [cardView EXCEPT !.applying = TRUE, !.told = "none"] ELSE cardView
  /\ UNCHANGED <<planeSide, cardGhosts>>

\* Failures are the control plane's restart.  The first final state ends the polling:
\* a failure frees the card, success reloads the page.
Progressed(c) ==
  LET a == cardCalls[c]  heard == a.ok /\ a.live /\ cardView.applying /\ cardView.told = "none" IN
  /\ CameBack(c, "poll") /\ FreeCall(c)
  /\ cardView' = CASE ~heard -> cardView
               [] heard /\ a.state = "done"   -> [cardView EXCEPT !.told = "done", !.early = a.early]
               [] heard /\ a.state = "failed" -> [cardView EXCEPT !.told = "failed", !.early = a.early, !.applying = FALSE]
               [] OTHER -> cardView
  /\ UNCHANGED <<planeSide, cardGhosts>>

\* window.location.reload, and the user who leaves and comes back.
PageReloads ==
  /\ cardView.told = "done" /\ cardView' = FreshCard /\ cardCalls' = [c \in CardCalls |-> NoCardCall]
  /\ UNCHANGED <<planeSide, saves, spoken>> /\ unsure' = (unsure \/ Calling("save") # {})

UpdatesCardNext ==
  /\ UNCHANGED topic
  /\ \/ \E c \in CardCalls :
          \/ LoadCard(c) \/ CheckClicked(c) \/ ApplyPressed(c) \/ ProgressTick(c) \/ SaveSettings(c)
          \/ ServeNothing(c) \/ ServeState(c) \/ ServeSettings(c) \/ ServeCheck(c) \/ ServeApply(c)
          \/ ServeProgress(c) \/ ReadSettings(c) \/ WriteSettings(c)
          \/ StateLoaded(c) \/ SettingsLoaded(c) \/ Checked(c) \/ ApplyAccepted(c) \/ Progressed(c)
     \/ CheckByItself \/ PublishLatest \/ UpdaterStarts \/ UpdaterWrites \/ UpdaterStops \/ UpdaterEnds \/ PageReloads

(***************************************************************************)
(* Properties.                                                               *)
(***************************************************************************)

\* The outcome the card announces is one the updater has written since the control plane
\* accepted this card's update, never that of the update before, which an earlier poll may
\* bring late (components/updates.tsx: stop, 117-142).  The exception: the file still has
\* the old outcome until the updater writes its first line, and a poll answered in between
\* announces that (update-check.service.ts: getUpdateProgress does not compare the target).
AnnouncesItsUpdate ==
  cardView.told # "none" /\ ~cardView.early => cardView.told \in spoken

\* Changes of the settings that did not overlap are all kept, and the card shows them once
\* nothing is under way (setUpdateSettings reads the row and writes all of it).
SettingsShown ==
  cardView.known /\ ~unsure /\ (\A c \in CardCalls : cardCalls[c].kind \notin {"load", "settings", "save"})
    => cardView.settings = updSettings

UpdatesCardIsTrue == AnnouncesItsUpdate /\ SettingsShown
=============================================================================
