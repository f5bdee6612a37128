------------------------------- MODULE Notify -------------------------------
(***************************************************************************)
(* Telling the outside: an event fans out to the outbound webhooks of the  *)
(* organization, and the outcome of a deployment to its notification       *)
(* channels too.  Each fan-out reads its targets once, then sends and logs *)
(* one after the other while targets are created and deleted.              *)
(***************************************************************************)
EXTENDS Naturals

CONSTANTS
  HookIds,      \* outbound_webhooks that may exist
  ChannelIds,   \* notification_channels that may exist
  MaxNotices     \* bound: events

ASSUME NotifyAssumption == HookIds \cap ChannelIds = {} /\ MaxNotices \in Nat

Targets == HookIds \cup ChannelIds
Events  == 1..MaxNotices
Kinds   == {"deploy.succeeded", "deploy.failed", "app.unhealthy"}
DeployKinds == Kinds \ {"app.unhealthy"}

VARIABLES
  hooks,        \* hook -> the events it subscribes to, {} if there is no such row
  channels,     \* the channel rows
  subs,         \* notification_subscriptions: <<channel, event>>
  creating,     \* channel -> subscriptions its createChannel has still to insert
  emitted,      \* the kinds of the events, in order
  fans,         \* <<event, table>> -> where its fan-out is
  sends,        \* the rows of the two delivery tables
  owed          \* <<target, event>>: those that the event's fan-out has read, until they are deleted

notifyVars == <<hooks, channels, subs, creating, emitted, fans, sends, owed>>

Tables == {"hooks", "channels"}
TargetsIn(t) == IF t = "hooks" THEN HookIds ELSE ChannelIds
NoFan  == [at |-> "idle", todo |-> {}, to |-> "none"]

NotifyTypeOK ==
  /\ hooks \in [HookIds -> SUBSET Kinds] /\ channels \subseteq ChannelIds
  /\ subs \subseteq channels \X DeployKinds
  /\ creating \in [ChannelIds -> SUBSET DeployKinds]
  /\ emitted \in [Events -> Kinds \cup {"none"}]
  /\ fans \in [Events \X Tables ->
                 [at : {"idle", "load", "next", "log", "done", "threw"}, todo : SUBSET Targets,
                  to : Targets \cup {"none"}]]
  /\ sends \subseteq Targets \X (0..MaxNotices) /\ owed \subseteq Targets \X Events

NotifyInit ==
  /\ hooks = [h \in HookIds |-> {}] /\ channels = {} /\ subs = {}
  /\ creating = [c \in ChannelIds |-> {}]
  /\ emitted = [e \in Events |-> "none"]
  /\ fans = [f \in Events \X Tables |-> NoFan] /\ sends = {} /\ owed = {}

Exists(t) == IF t \in HookIds THEN hooks[t] # {} ELSE t \in channels

(***************************************************************************)
(* Targets.                                                                *)
(***************************************************************************)
CreateOutboundWebhook(h) ==
  /\ hooks[h] = {}
  /\ \E k \in {Kinds, {"deploy.failed"}} : hooks' = [hooks EXCEPT ![h] = k]
  /\ UNCHANGED <<channels, subs, creating, emitted, fans, sends, owed>>

\* The delivery rows go with it.
DeleteOutboundWebhook(h) ==
  /\ hooks[h] # {} /\ hooks' = [hooks EXCEPT ![h] = {}]
  /\ sends' = {s \in sends : s[1] # h} /\ owed' = {o \in owed : o[1] # h}
  /\ UNCHANGED <<channels, subs, creating, emitted, fans>>

\* The row first ...
CreateChannel(c) ==
  /\ c \notin channels /\ creating[c] = {} /\ channels' = channels \cup {c}
  /\ \E k \in {DeployKinds, {"deploy.failed"}} : creating' = [creating EXCEPT ![c] = k]
  /\ UNCHANGED <<hooks, subs, emitted, fans, sends, owed>>

\* ... then its subscriptions one by one; without the row the insert throws.
SubscribeChannel(c) ==
  /\ creating[c] # {}
  /\ IF c \in channels
     THEN \E k \in creating[c] : /\ subs' = subs \cup {<<c, k>>}
                                 /\ creating' = [creating EXCEPT ![c] = @ \ {k}]
     ELSE creating' = [creating EXCEPT ![c] = {}] /\ UNCHANGED subs
  /\ UNCHANGED <<hooks, channels, emitted, fans, sends, owed>>

DeleteChannel(c) ==
  /\ c \in channels /\ channels' = channels \ {c}
  /\ subs' = {s \in subs : s[1] # c} /\ sends' = {s \in sends : s[1] # c}
  /\ owed' = {o \in owed : o[1] # c}
  /\ UNCHANGED <<hooks, creating, emitted, fans>>

(***************************************************************************)
(* Fan-outs.                                                               *)
(***************************************************************************)

\* A deployment ends, or a sweep finds an application without its container.
EmitEvent(e) ==
  /\ emitted[e] = "none" /\ \A d \in 1..e - 1 : emitted[d] # "none"
  /\ \E k \in Kinds :
       /\ emitted' = [emitted EXCEPT ![e] = k]
       /\ fans' = [f \in DOMAIN fans |->
            IF f[1] = e /\ (f[2] = "hooks" \/ k \in DeployKinds)
            THEN [fans[f] EXCEPT !.at = "load"] ELSE fans[f]]
  /\ UNCHANGED <<hooks, channels, subs, creating, sends, owed>>

MatchesEvent(k) == {h \in HookIds : k \in hooks[h]}
Subscribed(k)   == {c \in channels : <<c, k>> \in subs}

\* A deployment that was deleted with its application has nothing to tell.
LoadTargets(e, t) ==
  /\ fans[<<e, t>>].at = "load"
  /\ LET to == IF t = "hooks" THEN MatchesEvent(emitted[e]) ELSE Subscribed(emitted[e])
     IN /\ fans' = [fans EXCEPT ![<<e, t>>].at = "next", ![<<e, t>>].todo = to]
        /\ owed' = owed \cup {<<x, e>> : x \in to}
  /\ UNCHANGED <<hooks, channels, subs, creating, emitted, sends>>

DeploymentGone(e, t) ==
  /\ fans[<<e, t>>].at = "load" /\ emitted[e] \in DeployKinds
  /\ fans' = [fans EXCEPT ![<<e, t>>].at = "done"]
  /\ UNCHANGED <<hooks, channels, subs, creating, emitted, sends, owed>>

\* The endpoint answers or does not, within ten seconds; what it does is caught, and
\* the row that is logged says which.
SendOne(e, t) ==
  /\ fans[<<e, t>>].at = "next" /\ fans[<<e, t>>].todo # {}
  /\ \E to \in fans[<<e, t>>].todo :
       fans' = [fans EXCEPT ![<<e, t>>] = [at |-> "log", todo |-> @.todo \ {to}, to |-> to]]
  /\ UNCHANGED <<hooks, channels, subs, creating, emitted, sends, owed>>

FanEnds(e, t) ==
  /\ fans[<<e, t>>].at = "next" /\ fans[<<e, t>>].todo = {}
  /\ fans' = [fans EXCEPT ![<<e, t>>].at = "done"]
  /\ UNCHANGED <<hooks, channels, subs, creating, emitted, sends, owed>>

Logged(e, t) ==
  /\ fans[<<e, t>>].at = "log" /\ Exists(fans[<<e, t>>].to)
  /\ sends' = sends \cup {<<fans[<<e, t>>].to, e>>}
  /\ fans' = [fans EXCEPT ![<<e, t>>].at = "next"]

NotLogged(e, t, then) ==
  /\ fans[<<e, t>>].at = "log" /\ ~Exists(fans[<<e, t>>].to)
  /\ fans' = [fans EXCEPT ![<<e, t>>].at = then] /\ UNCHANGED sends

\* Faulty: a webhook whose row cannot be logged ends the loop.
LogHookOrStop(e) ==
  /\ Logged(e, "hooks") \/ NotLogged(e, "hooks", "done")
  /\ UNCHANGED <<hooks, channels, subs, creating, emitted, owed>>

\* dispatchOutbound swallows what the insert throws.
LogHook(e) ==
  /\ Logged(e, "hooks") \/ NotLogged(e, "hooks", "next")
  /\ UNCHANGED <<hooks, channels, subs, creating, emitted, owed>>

\* deliver does not: the caller of notifyDeploymentOutcome catches it.
LogChannel(e) ==
  /\ Logged(e, "channels") \/ NotLogged(e, "channels", "threw")
  /\ UNCHANGED <<hooks, channels, subs, creating, emitted, owed>>

\* A made-up event (0), sent and logged while the operator waits.
TestChannel(c) ==
  /\ c \in channels /\ sends' = sends \cup {<<c, 0>>}
  /\ UNCHANGED <<hooks, channels, subs, creating, emitted, fans, owed>>

\* The process dies and its fan-outs with it; half-made channels stay.
NotifyRestart ==
  /\ fans' = [f \in DOMAIN fans |-> IF fans[f].at \in {"done", "threw"} THEN fans[f] ELSE NoFan]
  /\ creating' = [c \in ChannelIds |-> {}]
  /\ owed' = {o \in owed : \E t \in Tables : o[1] \in TargetsIn(t) /\ fans[<<o[2], t>>].at = "done"}
  /\ UNCHANGED <<hooks, channels, subs, emitted, sends>>

FanStep(e, t) == LoadTargets(e, t) \/ SendOne(e, t) \/ FanEnds(e, t)

NotifyNext ==
  \/ \E h \in HookIds : CreateOutboundWebhook(h) \/ DeleteOutboundWebhook(h)
  \/ \E c \in ChannelIds : CreateChannel(c) \/ SubscribeChannel(c) \/ DeleteChannel(c) \/ TestChannel(c)
  \/ \E e \in Events : \/ EmitEvent(e) \/ LogHook(e) \/ LogChannel(e)
                       \/ \E t \in Tables : FanStep(e, t) \/ DeploymentGone(e, t)
  \/ NotifyRestart

NotifySpec == NotifyInit /\ [][NotifyNext]_notifyVars

(***************************************************************************)
(* Properties.                                                             *)
(***************************************************************************)

\* Nobody is left out: when a fan-out is over, each target that it read has the row of the
\* event, sent or failed, unless it has been deleted since, whatever else was deleted and
\* created meanwhile (outbound-webhooks.service.ts:157-158).  The fan-out to the webhooks is
\* not cut short by any of them; the one to the channels is by a channel that is deleted
\* before its delivery is logged, against notifications.service.ts:240.
NobodyIsLeftOut ==
  \A e \in Events, t \in Tables :
    /\ fans[<<e, t>>].at = "done" => \A x \in TargetsIn(t) : <<x, e>> \in owed => <<x, e>> \in sends
    /\ t = "hooks" => fans[<<e, t>>].at # "threw"
=============================================================================
