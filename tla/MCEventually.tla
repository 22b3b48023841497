---------------------------- MODULE MCEventually ----------------------------
(***************************************************************************)
(* What a program waits for and gets, on small instances: the events of    *)
(* every channel and of the node are served, a friend is shown as it is,   *)
(* a flood of a member's frames is held off and no more than that, and the *)
(* plugin's service waits for nothing that does not come, nor a program    *)
(* for the end of a call, and the binding hands over all that it polls.    *)
(* Here they share no variable, so their steps commute: a behaviour is one *)
(* of one part, chosen at the start, with the others at rest.              *)
(***************************************************************************)
EXTENDS EventDelivery, FriendPresence, PluginService, RateLimiter, SharedFiles, Calls, NativeCalls, TLC

CONSTANTS alice, x1

VARIABLE part

(* Alice's one record is enough to keep a channel busy for ever.           *)
OneAuthorOf == x1 :> alice

(* Two channel records that only a mark tells apart, an event that writes  *)
(* no payload, and one that is a line of the log.                          *)
MCEmittable == {[is |-> "RoomLeft", mark |-> FALSE], [is |-> "ChannelRecord", mark |-> TRUE],
                [is |-> "ChannelRecord", mark |-> FALSE], [is |-> "CallEnded", mark |-> FALSE]}

EventuallyInit ==
    /\ part \in {"events", "presence", "plugin", "limiter", "sharing", "calls", "binding"}
    /\ Init /\ PresenceInit /\ PluginInit /\ LimiterInit /\ ShareInit /\ CallsInit /\ CallInit
    /\ part # "presence" => status = Invisible
    /\ part # "sharing" => sealed = {}

OthersRest ==
    /\ UNCHANGED part
    /\ part # "events" => UNCHANGED vars
    /\ part # "presence" => UNCHANGED presenceVars
    /\ part # "plugin" => UNCHANGED pluginVars
    /\ part # "limiter" => UNCHANGED limiterVars
    /\ part # "sharing" => UNCHANGED shareVars
    /\ part # "calls" => UNCHANGED signalVars
    /\ part # "binding" => UNCHANGED callVars

EventuallyNext ==
    /\ OthersRest
    /\ \/ part = "events" /\ Next
       \/ part = "presence" /\ PresenceNext
       \/ part = "plugin" /\ PluginNext
       \/ part = "limiter" /\ LimiterNext
       \/ part = "sharing" /\ ShareNext
       \/ part = "calls" /\ CallsNext
       \/ part = "binding" /\ CallNext

(* The fairness of FairSpec and of PresenceFairSpec, for the part that     *)
(* moves: one at rest owes nothing.                                        *)
EventuallyFairness ==
    /\ WF_vars(part = "events" /\ \E n \in 1..MaxPoll : PollBegin(n))
    /\ WF_vars(part = "events" /\ PollStep)
    /\ WF_presenceVars(part = "presence" /\ Announce)
    /\ WF_presenceVars(part = "presence" /\ Beat)
    /\ WF_presenceVars(part = "presence" /\ WatchSilence)
    /\ WF_presenceVars(part = "presence" /\ LinkUp)
    /\ \A s \in Statuses : WF_presenceVars(part = "presence" /\ HearFrame(s))

EventuallySpec ==
    /\ EventuallyInit
    /\ [][EventuallyNext]_<<part, vars, presenceVars, pluginVars, limiterVars, shareVars,
                          signalVars, callVars>>
    /\ EventuallyFairness

(* The variables of the part that moves keep their types.                  *)
EventuallyTypeOK ==
    /\ part = "events" => TypeOK
    /\ part = "presence" => PresenceTypeOK
    /\ part = "plugin" => PluginTypeOK
    /\ part = "limiter" => LimiterTypeOK
    /\ part = "sharing" => ShareTypeOK
    /\ part = "calls" => CallsTypeOK
    /\ part = "binding" => CallTypeOK

(* Neither side of the queue starves the other: every channel with events  *)
(* is served, and so are the events of the bounded channel.                *)
EventsServed == part = "events" => ChannelsServed /\ GeneralServed

(* Whatever a friend settles on, it is shown with that in the end, and if  *)
(* it has gone invisible, as offline.                                      *)
PresenceSettles == part = "presence" => InvisibleUnseen /\ StatusArrives
=============================================================================
