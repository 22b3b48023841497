---------------------------- MODULE PluginService ----------------------------
(***************************************************************************)
(* The plugin's service (LanternService.cs) and the native nodes it opens  *)
(* and closes through the C# binding (LanternNode.cs, lt_node_open and     *)
(* lt_node_close in lantern-ffi), with the name-card operation that waits  *)
(* for a job of the node (NostrOperation.cs, nostr_job in node/nostr.rs).  *)
(*                                                                         *)
(* The game runs everything of the plugin on its framework thread, except  *)
(* the background tasks, which block: they open and close nodes, call the  *)
(* node for name cards and delete the shared-file cache.  They answer      *)
(* through a queue that every frame drains, and a generation number tells  *)
(* the service an answer of an earlier session from one of this session.   *)
(* A node is named after the generation that started to open it.           *)
(***************************************************************************)
EXTENDS Integers, Sequences

CONSTANTS
    MaxGeneration,  \* bound on the starts, stops and the unload of one run
    Jobs            \* handles a node gives to its name-card jobs

ASSUME PluginBoundsAssumption == MaxGeneration \in Nat \ {0}

Generations == 1..MaxGeneration
NoNode == 0
NoWork == 0

ASSUME JobsAssumption == Jobs \subseteq Nat \ {NoWork}

VARIABLES
    service,     \* LanternService.State
    generation,
    node,        \* the node the service uses, NoNode when there is none
    nodes,      \* what became of the node of a generation
    background,  \* the tasks that have not ended, each with the step it is at
    gate,        \* the task that holds nostrWorkGate, if any
    onFramework, \* actions queued for the framework thread
    operation,   \* nostrOperation
    work,         \* what became of a job of a node
    cacheBusy,   \* SharedCacheBusy
    unload,      \* "live", or how far Dispose is
    overtaken    \* history: a start was allowed although the service had a node

pluginVars == <<service, generation, node, nodes, background, gate, onFramework,
                operation, work, cacheBusy, unload, overtaken>>

Idle == [preparing |-> FALSE, work |-> NoWork, early |-> {}]
NameCardBusy == operation.preparing \/ operation.work # NoWork

(* A task: what it does, the generation it was made in, the node it is for, *)
(* and for a name-card task the job the node answered with.                *)
Task == [kind : {"open", "close", "stop", "prepare", "clear"}, gen : 0..MaxGeneration,
         node : 0..MaxGeneration, at : {"opening", "check", "wait", "in", "called", "out"},
         work : Jobs \cup {NoWork}]
NewTask(kind, gen, n, at) == [kind |-> kind, gen |-> gen, node |-> n, at |-> at, work |-> NoWork]

Answer == [does : {"Opened", "Fail", "Stopped", "NamePrepared", "CacheCleared"}, gen : 0..MaxGeneration,
           node : 0..MaxGeneration, work : Jobs \cup {NoWork}]
Answers(does, t) == onFramework' =
    Append(onFramework, [does |-> does, gen |-> t.gen, node |-> t.node, work |-> t.work])

PluginInit ==
    /\ service = "Off" /\ generation = 0 /\ node = NoNode
    /\ nodes = [g \in Generations |-> "none"]
    /\ background = {} /\ gate = {} /\ onFramework = <<>>
    /\ operation = Idle
    /\ work = [g \in Generations |-> [h \in Jobs |-> "none"]]
    /\ cacheBusy = FALSE /\ unload = "live" /\ overtaken = FALSE

-----------------------------------------------------------------------------
(* The framework thread                                                    *)

Framework == unload = "live"

Start ==
    /\ Framework /\ ~cacheBusy
    /\ service \notin {"Starting", "On", "Stopping"}
    /\ generation < MaxGeneration
    /\ service' = "Starting"
    /\ generation' = generation + 1
    /\ background' = background \cup {NewTask("open", generation + 1, generation + 1, "opening")}
    /\ overtaken' = (overtaken \/ node # NoNode)
    /\ UNCHANGED <<node, nodes, gate, onFramework, operation, work, cacheBusy, unload>>

(* Stop cancels, forgets what the session had, and closes the node on a    *)
(* task.  Without a node it is off at once, whatever is still opening.     *)
Stop ==
    /\ Framework /\ generation < MaxGeneration
    /\ generation' = generation + 1
    /\ node' = NoNode
    /\ operation' = Idle
    /\ IF node = NoNode
       THEN service' = "Off" /\ UNCHANGED background
       ELSE /\ service' = "Stopping"
            /\ background' = background \cup {NewTask("stop", generation + 1, node, "wait")}
    /\ UNCHANGED <<nodes, gate, onFramework, work, cacheBusy, unload, overtaken>>

PrepareNostr ==
    /\ Framework /\ node # NoNode /\ ~NameCardBusy
    /\ operation' = [Idle EXCEPT !.preparing = TRUE]
    /\ background' = background \cup {NewTask("prepare", generation, node, "wait")}
    /\ UNCHANGED <<service, generation, node, nodes, gate, onFramework, work,
                   cacheBusy, unload, overtaken>>

(* A mutant does not look at the queue, where an opened node may wait.     *)
CanClearUnheard == service = "Off" /\ node = NoNode /\ ~cacheBusy /\ background = {}

CanClearSharedCache ==
    /\ service = "Off" /\ node = NoNode /\ ~cacheBusy
    /\ onFramework = <<>> /\ background = {}

ClearSharedFileCache ==
    /\ Framework /\ CanClearSharedCache
    /\ cacheBusy' = TRUE
    /\ background' = background \cup {NewTask("clear", generation, NoNode, "wait")}
    /\ UNCHANGED <<service, generation, node, nodes, gate, onFramework, operation, work,
                   unload, overtaken>>

-----------------------------------------------------------------------------
(* One queued action, run by OnUpdate                                      *)

Delivered(does) == Framework /\ onFramework # <<>> /\ Head(onFramework).does = does
Taken == onFramework' = Tail(onFramework)

Opened ==
    /\ Delivered("Opened") /\ Taken
    /\ LET g == Head(onFramework).gen
       IN IF g # generation \/ service # "Starting"
          THEN /\ background' = background \cup {NewTask("close", g, g, "wait")}
               /\ UNCHANGED <<node, service>>
          ELSE node' = g /\ service' = "On" /\ UNCHANGED background
    /\ UNCHANGED <<generation, nodes, gate, operation, work, cacheBusy, unload, overtaken>>

Fail ==
    /\ Delivered("Fail") /\ Taken
    /\ service' = "Failed"
    /\ UNCHANGED <<generation, node, nodes, background, gate, operation, work, cacheBusy,
                   unload, overtaken>>

Stopped ==
    /\ Delivered("Stopped") /\ Taken
    /\ service' = IF service = "Stopping" THEN "Off" ELSE service
    /\ UNCHANGED <<generation, node, nodes, background, gate, operation, work, cacheBusy,
                   unload, overtaken>>

(* A job may have completed before its handle gets here.                   *)
NamePrepared ==
    /\ Delivered("NamePrepared") /\ Taken
    /\ LET a == Head(onFramework)
       IN IF a.gen # generation \/ node # a.node \/ ~operation.preparing
          THEN UNCHANGED operation
          ELSE operation' = [Idle EXCEPT !.work = IF a.work \in operation.early THEN NoWork ELSE a.work]
    /\ UNCHANGED <<service, generation, node, nodes, background, gate, work, cacheBusy,
                   unload, overtaken>>

CacheCleared ==
    /\ Delivered("CacheCleared") /\ Taken
    /\ cacheBusy' = FALSE
    /\ UNCHANGED <<service, generation, node, nodes, background, gate, operation, work,
                   unload, overtaken>>

(* The mutant forgets a result that comes before the handle.               *)
CompletedLate(h) ==
    operation' = IF operation.work = h THEN [operation EXCEPT !.work = NoWork] ELSE operation

(* NostrOperation.Completed                                                *)
Completed(h) ==
    operation' = IF operation.work = h THEN [operation EXCEPT !.work = NoWork]
                 ELSE IF operation.preparing
                      THEN [operation EXCEPT !.early = @ \cup {h}] ELSE operation

(* OnUpdate polls the node and handles the event of a finished job.        *)
PollDone(h) ==
    /\ Framework /\ node # NoNode /\ work[node][h] = "done"
    /\ work' = [work EXCEPT ![node][h] = "polled"]
    /\ Completed(h)
    /\ UNCHANGED <<service, generation, node, nodes, background, gate, onFramework,
                   cacheBusy, unload, overtaken>>

-----------------------------------------------------------------------------
(* The background tasks                                                    *)

MovesTo(t, at) == background' = (background \ {t}) \cup {[t EXCEPT !.at = at]}
Ends(t) == background' = background \ {t}

(* lt_node_open: a node holds the files of its cache directory for itself, *)
(* so a second one cannot open while another is open.                      *)
OpenSucceeds(t) ==
    /\ t.at = "opening"
    /\ \A g \in Generations : nodes[g] \notin {"open", "closing"}
    /\ nodes' = [nodes EXCEPT ![t.node] = "open"]
    /\ MovesTo(t, "check")
    /\ UNCHANGED <<service, generation, node, gate, onFramework, operation, work, cacheBusy,
                   unload, overtaken>>

OpenFails(t) ==
    /\ t.at = "opening"
    /\ Ends(t) /\ Answers("Fail", t)
    /\ UNCHANGED <<service, generation, node, nodes, gate, operation, work, cacheBusy,
                   unload, overtaken>>

(* The task that opened a node closes it itself when it is not wanted.     *)
OpenChecks(t) ==
    /\ t.at = "check"
    /\ IF t.gen # generation
       THEN MovesTo(t, "wait") /\ UNCHANGED onFramework
       ELSE Ends(t) /\ Answers("Opened", t)
    /\ UNCHANGED <<service, generation, node, nodes, gate, operation, work, cacheBusy,
                   unload, overtaken>>

(* ClosePersistentNode, LanternNode.Dispose and lt_node_close.  The mutant *)
(* does not wait for the workers.                                          *)
CloseUngated == TRUE
GateForClose == gate = {}

CloseStarts(t) ==
    /\ t.kind \in {"open", "close", "stop"} /\ t.at = "wait" /\ GateForClose
    /\ gate' = gate \cup {t.kind}
    /\ nodes' = [nodes EXCEPT ![t.node] = "closing"]
    /\ MovesTo(t, "in")
    /\ UNCHANGED <<service, generation, node, onFramework, operation, work, cacheBusy,
                   unload, overtaken>>

CloseEnds(t) ==
    /\ t.kind \in {"open", "close", "stop"} /\ t.at = "in"
    /\ gate' = gate \ {t.kind}
    /\ nodes' = [nodes EXCEPT ![t.node] = "closed"]
    /\ IF t.kind = "stop"
       THEN MovesTo(t, "out")
       ELSE Ends(t)
    /\ UNCHANGED <<service, generation, node, onFramework, operation, work, cacheBusy,
                   unload, overtaken>>

StopAnswers(t) ==
    /\ t.kind = "stop" /\ t.at = "out"
    /\ Ends(t) /\ Answers("Stopped", t)
    /\ UNCHANGED <<service, generation, node, nodes, gate, operation, work, cacheBusy,
                   unload, overtaken>>

(* A name-card worker gives up when its session is over.                   *)
WorkerEnters(t) ==
    /\ t.kind = "prepare" /\ t.at = "wait" /\ gate = {}
    /\ IF t.gen # generation
       THEN Ends(t) /\ UNCHANGED gate
       ELSE MovesTo(t, "in") /\ gate' = {"prepare"}
    /\ UNCHANGED <<service, generation, node, nodes, onFramework, operation, work,
                   cacheBusy, unload, overtaken>>

(* The call into the node, which starts a job, answers without one (an     *)
(* identity, a name that was looked up) or fails.                          *)
WorkerCalls(t) ==
    /\ t.kind = "prepare" /\ t.at = "in"
    /\ \/ \E h \in Jobs :
            /\ work[t.node][h] = "none" /\ \A k \in Jobs : k < h => work[t.node][k] # "none"
            /\ work' = [work EXCEPT ![t.node][h] = "running"]
            /\ background' = (background \ {t}) \cup {[t EXCEPT !.at = "called", !.work = h]}
       \/ MovesTo(t, "called") /\ UNCHANGED work
    /\ UNCHANGED <<service, generation, node, nodes, gate, onFramework, operation,
                   cacheBusy, unload, overtaken>>

WorkerLeaves(t) ==
    /\ t.kind = "prepare" /\ t.at = "called"
    /\ gate' = {} /\ MovesTo(t, "out")
    /\ UNCHANGED <<service, generation, node, nodes, onFramework, operation, work,
                   cacheBusy, unload, overtaken>>

WorkerAnswers(t) ==
    /\ t.kind = "prepare" /\ t.at = "out"
    /\ Ends(t) /\ Answers("NamePrepared", t)
    /\ UNCHANGED <<service, generation, node, nodes, gate, operation, work, cacheBusy,
                   unload, overtaken>>

ClearStarts(t) ==
    /\ t.kind = "clear" /\ t.at = "wait" /\ gate = {}
    /\ gate' = {"clear"} /\ MovesTo(t, "in")
    /\ UNCHANGED <<service, generation, node, nodes, onFramework, operation, work,
                   cacheBusy, unload, overtaken>>

ClearEnds(t) ==
    /\ t.kind = "clear" /\ t.at = "in"
    /\ gate' = {} /\ Ends(t) /\ Answers("CacheCleared", t)
    /\ UNCHANGED <<service, generation, node, nodes, operation, work, cacheBusy,
                   unload, overtaken>>

(* The node runs its jobs; a full event channel may drop what one emits.   *)
JobEnds(g, h) ==
    /\ nodes[g] = "open" /\ work[g][h] = "running"
    /\ \E end \in {"done", "lost"} : work' = [work EXCEPT ![g][h] = end]
    /\ UNCHANGED <<service, generation, node, nodes, background, gate, onFramework,
                   operation, cacheBusy, unload, overtaken>>

-----------------------------------------------------------------------------
(* Dispose: no frame is drawn any more; the tasks are waited for, for a    *)
(* while, and the service's own node is closed.                            *)

DisposeBegins ==
    /\ unload = "live" /\ generation < MaxGeneration
    /\ unload' = "waiting" /\ generation' = generation + 1
    /\ UNCHANGED <<service, node, nodes, background, gate, onFramework, operation, work,
                   cacheBusy, overtaken>>

(* Enabled from the first moment: the wait ends after fifteen seconds.     *)
DisposeWaited ==
    /\ unload = "waiting"
    /\ IF node = NoNode
       THEN unload' = "gone" /\ UNCHANGED <<gate, nodes>>
       ELSE /\ GateForClose
            /\ unload' = "closing"
            /\ gate' = gate \cup {"dispose"}
            /\ nodes' = [nodes EXCEPT ![node] = "closing"]
    /\ UNCHANGED <<service, generation, node, background, onFramework, operation, work,
                   cacheBusy, overtaken>>

DisposeEnds ==
    /\ unload = "closing"
    /\ unload' = "gone" /\ node' = NoNode /\ gate' = gate \ {"dispose"}
    /\ nodes' = [nodes EXCEPT ![node] = "closed"]
    /\ UNCHANGED <<service, generation, background, onFramework, operation, work, cacheBusy,
                   overtaken>>

-----------------------------------------------------------------------------
FrameworkStep ==
    \/ Start \/ Stop \/ PrepareNostr \/ ClearSharedFileCache
    \/ Opened \/ Fail \/ Stopped \/ NamePrepared \/ CacheCleared
    \/ \E h \in Jobs : PollDone(h)

BackgroundStep(t) ==
    \/ OpenSucceeds(t) \/ OpenFails(t) \/ OpenChecks(t)
    \/ CloseStarts(t) \/ CloseEnds(t) \/ StopAnswers(t)
    \/ WorkerEnters(t) \/ WorkerCalls(t) \/ WorkerLeaves(t) \/ WorkerAnswers(t)
    \/ ClearStarts(t) \/ ClearEnds(t)

PluginNext ==
    \/ FrameworkStep
    \/ \E t \in background : BackgroundStep(t)
    \/ \E g \in Generations, h \in Jobs : JobEnds(g, h)
    \/ DisposeBegins \/ DisposeWaited \/ DisposeEnds

PluginSpec == PluginInit /\ [][PluginNext]_pluginVars

-----------------------------------------------------------------------------
PluginTypeOK ==
    /\ service \in {"Off", "Starting", "On", "Failed", "Stopping"}
    /\ generation \in 0..MaxGeneration /\ node \in 0..MaxGeneration
    /\ nodes \in [Generations -> {"none", "open", "closing", "closed"}]
    /\ background \subseteq Task
    /\ gate \subseteq {"open", "close", "stop", "prepare", "clear", "dispose"}
    /\ onFramework \in Seq(Answer)
    /\ operation \in [preparing : BOOLEAN, work : Jobs \cup {NoWork}, early : SUBSET Jobs]
    /\ work \in [Generations -> [Jobs -> {"none", "running", "done", "polled", "lost"}]]
    /\ cacheBusy \in BOOLEAN /\ overtaken \in BOOLEAN
    /\ unload \in {"live", "waiting", "closing", "gone"}

(* A node is only used while it is open: no worker is inside a call of a   *)
(* node that is being closed or is closed, however stops, starts and the   *)
(* unload interleave with it, and the node the service itself would call   *)
(* is open (LanternService.cs: nostrWorkGate, ClosePersistentNode, Stop).  *)
CallsOpenNodes ==
    /\ \A t \in background : t.kind = "prepare" /\ t.at \in {"in", "called"}
                               => nodes[t.node] = "open"
    /\ node # NoNode /\ Framework => nodes[node] = "open"

(* The shared-file cache is only deleted while no node is open, opening or *)
(* closing: "Only call after the native node has fully stopped"            *)
(* (SharedFileCache.Clear and CanClearSharedCache).                        *)
CacheClearedAlone ==
    (\E t \in background : t.kind = "clear" /\ t.at = "in")
        => /\ \A g \in Generations : nodes[g] \notin {"open", "closing"}
           /\ \A t \in background : t.kind # "open"

(* What the background tasks do to a node or to its files, they do while   *)
(* they may.                                                               *)
WorkersHeeded == CallsOpenNodes /\ CacheClearedAlone

(* The name-card buttons are blocked for a reason: while the operation     *)
(* prepares, its worker is at work or its answer is queued; while it waits *)
(* for a job, that job of the node runs, its event is not polled yet or    *)
(* was dropped.  So an event that comes before the handle, a stop or a     *)
(* restart never leaves it waiting for nothing.  Only a start allowed      *)
(* while the service still has a node (after the failure of an older       *)
(* start) may; overtaken marks that.                                       *)
WaitsForReason ==
    Framework /\ ~overtaken =>
        /\ operation.preparing =>
             \/ \E t \in background : t.kind = "prepare" /\ t.gen = generation /\ t.node = node
             \/ \E i \in DOMAIN onFramework :
                    /\ onFramework[i].does = "NamePrepared" /\ onFramework[i].gen = generation
                    /\ onFramework[i].node = node
        /\ operation.work # NoWork =>
             node # NoNode /\ work[node][operation.work] \in {"running", "done", "lost"}
=============================================================================
