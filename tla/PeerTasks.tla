------------------------------ MODULE PeerTasks ------------------------------
(***************************************************************************)
(* The tasks another machine gives agents here: the working machine of     *)
(* apps/server/src/peering/peer-tasks.ts with the handlers of              *)
(* handlers/peer-tasks.ts and the unbind of handlers/peer.ts.              *)
(*                                                                         *)
(* One giving machine and the one project a person linked to it: every     *)
(* check, count, hold and entry of the class is keyed by that machine, and *)
(* machines share no node ids.  A request reaches this machine at any time *)
(* and any number of times, since the machine that gives asks again        *)
(* whatever it heard no answer to.  A handler is cut at its awaits, so     *)
(* other handlers, agents, people and a crash run between its steps.       *)
(***************************************************************************)
EXTENDS Naturals, FiniteSets, Sequences

CONSTANTS
  Nodes,        \* the nodes tasks are given to
  MaxOpen,      \* PEER_MAX_OPEN_TASKS
  MaxChannels,  \* bound: how many channels the giving machine opens
  CanUnbind,    \* whether a person may unlink the machine
  CanCrash      \* whether the daemon may go down

ASSUME NodesAssumption == IsFiniteSet(Nodes)
ASSUME MaxOpenAssumption == MaxOpen \in Nat \ {0}
ASSUME MaxChannelsAssumption == MaxChannels \in Nat
ASSUME EventsAssumption == CanUnbind \in BOOLEAN /\ CanCrash \in BOOLEAN

VARIABLES
  \* on disk
  linked,     \* the project is linked to the machine (peering/links.ts)
  claimed,    \* nodes the lineage holds for the machine
  task,       \* the task of each node
  pending,    \* settled tasks whose wake is pending: nobody acknowledged them
  agent,      \* nodes whose agent is owed (start-agent) or runs
  deliver,    \* nodes with a deliver-remote-result entry
  \* in memory
  told,       \* deliver entries that said so and wait
  owing,      \* oweResult is running: its entry is not in the outbox yet
  asked,      \* starts that wait in the serializer, in order
  start,      \* the one start that runs
  stopped,    \* where the stop of each node is
  unbinding,  \* where the unbind is
  chan,       \* the last channel the machine opened
  up,         \* whether that channel is open
  held        \* channels the project is held for

vars == <<linked, claimed, task, pending, agent, deliver, told, owing, asked,
          start, stopped, unbinding, chan, up, held>>

Settled == {"done", "failed", "cancelled"}
Status == {"none", "open"} \cup Settled
Channels == 1 .. MaxChannels
Jobs == [node : Nodes, chan : Channels]
StartSteps == {"judged", "claimed", "opened", "enqueued", "failed"}
Idle == [step |-> "idle"]

TypeOK ==
  /\ linked \in BOOLEAN
  /\ claimed \subseteq Nodes
  /\ task \in [Nodes -> Status]
  /\ pending \subseteq Nodes
  /\ agent \subseteq Nodes
  /\ deliver \subseteq Nodes
  /\ told \subseteq Nodes
  /\ owing \subseteq Nodes
  /\ asked \in Seq(Jobs)
  /\ start \in [node : Nodes, chan : Channels, step : StartSteps] \cup {Idle}
  /\ stopped \in [Nodes -> {"no", "heard", "ended"}]
  /\ unbinding \in {"no", "ended", "dropped"}
  /\ chan \in 0 .. MaxChannels
  /\ up \in BOOLEAN /\ (up => chan # 0)
  /\ held \subseteq Channels

Init ==
  /\ linked = TRUE
  /\ claimed = {}
  /\ task = [n \in Nodes |-> "none"]
  /\ pending = {} /\ agent = {} /\ deliver = {}
  /\ told = {} /\ owing = {} /\ asked = <<>>
  /\ start = Idle
  /\ stopped = [n \in Nodes |-> "no"]
  /\ unbinding = "no"
  /\ chan = 0 /\ up = FALSE
  /\ held = {}

-----------------------------------------------------------------------------
(* What the class reads of its state. *)

\* openNodesOf, and what openCount counts: a task is the machine's only while
\* the lineage holds its node for it (peerOfTask).
OpenNodes == {n \in claimed : task[n] = "open"}

\* Mutant: a node that had a task is taken for a new one.
AgainForgotten(n) == FALSE

\* taskOf: the machine gave this node a task before.
Again(n) == n \in claimed /\ task[n] # "none"

\* Another chat or terminal of this machine has the id.
Taken(n) == n \notin claimed /\ n \in agent

\* Mutant: the bound is checked one task late.
FullLate == Cardinality(OpenNodes) > MaxOpen

Full == Cardinality(OpenNodes) >= MaxOpen

\* What a start that gets its turn meets before its first await.
Verdict(n) ==
  CASE ~ linked -> "peer-not-linked"
    [] linked /\ Again(n) -> "again"
    [] linked /\ Taken(n) -> "peer-node-taken"
    [] linked /\ ~ Again(n) /\ ~ Taken(n) -> IF Full THEN "peer-busy" ELSE "fits"

\* How a result request is answered: taskOf, and the status of what it finds.
Report(n) == IF Again(n) THEN task[n] ELSE "unknown"

\* changed -> releaseHolds, once the tasks of S settled: with no task left open,
\* what was held is let go.
ReleaseHolds(S) ==
  held' = IF S \cap OpenNodes # {} /\ OpenNodes \subseteq S THEN {} ELSE held

\* settleDelivery: the result is not offered again and its entry goes.
SettleDelivery(n) ==
  /\ pending' = pending \ {n}
  /\ deliver' = deliver \ {n}
  /\ told' = told \ {n}

-----------------------------------------------------------------------------
(* The channel of the machine. *)

ChannelOpens ==
  /\ ~ up /\ chan < MaxChannels
  /\ chan' = chan + 1 /\ up' = TRUE
  /\ UNCHANGED <<linked, claimed, task, pending, agent, deliver, told, owing,
                 asked, start, stopped, unbinding, held>>

\* What the channel held goes with it; the requests it brought run on.
ChannelCloses ==
  /\ up
  /\ up' = FALSE
  /\ held' = held \ {chan}
  /\ UNCHANGED <<linked, claimed, task, pending, agent, deliver, told, owing,
                 asked, start, stopped, unbinding, chan>>

-----------------------------------------------------------------------------
(* peer.taskStart: one start at a time, cut at its awaits. *)

\* Mutant: a request is served with no channel it came by.
StartArrivesNowhere(n) ==
  /\ linked
  /\ asked' = Append(asked, [node |-> n, chan |-> chan])
  /\ UNCHANGED <<linked, claimed, task, pending, agent, deliver, told, owing,
                 start, stopped, unbinding, chan, up, held>>

\* The machine has one request for a node out on a channel.
StartArrives(n) ==
  /\ up /\ linked
  /\ LET j == [node |-> n, chan |-> chan] IN
     /\ \A i \in 1 .. Len(asked) : asked[i] # j
     /\ asked' = Append(asked, j)
  /\ UNCHANGED <<linked, claimed, task, pending, agent, deliver, told, owing,
                 start, stopped, unbinding, chan, up, held>>

\* The start is answered at its first look: refused, or already started.
StartDismissed ==
  /\ start = Idle /\ asked # <<>>
  /\ Verdict(Head(asked).node) # "fits"
  /\ asked' = Tail(asked)
  /\ UNCHANGED <<linked, claimed, task, pending, agent, deliver, told, owing,
                 start, stopped, unbinding, chan, up, held>>

StartJudged ==
  /\ start = Idle /\ asked # <<>>
  /\ Verdict(Head(asked).node) = "fits"
  /\ asked' = Tail(asked)
  /\ start' = [node |-> Head(asked).node, chan |-> Head(asked).chan, step |-> "judged"]
  /\ UNCHANGED <<linked, claimed, task, pending, agent, deliver, told, owing,
                 stopped, unbinding, chan, up, held>>

\* Mutant: a write that fails after the task opened leaves the task open.
UntaskedOrOpen == {"judged", "claimed", "opened"}

\* The awaits of a start that come before its task opens.
Untasked == {"judged", "claimed"}

\* The agent is not installed, the bundle or the folder is refused, a write
\* fails: the start ends with no task.
StartRefused ==
  /\ start.step \in Untasked
  /\ start' = Idle
  /\ UNCHANGED <<linked, claimed, task, pending, agent, deliver, told, owing,
                 asked, stopped, unbinding, chan, up, held>>

StartClaims ==
  /\ start.step = "judged"
  /\ claimed' = claimed \cup {start.node}
  /\ start' = [start EXCEPT !.step = "claimed"]
  /\ UNCHANGED <<linked, task, pending, agent, deliver, told, owing, asked,
                 stopped, unbinding, chan, up, held>>

StartOpens ==
  /\ start.step = "claimed"
  /\ task' = [task EXCEPT ![start.node] = "open"]
  /\ pending' = pending \ {start.node}
  /\ start' = [start EXCEPT !.step = "opened"]
  /\ UNCHANGED <<linked, claimed, agent, deliver, told, owing, asked, stopped,
                 unbinding, chan, up, held>>

StartEnqueues ==
  /\ start.step = "opened"
  /\ agent' = agent \cup {start.node}
  /\ start' = [start EXCEPT !.step = "enqueued"]
  /\ UNCHANGED <<linked, claimed, task, pending, deliver, told, owing, asked,
                 stopped, unbinding, chan, up, held>>

\* Held for the channel that asked, open or not.
StartDone ==
  /\ start.step = "enqueued"
  /\ held' = held \cup {start.chan}
  /\ start' = Idle
  /\ UNCHANGED <<linked, claimed, task, pending, agent, deliver, told, owing,
                 asked, stopped, unbinding, chan, up>>

\* A write after the task opened fails: abandon settles it, which owes a result
\* like any other end, and marks it woken.
StartFails ==
  /\ start.step \in {"opened", "enqueued"}
  /\ LET n == start.node IN
     IF task[n] = "open"
     THEN /\ task' = [task EXCEPT ![n] = "failed"]
          /\ pending' = pending \cup {n}
          /\ owing' = IF n \in claimed /\ n \notin deliver THEN owing \cup {n} ELSE owing
          /\ ReleaseHolds({n})
     ELSE UNCHANGED <<task, pending, owing, held>>
  /\ start' = [start EXCEPT !.step = "failed"]
  /\ UNCHANGED <<linked, claimed, agent, deliver, told, asked, stopped,
                 unbinding, chan, up>>

StartAbandons ==
  /\ start.step = "failed"
  /\ pending' = pending \ {start.node}
  /\ start' = Idle
  /\ UNCHANGED <<linked, claimed, task, agent, deliver, told, owing, asked,
                 stopped, unbinding, chan, up, held>>

-----------------------------------------------------------------------------
(* The agent's own end, and a person who stops it here. *)

AgentEnds(n, status) ==
  /\ n \in agent /\ task[n] = "open"
  /\ task' = [task EXCEPT ![n] = status]
  /\ pending' = pending \cup {n}
  /\ agent' = agent \ {n}
  /\ ReleaseHolds({n})
  /\ owing' = IF n \in claimed /\ n \notin deliver THEN owing \cup {n} ELSE owing
  /\ UNCHANGED <<linked, claimed, deliver, told, asked, start, stopped,
                 unbinding, chan, up>>

\* An agent whose task ended otherwise is gone.
AgentLeaves(n) ==
  /\ n \in agent /\ task[n] # "open"
  /\ agent' = agent \ {n}
  /\ UNCHANGED <<linked, claimed, task, pending, deliver, told, owing, asked,
                 start, stopped, unbinding, chan, up, held>>

\* changed: a cancelled task owes no result, but the machine is told of it.
PersonStops(n) ==
  /\ n \in claimed /\ task[n] = "open"
  /\ task' = [task EXCEPT ![n] = "cancelled"]
  /\ agent' = agent \ {n}
  /\ ReleaseHolds({n})
  /\ UNCHANGED <<linked, claimed, pending, deliver, told, owing, asked, start,
                 stopped, unbinding, chan, up>>

-----------------------------------------------------------------------------
(* The result: owed, told, asked for and acknowledged. *)

OweResult(n) ==
  /\ n \in owing
  /\ owing' = owing \ {n}
  /\ deliver' = deliver \cup {n}
  /\ UNCHANGED <<linked, claimed, task, pending, agent, told, asked, start,
                 stopped, unbinding, chan, up, held>>

\* deliver: say once that the result waits, then wait for the acknowledgment.
DeliverTells(n) ==
  /\ n \in deliver \ told
  /\ n \in pending
  /\ told' = told \cup {n}
  /\ UNCHANGED <<linked, claimed, task, pending, agent, deliver, owing, asked,
                 start, stopped, unbinding, chan, up, held>>

DeliverEnds(n) ==
  /\ n \in deliver \ told
  /\ n \notin pending
  /\ deliver' = deliver \ {n}
  /\ UNCHANGED <<linked, claimed, task, pending, agent, told, owing, asked,
                 start, stopped, unbinding, chan, up, held>>

\* peer.result with ack, of a task that settled.
ResultAcked(n) ==
  /\ up /\ linked
  /\ Report(n) \in Settled
  /\ SettleDelivery(n)
  /\ UNCHANGED <<linked, claimed, task, agent, owing, asked, start, stopped,
                 unbinding, chan, up, held>>

-----------------------------------------------------------------------------
(* peer.taskStop, which no serializer orders after a start. *)

StopArrives(n) ==
  /\ up /\ linked
  /\ n \in claimed
  /\ stopped' = [stopped EXCEPT ![n] = "heard"]
  /\ UNCHANGED <<linked, claimed, task, pending, agent, deliver, told, owing,
                 asked, start, unbinding, chan, up, held>>

StopEnds(n) ==
  /\ stopped[n] = "heard"
  /\ stopped' = [stopped EXCEPT ![n] = "ended"]
  /\ task' = [task EXCEPT ![n] = IF @ = "open" THEN "cancelled" ELSE @]
  /\ agent' = agent \ {n}
  /\ ReleaseHolds({n})
  /\ UNCHANGED <<linked, claimed, pending, deliver, told, owing, asked, start,
                 unbinding, chan, up>>

StopSettles(n) ==
  /\ stopped[n] = "ended"
  /\ stopped' = [stopped EXCEPT ![n] = "no"]
  /\ SettleDelivery(n)
  /\ UNCHANGED <<linked, claimed, task, agent, owing, asked, start, unbinding,
                 chan, up, held>>

-----------------------------------------------------------------------------
(* peer.unbind and peer.bind. *)

\* The sessions of the machine's canvas end one by one.
UnbindEnds ==
  /\ CanUnbind /\ linked /\ unbinding = "no"
  /\ task' = [n \in Nodes |-> IF n \in OpenNodes THEN "cancelled" ELSE task[n]]
  /\ agent' = agent \ claimed
  /\ ReleaseHolds(OpenNodes)
  /\ unbinding' = "ended"
  /\ UNCHANGED <<linked, claimed, pending, deliver, told, owing, asked, start,
                 stopped, chan, up>>

\* The canvas goes, and with its nodes their lineage and records; an agent that
\* started meanwhile may go with its entry or run on.
UnbindDrops ==
  /\ unbinding = "ended"
  /\ claimed' = {}
  /\ task' = [n \in Nodes |-> IF n \in claimed THEN "none" ELSE task[n]]
  /\ \E kept \in SUBSET (agent \cap claimed) : agent' = (agent \ claimed) \cup kept
  /\ unbinding' = "dropped"
  /\ UNCHANGED <<linked, pending, deliver, told, owing, asked, start, stopped,
                 chan, up, held>>

\* The link goes, and the results owed over it lapse.
UnbindUnlinks ==
  /\ unbinding = "dropped"
  /\ linked' = FALSE
  /\ deliver' = {} /\ told' = {}
  /\ pending' = pending \ claimed
  /\ unbinding' = "no"
  /\ UNCHANGED <<claimed, task, agent, owing, asked, start, stopped, chan, up,
                 held>>

Bind ==
  /\ ~ linked
  /\ linked' = TRUE
  /\ UNCHANGED <<claimed, task, pending, agent, deliver, told, owing, asked,
                 start, stopped, unbinding, chan, up, held>>

-----------------------------------------------------------------------------
(* The daemon goes down and starts again. *)

\* Mutant: nothing is owed again.
RecoverNothing == UNCHANGED deliver

\* recover: what settled and nobody acknowledged is owed again.
Recover ==
  deliver' = deliver \cup
    {n \in claimed \cap pending : task[n] \in {"done", "failed"}}

Crash ==
  /\ CanCrash
  /\ Recover
  /\ told' = {} /\ owing' = {} /\ asked' = <<>>
  /\ start' = Idle
  /\ stopped' = [n \in Nodes |-> "no"]
  /\ unbinding' = "no"
  /\ up' = FALSE
  /\ held' = {}
  /\ UNCHANGED <<linked, claimed, task, pending, agent, chan>>

-----------------------------------------------------------------------------
StartStep ==
  \/ StartDismissed \/ StartJudged \/ StartRefused \/ StartClaims \/ StartOpens \/ StartEnqueues
  \/ StartDone \/ StartFails \/ StartAbandons

NodeStep(n) ==
  \/ StartArrives(n)
  \/ \E s \in {"done", "failed"} : AgentEnds(n, s)
  \/ AgentLeaves(n) \/ PersonStops(n)
  \/ OweResult(n) \/ DeliverTells(n) \/ DeliverEnds(n) \/ ResultAcked(n)
  \/ StopArrives(n) \/ StopEnds(n) \/ StopSettles(n)

LinkStep == UnbindEnds \/ UnbindDrops \/ UnbindUnlinks \/ Bind

Next ==
  \/ ChannelOpens \/ ChannelCloses
  \/ StartStep
  \/ \E n \in Nodes : NodeStep(n)
  \/ LinkStep
  \/ Crash

Spec == Init /\ [][Next]_vars

-----------------------------------------------------------------------------
(* Correctness. *)

\* peer-tasks.ts:102-109, 164: the machine never has more tasks open here than it may,
\* whatever starts, stops and restarts interleave with the awaits of a start.
OpenBounded == Cardinality(OpenNodes) <= MaxOpen

\* peer-tasks.ts:140-143: a start asked again, as the machine does when
\* it heard no answer, never runs a task a second time: what settled stays so
\* while this machine holds its node.
NeverRunsAgain ==
  [][\A n \in claimed \cap claimed' :
       task[n] \in Settled => task'[n] = task[n]]_vars

\* peer-tasks.ts:574-618: a result nobody acknowledged is owed to the machine, in
\* the outbox or on its way there, through any restart.
ResultOwed ==
  \A n \in claimed \cap pending :
    task[n] \in {"done", "failed"} => n \in deliver \cup owing

\* peer-tasks.ts:249-270, 299-305: an open task has an agent, owed or running, or
\* its start is still on the way there; otherwise it holds a place for nobody.
OpenHasAgent ==
  \A n \in OpenNodes :
    n \in agent \/ (start.step = "opened" /\ start.node = n)

\* handlers/peer.ts:93: once the link is gone, no task of the machine runs here.
\* A start that passed its checks before the unlink breaks this (README, section 6).
UnlinkedRunsNothing == ~ linked => \A n \in Nodes : task[n] # "open"

=============================================================================
