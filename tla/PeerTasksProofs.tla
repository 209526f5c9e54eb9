--------------------------- MODULE PeerTasksProofs ---------------------------
(***************************************************************************)
(* Proofs about PeerTasks for any nodes, any bound on open tasks and any   *)
(* number of channels.                                                     *)
(***************************************************************************)
EXTENDS PeerTasks, FiniteSetTheorems, SequenceTheorems, TLAPS

USE NodesAssumption, MaxOpenAssumption, MaxChannelsAssumption, EventsAssumption

\* A start that is not idle is a record of a node, a channel and a step.
Try == [node : Nodes, chan : Channels, step : StartSteps]

LEMMA StartIsTry ==
  ASSUME TypeOK, start.step # "idle"
  PROVE  /\ start \in Try
         /\ \A s \in StartSteps : [start EXCEPT !.step = s] \in Try
<1>1. start # Idle
  BY DEF Idle
<1>2. start \in Try
  BY <1>1 DEF TypeOK, Try
<1> QED
  BY <1>2 DEF Try

LEMMA TryStarts ==
  ASSUME TypeOK, asked # <<>>
  PROVE  /\ Head(asked) \in Jobs
         /\ Tail(asked) \in Seq(Jobs)
         /\ [node |-> Head(asked).node, chan |-> Head(asked).chan, step |-> "judged"] \in Try
<1>1. Head(asked) \in Jobs /\ Tail(asked) \in Seq(Jobs)
  BY HeadTailProperties DEF TypeOK
<1> QED
  BY <1>1 DEF Jobs, Try, StartSteps

\* The state of the working machine keeps its types.
THEOREM TypeCorrect == Spec => []TypeOK
<1>1. Init => TypeOK
  <2>1. <<>> \in Seq(Jobs)
    BY EmptySeq
  <2>2. 0 \in 0 .. MaxChannels
    OBVIOUS
  <2>3. Init => task \in [Nodes -> Status] /\ stopped \in [Nodes -> {"no", "heard", "ended"}]
    BY DEF Init, Status
  <2> QED
    BY <2>1, <2>2, <2>3 DEF Init, TypeOK
<1>2. TypeOK /\ [Next]_vars => TypeOK'
  <2> SUFFICES ASSUME TypeOK, [Next]_vars PROVE TypeOK'
    OBVIOUS
  <2> USE DEF TypeOK, Status, Settled, Jobs, Channels, StartSteps, Idle
  <2>1. CASE ChannelOpens
    BY <2>1 DEF ChannelOpens
  <2>2. CASE ChannelCloses
    BY <2>2 DEF ChannelCloses
  <2>3. CASE StartStep
    <3>1. CASE StartDismissed
      BY <3>1, TryStarts DEF StartDismissed
    <3>2. CASE StartJudged
      BY <3>2, TryStarts DEF StartJudged, Try
    <3>3. CASE StartRefused
      BY <3>3 DEF StartRefused
    <3>4. CASE StartClaims
      BY <3>4, StartIsTry DEF StartClaims, Try
    <3>5. CASE StartOpens
      BY <3>5, StartIsTry DEF StartOpens, Try
    <3>6. CASE StartEnqueues
      BY <3>6, StartIsTry DEF StartEnqueues, Try
    <3>7. CASE StartDone
      BY <3>7, StartIsTry DEF StartDone, Try
    <3>8. CASE StartFails
      <4> DEFINE n == start.node
      <4>1. start \in Try /\ start' \in Try /\ n \in Nodes
        BY <3>8, StartIsTry DEF StartFails, Try
      <4>2. CASE task[n] = "open"
        <5>1. task' = [task EXCEPT ![n] = "failed"] /\ pending' = pending \cup {n}
          BY <3>8, <4>2 DEF StartFails
        <5>3. owing' = owing \/ owing' = owing \cup {n}
          BY <3>8, <4>2 DEF StartFails
        <5>2. held' \subseteq Channels
          BY <3>8, <4>2 DEF StartFails, ReleaseHolds
        <5> QED
          BY <3>8, <4>1, <5>1, <5>2, <5>3 DEF StartFails, Try
      <4>3. CASE task[n] # "open"
        BY <3>8, <4>1, <4>3 DEF StartFails, Try
      <4> QED
        BY <4>2, <4>3
    <3>9. CASE StartAbandons
      BY <3>9, StartIsTry DEF StartAbandons, Try
    <3> QED
      BY <2>3, <3>1, <3>2, <3>3, <3>4, <3>5, <3>6, <3>7, <3>8, <3>9 DEF StartStep
  <2>4. ASSUME NEW n \in Nodes, NodeStep(n) PROVE TypeOK'
    <3>1. CASE StartArrives(n)
      <4>1. [node |-> n, chan |-> chan] \in Jobs
        BY <3>1 DEF StartArrives
      <4>2. Append(asked, [node |-> n, chan |-> chan]) \in Seq(Jobs)
        BY <4>1, AppendProperties
      <4> QED
        BY <3>1, <4>2 DEF StartArrives
    <3>2. ASSUME NEW s \in {"done", "failed"}, AgentEnds(n, s) PROVE TypeOK'
      BY <3>2 DEF AgentEnds, ReleaseHolds
    <3>3. CASE AgentLeaves(n)
      BY <3>3 DEF AgentLeaves
    <3>4. CASE PersonStops(n)
      BY <3>4 DEF PersonStops, ReleaseHolds
    <3>5. CASE OweResult(n)
      BY <3>5 DEF OweResult
    <3>6. CASE DeliverTells(n)
      BY <3>6 DEF DeliverTells
    <3>7. CASE DeliverEnds(n)
      BY <3>7 DEF DeliverEnds
    <3>8. CASE ResultAcked(n)
      BY <3>8 DEF ResultAcked, SettleDelivery
    <3>9. CASE StopArrives(n)
      BY <3>9 DEF StopArrives
    <3>10. CASE StopEnds(n)
      BY <3>10 DEF StopEnds, ReleaseHolds
    <3>11. CASE StopSettles(n)
      BY <3>11 DEF StopSettles, SettleDelivery
    <3> QED
      BY <2>4, <3>1, <3>2, <3>3, <3>4, <3>5, <3>6, <3>7, <3>8, <3>9, <3>10, <3>11
      DEF NodeStep
  <2>5. CASE LinkStep
    <3>1. CASE UnbindEnds
      BY <3>1 DEF UnbindEnds, ReleaseHolds
    <3>2. CASE UnbindDrops
      BY <3>2 DEF UnbindDrops
    <3>3. CASE UnbindUnlinks
      BY <3>3 DEF UnbindUnlinks
    <3>4. CASE Bind
      BY <3>4 DEF Bind
    <3> QED
      BY <2>5, <3>1, <3>2, <3>3, <3>4 DEF LinkStep
  <2>6. CASE Crash
    BY <2>6, EmptySeq DEF Crash, Recover
  <2>7. CASE UNCHANGED vars
    BY <2>7 DEF vars
  <2> QED
    BY <2>1, <2>2, <2>3, <2>4, <2>5, <2>6, <2>7 DEF Next
<1> QED
  BY <1>1, <1>2, PTL DEF Spec

-----------------------------------------------------------------------------
(* The bound on open tasks.  A start was judged with a place to spare, and no  *)
(* other step opens a task, so the place is still there when the start opens.  *)

PlaceKept ==
  start.step \in {"judged", "claimed"} =>
    Cardinality(OpenNodes \ {start.node}) < MaxOpen

BoundInv == OpenBounded /\ PlaceKept

LEMMA OpenFinite ==
  ASSUME TypeOK, NEW S, S \subseteq OpenNodes
  PROVE  IsFiniteSet(S) /\ Cardinality(S) \in Nat
                        /\ Cardinality(S) <= Cardinality(OpenNodes)
<1>1. OpenNodes \subseteq Nodes
  BY DEF OpenNodes, TypeOK
<1>2. IsFiniteSet(OpenNodes)
  BY <1>1, FS_Subset
<1> QED
  BY <1>2, FS_Subset, FS_CardinalityType

\* A step that opens nothing and begins no start keeps the bound.
LEMMA FewerOpen ==
  ASSUME TypeOK, TypeOK', BoundInv, OpenNodes' \subseteq OpenNodes,
         start' = start \/ start'.step \notin {"judged", "claimed"}
  PROVE  BoundInv'
<1>1. OpenBounded'
  <2>1. Cardinality(OpenNodes') <= Cardinality(OpenNodes)
        /\ Cardinality(OpenNodes') \in Nat /\ Cardinality(OpenNodes) \in Nat
    BY OpenFinite
  <2> QED
    BY <2>1 DEF BoundInv, OpenBounded
<1>2. PlaceKept'
  <2> SUFFICES ASSUME start'.step \in {"judged", "claimed"}
               PROVE  Cardinality(OpenNodes' \ {start'.node}) < MaxOpen
    BY DEF PlaceKept
  <2> DEFINE S == OpenNodes \ {start.node}
  <2> DEFINE T == OpenNodes' \ {start.node}
  <2>1. start' = start /\ Cardinality(S) < MaxOpen
    BY DEF BoundInv, PlaceKept
  <2>2. IsFiniteSet(S) /\ T \subseteq S
    BY OpenFinite
  <2>3. Cardinality(T) <= Cardinality(S) /\ Cardinality(T) \in Nat /\ Cardinality(S) \in Nat
    BY <2>2, FS_Subset, FS_CardinalityType
  <2> QED
    BY <2>1, <2>3
<1> QED
  BY <1>1, <1>2 DEF BoundInv

\* The one node a start opens fits in the place kept for it.
LEMMA OneOpens ==
  ASSUME TypeOK, TypeOK', BoundInv, start.step \in {"judged", "claimed"},
         OpenNodes' \subseteq OpenNodes \cup {start.node}
  PROVE  /\ OpenBounded'
         /\ Cardinality(OpenNodes' \ {start.node}) < MaxOpen
<1> DEFINE S == OpenNodes \ {start.node}
<1> DEFINE T == OpenNodes' \ {start.node}
<1>1. IsFiniteSet(S) /\ Cardinality(S) \in Nat /\ Cardinality(S) < MaxOpen
  BY OpenFinite DEF BoundInv, PlaceKept
<1>2. T \subseteq S
  OBVIOUS
<1>3. IsFiniteSet(T) /\ Cardinality(T) <= Cardinality(S) /\ Cardinality(T) \in Nat
  BY <1>1, <1>2, FS_Subset, FS_CardinalityType
<1>4. Cardinality(T \cup {start.node}) = Cardinality(T) + 1
      /\ IsFiniteSet(T \cup {start.node})
  BY <1>3, FS_AddElement
<1>5. OpenNodes' \subseteq T \cup {start.node}
  OBVIOUS
<1>6. Cardinality(OpenNodes') <= Cardinality(T) + 1 /\ Cardinality(OpenNodes') \in Nat
  BY <1>4, <1>5, FS_Subset, FS_CardinalityType
<1> QED
  BY <1>1, <1>3, <1>6 DEF OpenBounded

\* However starts, stops, unlinks and restarts interleave with the awaits of a
\* start, no more than MaxOpen tasks of the machine are open.
THEOREM OpenStaysBounded == Spec => []OpenBounded
<1>1. Init => BoundInv
  <2> SUFFICES ASSUME Init PROVE BoundInv
    OBVIOUS
  <2>1. OpenNodes = {} /\ Cardinality({}) = 0
    BY FS_EmptySet DEF Init, OpenNodes
  <2> QED
    BY <2>1 DEF Init, BoundInv, OpenBounded, PlaceKept, Idle
<1>2. TypeOK /\ TypeOK' /\ BoundInv /\ [Next]_vars => BoundInv'
  <2> SUFFICES ASSUME TypeOK, TypeOK', BoundInv, [Next]_vars PROVE BoundInv'
    OBVIOUS
  <2>1. CASE ChannelOpens \/ ChannelCloses \/ UNCHANGED vars
    BY <2>1, FewerOpen DEF ChannelOpens, ChannelCloses, vars, OpenNodes
  <2>2. CASE StartStep
    <3>1. CASE StartDismissed
      BY <3>1, FewerOpen DEF StartDismissed, OpenNodes
    <3>2. CASE StartJudged
      <4>1. OpenNodes' = OpenNodes /\ start'.step = "judged"
        BY <3>2 DEF StartJudged, OpenNodes
      <4>2. Cardinality(OpenNodes) < MaxOpen
        <5>1. ~ (Cardinality(OpenNodes) >= MaxOpen)
          BY <3>2 DEF StartJudged, Verdict, Full
        <5>2. Cardinality(OpenNodes) \in Nat
          BY OpenFinite
        <5> QED
          BY <5>1, <5>2
      <4>3. Cardinality(OpenNodes \ {start'.node}) <= Cardinality(OpenNodes)
            /\ Cardinality(OpenNodes \ {start'.node}) \in Nat
            /\ Cardinality(OpenNodes) \in Nat
        BY OpenFinite
      <4> QED
        BY <4>1, <4>2, <4>3 DEF BoundInv, OpenBounded, PlaceKept
    <3>3. CASE StartRefused \/ StartDone
      BY <3>3, FewerOpen DEF StartRefused, StartDone, OpenNodes, Idle
    <3>4. CASE StartClaims
      <4>1. OpenNodes' \subseteq OpenNodes \cup {start.node} /\ start.step = "judged"
        BY <3>4 DEF StartClaims, OpenNodes
      <4>2. start'.node = start.node
        BY <3>4, StartIsTry DEF StartClaims, Try
      <4> QED
        BY <4>1, <4>2, OneOpens DEF BoundInv, PlaceKept
    <3>5. CASE StartOpens
      <4>1. start.step = "claimed" /\ start \in Try
        BY <3>5, StartIsTry DEF StartOpens
      <4>2. OpenNodes' \subseteq OpenNodes \cup {start.node}
        BY <3>5 DEF StartOpens, OpenNodes, TypeOK
      <4>3. start'.step = "opened"
        BY <3>5, <4>1 DEF StartOpens, Try
      <4> QED
        BY <4>1, <4>2, <4>3, OneOpens DEF BoundInv, PlaceKept
    <3>6. CASE StartEnqueues
      <4>1. start'.step = "enqueued"
        BY <3>6, StartIsTry DEF StartEnqueues, Try
      <4> QED
        BY <3>6, <4>1, FewerOpen DEF StartEnqueues, OpenNodes
    <3>7. CASE StartFails
      <4>1. start'.step = "failed"
        BY <3>7, StartIsTry DEF StartFails, Try
      <4>2. OpenNodes' \subseteq OpenNodes
        BY <3>7 DEF StartFails, OpenNodes, TypeOK
      <4> QED
        BY <4>1, <4>2, FewerOpen
    <3>8. CASE StartAbandons
      BY <3>8, FewerOpen DEF StartAbandons, OpenNodes, Idle
    <3> QED
      BY <2>2, <3>1, <3>2, <3>3, <3>4, <3>5, <3>6, <3>7, <3>8 DEF StartStep
  <2>3. ASSUME NEW n \in Nodes, NodeStep(n) PROVE BoundInv'
    <3>1. start' = start
      BY <2>3 DEF NodeStep, StartArrives, AgentEnds, AgentLeaves, PersonStops,
                  OweResult, DeliverTells, DeliverEnds, ResultAcked, StopArrives,
                  StopEnds, StopSettles
    <3>2. claimed' = claimed
      BY <2>3 DEF NodeStep, StartArrives, AgentEnds, AgentLeaves, PersonStops,
                  OweResult, DeliverTells, DeliverEnds, ResultAcked, StopArrives,
                  StopEnds, StopSettles
    <3>3. \A m \in Nodes : task'[m] = "open" => task[m] = "open"
      BY <2>3 DEF NodeStep, StartArrives, AgentEnds, AgentLeaves, PersonStops,
                  OweResult, DeliverTells, DeliverEnds, ResultAcked, StopArrives,
                  StopEnds, StopSettles, TypeOK
    <3>4. OpenNodes' \subseteq OpenNodes
      BY <3>2, <3>3 DEF OpenNodes, TypeOK
    <3> QED
      BY <3>1, <3>4, FewerOpen
  <2>4. CASE LinkStep
    <3>1. start' = start
      BY <2>4 DEF LinkStep, UnbindEnds, UnbindDrops, UnbindUnlinks, Bind
    <3>2. OpenNodes' \subseteq OpenNodes
      BY <2>4 DEF LinkStep, UnbindEnds, UnbindDrops, UnbindUnlinks, Bind, OpenNodes,
                  TypeOK
    <3> QED
      BY <3>1, <3>2, FewerOpen
  <2>5. CASE Crash
    BY <2>5, FewerOpen DEF Crash, OpenNodes, Idle
  <2> QED
    BY <2>1, <2>2, <2>3, <2>4, <2>5 DEF Next
<1>3. BoundInv => OpenBounded
  BY DEF BoundInv
<1> QED
  BY <1>1, <1>2, <1>3, TypeCorrect, PTL DEF Spec

-----------------------------------------------------------------------------
(* What lasts while the machine stays linked.  A node that had a task is held  *)
(* for good, so a start is judged again only when it has none; that is why no  *)
(* start touches a result that is owed or a task that settled.                 *)

Lasting ==
  /\ TypeOK
  /\ linked /\ unbinding = "no"
  /\ \A n \in Nodes : task[n] # "none" => n \in claimed
  /\ start.step \in {"judged", "claimed"} => task[start.node] = "none"
  /\ start.step = "claimed" => start.node \in claimed
  /\ ResultOwed

LEMMA LinkedLasts ==
  ASSUME CanUnbind = FALSE
  PROVE  Spec => []Lasting
<1>1. Init /\ TypeOK => Lasting
  BY DEF Init, Lasting, ResultOwed, Idle
<1>2. Lasting /\ TypeOK' /\ [Next]_vars => Lasting'
  <2> SUFFICES ASSUME Lasting, TypeOK', [Next]_vars PROVE Lasting'
    OBVIOUS
  <2> USE DEF Lasting, ResultOwed, Settled, StartSteps
  <2>1. CASE ChannelOpens \/ ChannelCloses \/ UNCHANGED vars
    BY <2>1 DEF ChannelOpens, ChannelCloses, vars
  <2>2. CASE StartStep
    <3>1. CASE StartDismissed
      BY <3>1 DEF StartDismissed
    <3>2. CASE StartJudged
      <4>1. task[Head(asked).node] = "none"
        <5>1. Head(asked).node \in Nodes
          BY <3>2, TryStarts DEF StartJudged, Jobs
        <5>2. ~ (Head(asked).node \in claimed /\ task[Head(asked).node] # "none")
          BY <3>2 DEF StartJudged, Verdict, Again
        <5> QED
          BY <5>1, <5>2
      <4> QED
        BY <3>2, <4>1 DEF StartJudged
    <3>3. CASE StartRefused \/ StartDone \/ StartAbandons
      <4>1. start'.step = "idle"
        <5>1. start' = Idle
          BY <3>3 DEF StartRefused, StartDone, StartAbandons
        <5> QED
          BY <5>1 DEF Idle
      <4>2. CASE StartRefused
        BY <4>1, <4>2 DEF StartRefused
      <4>3. CASE StartDone
        BY <4>1, <4>3 DEF StartDone
      <4>4. CASE StartAbandons
        BY <4>1, <4>4 DEF StartAbandons
      <4> QED
        BY <3>3, <4>2, <4>3, <4>4
    <3>4. CASE StartClaims
      BY <3>4, StartIsTry DEF StartClaims, Try, TypeOK
    <3>5. CASE StartOpens
      BY <3>5, StartIsTry DEF StartOpens, Try, TypeOK
    <3>6. CASE StartEnqueues
      BY <3>6, StartIsTry DEF StartEnqueues, Try
    <3>7. CASE StartFails
      <4> DEFINE m == start.node
      <4>1. m \in Nodes /\ start'.step = "failed" /\ claimed' = claimed
            /\ deliver' = deliver /\ linked' = linked /\ unbinding' = unbinding
        BY <3>7, StartIsTry DEF StartFails, Try
      <4>2. CASE task[m] = "open"
        <5>1. /\ task' = [task EXCEPT ![m] = "failed"]
              /\ pending' = pending \cup {m}
              /\ owing' = IF m \in claimed /\ m \notin deliver THEN owing \cup {m} ELSE owing
          BY <3>7, <4>2 DEF StartFails
        <5> QED
          BY <4>1, <4>2, <5>1 DEF TypeOK
      <4>3. CASE task[m] # "open"
        BY <3>7, <4>1, <4>3 DEF StartFails
      <4> QED
        BY <4>2, <4>3
    <3> QED
      BY <2>2, <3>1, <3>2, <3>3, <3>4, <3>5, <3>6, <3>7 DEF StartStep
  <2>3. ASSUME NEW n \in Nodes, NodeStep(n) PROVE Lasting'
    <3> USE DEF SettleDelivery, Report, Again, TypeOK
    <3>1. CASE StartArrives(n)
      BY <3>1 DEF StartArrives
    <3>2. ASSUME NEW s \in {"done", "failed"}, AgentEnds(n, s) PROVE Lasting'
      BY <3>2, StartIsTry DEF AgentEnds, Try
    <3>3. CASE AgentLeaves(n)
      BY <3>3 DEF AgentLeaves
    <3>4. CASE PersonStops(n)
      BY <3>4, StartIsTry DEF PersonStops, Try
    <3>5. CASE OweResult(n)
      BY <3>5 DEF OweResult
    <3>6. CASE DeliverTells(n)
      BY <3>6 DEF DeliverTells
    <3>7. CASE DeliverEnds(n)
      BY <3>7 DEF DeliverEnds
    <3>8. CASE ResultAcked(n)
      BY <3>8 DEF ResultAcked
    <3>9. CASE StopArrives(n)
      BY <3>9 DEF StopArrives
    <3>10. CASE StopEnds(n)
      BY <3>10, StartIsTry DEF StopEnds, Try
    <3>11. CASE StopSettles(n)
      BY <3>11 DEF StopSettles
    <3> QED
      BY <2>3, <3>1, <3>2, <3>3, <3>4, <3>5, <3>6, <3>7, <3>8, <3>9, <3>10, <3>11
      DEF NodeStep
  <2>4. CASE LinkStep
    BY <2>4 DEF LinkStep, UnbindEnds, UnbindDrops, UnbindUnlinks, Bind
  <2>5. CASE Crash
    BY <2>5 DEF Crash, Recover, Idle
  <2> QED
    BY <2>1, <2>2, <2>3, <2>4, <2>5 DEF Next
<1> QED
  BY <1>1, <1>2, TypeCorrect, PTL DEF Spec

\* peer-tasks.ts:574-618: while the link stays, a result nobody acknowledged is
\* owed through every restart.
THEOREM ResultStaysOwed ==
  ASSUME CanUnbind = FALSE
  PROVE  Spec => []ResultOwed
<1>1. Lasting => ResultOwed
  BY DEF Lasting
<1> QED
  BY <1>1, LinkedLasts, PTL

\* peer-tasks.ts:140-143: while the link stays, a start that is asked
\* again runs no task a second time.
THEOREM RunsOnce ==
  ASSUME CanUnbind = FALSE
  PROVE  Spec => NeverRunsAgain
<1>1. Lasting /\ [Next]_vars =>
        [\A n \in claimed \cap claimed' :
           task[n] \in Settled => task'[n] = task[n]]_vars
  <2> SUFFICES ASSUME Lasting, Next,
                      NEW n \in claimed \cap claimed', task[n] \in Settled
               PROVE  task'[n] = task[n]
    OBVIOUS
  <2>1. n \in Nodes /\ task[n] # "none" /\ task[n] # "open"
    BY DEF Lasting, TypeOK, Settled
  <2>2. CASE ChannelOpens \/ ChannelCloses \/ Crash
    BY <2>2 DEF ChannelOpens, ChannelCloses, Crash
  <2>3. CASE StartStep
    <3>1. CASE StartOpens
      BY <2>1, <3>1 DEF StartOpens, Lasting, TypeOK
    <3>2. CASE StartFails
      BY <2>1, <3>2 DEF StartFails, Lasting, TypeOK
    <3> QED
      BY <2>3, <3>1, <3>2 DEF StartStep, StartDismissed, StartJudged, StartRefused,
         StartClaims, StartEnqueues, StartDone, StartAbandons
  <2>4. ASSUME NEW m \in Nodes, NodeStep(m) PROVE task'[n] = task[n]
    BY <2>1, <2>4 DEF NodeStep, StartArrives, AgentEnds, AgentLeaves, PersonStops,
       OweResult, DeliverTells, DeliverEnds, ResultAcked, StopArrives, StopEnds,
       StopSettles, Lasting, TypeOK
  <2>5. CASE LinkStep
    BY <2>5 DEF LinkStep, UnbindEnds, UnbindDrops, UnbindUnlinks, Bind, Lasting
  <2> QED
    BY <2>2, <2>3, <2>4, <2>5 DEF Next
<1> QED
  BY <1>1, LinkedLasts, PTL DEF Spec, NeverRunsAgain

-----------------------------------------------------------------------------
(* Who works on an open task.                                                *)

\* OpenHasAgent whatever the lineage holds: an unlink lets go of nodes whose task
\* a start opens after it, and a later start may claim such a node again.
HasAgent ==
  \A n \in Nodes :
    task[n] = "open" => n \in agent \/ (start.step = "opened" /\ start.node = n)

\* peer-tasks.ts:249-270: while the daemon stays up, an unlink between any two
\* steps of a start included, an open task of the machine has an agent or its
\* start is about to ask for one.
THEOREM OpenStaysStaffed ==
  ASSUME CanCrash = FALSE
  PROVE  Spec => []OpenHasAgent
<1>1. Init => HasAgent
  BY DEF Init, HasAgent
<1>2. TypeOK /\ HasAgent /\ [Next]_vars => HasAgent'
  <2> SUFFICES ASSUME TypeOK, HasAgent, [Next]_vars PROVE HasAgent'
    OBVIOUS
  <2> USE DEF HasAgent, TypeOK
  <2>1. CASE ChannelOpens \/ ChannelCloses \/ UNCHANGED vars
    BY <2>1 DEF ChannelOpens, ChannelCloses, vars
  <2>2. CASE StartStep
    <3>1. CASE StartDismissed
      BY <3>1 DEF StartDismissed
    <3>2. CASE StartJudged
      BY <3>2 DEF StartJudged, Idle
    <3>3. CASE StartRefused \/ StartDone \/ StartAbandons
      BY <3>3 DEF StartRefused, StartDone, StartAbandons, Untasked
    <3>4. CASE StartClaims
      BY <3>4 DEF StartClaims
    <3>5. CASE StartOpens
      <4>1. start'.step = "opened" /\ start'.node = start.node /\ start.step = "claimed"
        BY <3>5, StartIsTry DEF StartOpens, Try
      <4> QED
        BY <3>5, <4>1 DEF StartOpens
    <3>6. CASE StartEnqueues
      BY <3>6 DEF StartEnqueues
    <3>7. CASE StartFails
      <4> DEFINE m == start.node
      <4>1. /\ m \in Nodes /\ agent' = agent /\ task'[m] # "open"
            /\ \A n \in Nodes : n # m => task'[n] = task[n]
        BY <3>7, StartIsTry DEF StartFails, Try
      <4> QED
        BY <4>1
    <3> QED
      BY <2>2, <3>1, <3>2, <3>3, <3>4, <3>5, <3>6, <3>7 DEF StartStep
  <2>3. ASSUME NEW n \in Nodes, NodeStep(n) PROVE HasAgent'
    <3>1. start' = start /\ agent \ {n} \subseteq agent'
      BY <2>3 DEF NodeStep, StartArrives, AgentEnds, AgentLeaves, PersonStops,
                  OweResult, DeliverTells, DeliverEnds, ResultAcked, StopArrives,
                  StopEnds, StopSettles
    <3>2. /\ \A m \in Nodes : task'[m] = "open" => task[m] = "open"
          /\ task'[n] = "open" => (n \in agent => n \in agent')
      BY <2>3 DEF NodeStep, StartArrives, AgentEnds, AgentLeaves, PersonStops,
                  OweResult, DeliverTells, DeliverEnds, ResultAcked, StopArrives,
                  StopEnds, StopSettles
    <3> QED
      BY <3>1, <3>2
  <2>4. CASE LinkStep
    <3>1. CASE UnbindEnds
      BY <3>1 DEF UnbindEnds, OpenNodes
    <3>2. CASE UnbindDrops
      BY <3>2 DEF UnbindDrops
    <3>3. CASE UnbindUnlinks \/ Bind
      BY <3>3 DEF UnbindUnlinks, Bind
    <3> QED
      BY <2>4, <3>1, <3>2, <3>3 DEF LinkStep
  <2>5. ~ Crash
    BY DEF Crash
  <2> QED
    BY <2>1, <2>2, <2>3, <2>4, <2>5 DEF Next
<1>3. TypeOK /\ HasAgent => OpenHasAgent
  BY DEF TypeOK, HasAgent, OpenHasAgent, OpenNodes
<1> QED
  BY <1>1, <1>2, <1>3, TypeCorrect, PTL DEF Spec

=============================================================================
