----------------------------- MODULE Delegation -----------------------------
(***************************************************************************)
(* A machine that gives tasks (RemoteTasks) and the machine that runs them *)
(* (PeerTasks), over the link between them.  The link carries requests,    *)
(* their answers and the word that a task settled; all that is under way   *)
(* goes when the link goes, while a request the working machine has begun  *)
(* runs on there.  The channel keeps the order of what either side sends.  *)
(***************************************************************************)
EXTENDS Naturals, FiniteSets, SequencesExt

CONSTANTS
  Nodes, MaxOpen, MaxChannels, CanUnbind, CanGiveUp, CanLeave,
  CanCrashGiver,   \* whether the giving machine may go down
  CanCrashWorker,  \* whether the working machine may go down
  CanRefuse,       \* whether the working machine may refuse or fail a start
  CanRefuseSend,   \* whether the transfer of a checkout may be refused or fail
  CanCancel,       \* whether people stop tasks on the giving machine
  CanStop          \* whether people stop tasks on the working machine

ASSUME NodesAssumption == IsFiniteSet(Nodes)
ASSUME BoundsAssumption == MaxOpen \in Nat \ {0} /\ MaxChannels \in Nat
ASSUME EventsAssumption ==
  {CanUnbind, CanGiveUp, CanLeave, CanCrashGiver, CanCrashWorker, CanRefuse,
   CanRefuseSend, CanCancel, CanStop} \subseteq BOOLEAN

VARIABLES
  given, starts, sent, takes, stops, giving, pc, report, waiting, woken, dead,
  stale, stopWait, ending, dropping, failing, link, lost,
  linked, claimed, task, pending, agent, deliver, told, owing, asked, start,
  stopped, unbinding, chan, up, held,
  calls,    \* requests under way to the working machine
  back,     \* answers and peer.taskSettled under way back
  serving,  \* nodes whose stop the working machine answers on this link
  ended,    \* the nodes the running unbind tells of at its end
  left      \* ghost: the giving machine left its account with a stop still owed

A == INSTANCE RemoteTasks WITH CanCrash <- CanCrashGiver
B == INSTANCE PeerTasks WITH CanCrash <- CanCrashWorker

giver == <<given, starts, sent, takes, stops, giving, pc, report, waiting, woken,
           dead, stale, stopWait, ending, dropping, failing, link, lost>>
worker == <<linked, claimed, task, pending, agent, deliver, told, owing, asked,
            start, stopped, unbinding, chan, up, held>>
wire == <<calls, back, serving, ended, left>>
vars == <<giver, worker, wire>>

Call == [kind : {"start", "result", "ack", "stop", "forget"}, node : Nodes]
Answers == {"ok", "peer-busy", "refused", "error", "open", "unknown"} \cup A!Settled

TypeOK ==
  /\ A!TypeOK /\ B!TypeOK
  /\ calls \in Seq(Call)
  /\ back \in Seq([kind : {"start", "result", "ack", "stop", "settled"},
                   node : Nodes, answer : Answers])
  /\ serving \subseteq Nodes /\ ended \subseteq Nodes /\ left \in BOOLEAN
  /\ link = up

Init ==
  /\ A!Init /\ B!Init
  /\ calls = <<>> /\ back = <<>> /\ serving = {} /\ ended = {} /\ left = FALSE

-----------------------------------------------------------------------------
(* The wire. *)

Asks(k, n) == calls' = Append(calls, [kind |-> k, node |-> n])

Took(k, n) == /\ calls # <<>> /\ Head(calls) = [kind |-> k, node |-> n]
              /\ calls' = Tail(calls)

\* An answer goes back over the channel its request came by, if that is open.
Answer(k, n, answer, c) ==
  back' = IF up /\ c = chan
          THEN Append(back, [kind |-> k, node |-> n, answer |-> answer])
          ELSE back

Hears(k, n, answer) ==
  /\ back # <<>> /\ Head(back) = [kind |-> k, node |-> n, answer |-> answer]
  /\ back' = Tail(back)

\* notifyPeer: over the channel that is open, if one is.
Notify(S) ==
  LET word(n) == [kind |-> "settled", node |-> n, answer |-> "ok"]
      words == [i \in 1 .. Cardinality(S) |-> word(SetToSeq(S)[i])]
  IN  back' = IF up THEN back \o words ELSE back

Silence == calls' = <<>> /\ back' = <<>> /\ serving' = {}

-----------------------------------------------------------------------------
(* The giving machine alone. *)

GiverAlone(n) ==
  /\ \/ A!StartIsMoot(n) \/ A!StartWaitsForLink(n) \/ A!StartSends(n)
     \/ A!StartMarks(n) \/ A!StartIsDropped(n) \/ A!StartIsHeard(n)
     \/ A!StartCloses(n) \/ A!StartBreaks(n)
     \/ A!TakeWaitsForLink(n) \/ A!TakeIsStale(n) \/ A!TakeBreaks(n)
     \/ A!GiveOwes(n) \/ A!CancelOwes(n) \/ A!GiveUpFails(n) \/ A!LeaveFails(n)
     \/ \E e \in stops \cup ending : e.node = n /\ A!StopHasNoLink(e)
  /\ UNCHANGED <<worker, wire>>

GiverEvent(n) ==
  /\ \/ A!GiveOpens(n)
     \/ CanCancel /\ A!Cancel(n)
     \/ A!GiveUpDrops(n)
     \/ \E e \in stops : e.node = n /\ A!StopExpires(e)
     \/ /\ CanRefuseSend /\ pc[n] = "sending"
        /\ A!StartIsPutOff(n) \/ A!StartIsRefused(n) \/ A!StartErrs(n)
  /\ UNCHANGED <<worker, wire>>

\* Requests the giving machine sends.
GiverAsks(n) ==
  /\ \/ A!StartAsks(n) /\ Asks("start", n)
     \/ A!TakeAsks(n) /\ Asks(IF given[n] = "open" THEN "result" ELSE "ack", n)
     \/ A!TakeSettles(n) /\ Asks("ack", n)
     \/ \E e \in stops : e.node = n /\ A!StopAsks(e) /\ Asks("stop", n)
  /\ UNCHANGED <<worker, back, serving, ended, left>>

GiverHears(n) ==
  /\ \/ /\ \/ Hears("start", n, "ok") /\ A!StartHears(n)
           \/ Hears("start", n, "peer-busy") /\ A!StartIsPutOff(n)
           \/ Hears("start", n, "refused") /\ A!StartIsRefused(n)
           \/ Hears("start", n, "error") /\ A!StartErrs(n)
           \/ Hears("result", n, "open") /\ A!TakeHearsOpen(n)
           \/ \E s \in A!Settled : Hears("result", n, s) /\ A!TakeHears(n, s)
           \/ Hears("result", n, "refused") /\ A!TakeIsRefused(n)
           \/ Hears("result", n, "error") /\ A!TakeErrs(n)
           \/ Hears("ack", n, "ok") /\ A!TakeIsAcked(n)
           \/ Hears("ack", n, "refused") /\ A!TakeIsRefused(n)
           \/ \E e \in ending :
                /\ e.node = n
                /\ \/ Hears("stop", n, "ok") /\ A!StopIsHeard(e)
                   \/ Hears("stop", n, "refused") /\ A!StopIsRefused(e)
        /\ UNCHANGED calls
     \/ /\ Hears("result", n, "unknown") /\ A!TakeHearsUnknown(n)
        /\ IF n \in stale THEN UNCHANGED calls ELSE Asks("ack", n)
  /\ UNCHANGED <<worker, serving, ended, left>>

\* peerSettled; a result nothing waits for is acknowledged with no one to hear
\* the answer.
GiverIsTold(n) ==
  /\ Hears("settled", n, "ok")
  /\ IF A!Unwaited(n)
     THEN Asks("forget", n) /\ UNCHANGED giver
     ELSE A!PeerSettled(n) /\ UNCHANGED calls
  /\ UNCHANGED <<worker, serving, ended, left>>

-----------------------------------------------------------------------------
(* The working machine.  Every request starts with requirePeerLinks. *)

WorkerRefuses(k, n) ==
  /\ ~ linked
  /\ Took(k, n)
  /\ IF k = "forget" THEN UNCHANGED back ELSE Answer(k, n, "refused", chan)
  /\ UNCHANGED <<giver, worker, serving, ended, left>>

WorkerTakesStart(n) ==
  /\ Took("start", n) /\ B!StartArrives(n)
  /\ UNCHANGED <<giver, back, serving, ended, left>>

WorkerReports(n) ==
  /\ linked
  /\ Took("result", n)
  /\ \E answer \in {B!Report(n)} \cup IF CanRefuseSend /\ B!Report(n) \in B!Settled
                                      THEN {"refused", "error"} ELSE {} :
       Answer("result", n, answer, chan)
  /\ UNCHANGED <<giver, worker, serving, ended, left>>

WorkerIsAcked(k, n) ==
  /\ k \in {"ack", "forget"} /\ linked
  /\ Took(k, n)
  /\ IF B!Report(n) \in B!Settled THEN B!ResultAcked(n) ELSE UNCHANGED worker
  /\ IF k = "ack" THEN Answer(k, n, "ok", chan) ELSE UNCHANGED back
  /\ UNCHANGED <<giver, serving, ended, left>>

WorkerTakesStop(n) ==
  /\ Took("stop", n)
  /\ IF n \in claimed
     THEN /\ B!StopArrives(n)
          /\ serving' = serving \cup {n} /\ UNCHANGED back
     ELSE /\ linked /\ UNCHANGED worker
          /\ Answer("stop", n, "ok", chan) /\ UNCHANGED serving
  /\ UNCHANGED <<giver, ended, left>>

WorkerStopSettles(n) ==
  /\ B!StopSettles(n)
  /\ serving' = serving \ {n}
  /\ IF n \in serving THEN Answer("stop", n, "ok", chan) ELSE UNCHANGED back
  /\ UNCHANGED <<giver, calls, ended, left>>

\* What a start that is not judged fit hears.
Dismissal(n) ==
  CASE B!Verdict(n) = "again" -> "ok"
    [] B!Verdict(n) = "peer-busy" -> "peer-busy"
    [] OTHER -> "refused"

WorkerJudges ==
  /\ \/ /\ B!StartDismissed
        /\ Answer("start", Head(asked).node, Dismissal(Head(asked).node), Head(asked).chan)
     \/ B!StartJudged /\ UNCHANGED back
  /\ UNCHANGED <<giver, calls, serving, ended, left>>

WorkerStarts ==
  /\ \/ (B!StartClaims \/ B!StartOpens \/ B!StartEnqueues) /\ UNCHANGED back
     \/ B!StartAbandons /\ Answer("start", start.node, "error", start.chan)
     \/ B!StartDone /\ Answer("start", start.node, "ok", start.chan)
  /\ UNCHANGED <<giver, calls, serving, ended, left>>

WorkerFailsStart ==
  /\ CanRefuse
  /\ \/ /\ B!StartRefused
        /\ \E answer \in IF start.step = "judged" THEN {"refused", "error"}
                         ELSE {"error"} :
             Answer("start", start.node, answer, start.chan)
     \/ B!StartFails /\ UNCHANGED back
  /\ UNCHANGED <<giver, calls, serving, ended, left>>

WorkerAlone(n) ==
  /\ B!AgentLeaves(n) \/ B!OweResult(n) \/ B!DeliverEnds(n) \/ B!StopEnds(n)
  /\ UNCHANGED <<giver, wire>>

AgentEnds(n) ==
  /\ \E s \in {"done", "failed"} : B!AgentEnds(n, s)
  /\ UNCHANGED <<giver, wire>>

WorkerTells(n) ==
  /\ B!DeliverTells(n) /\ Notify({n})
  /\ UNCHANGED <<giver, calls, serving, ended, left>>

\* A task this machine's own stop cancels is not told of: stoppedByPeer.
WorkerStops(n) ==
  /\ CanStop
  /\ B!PersonStops(n)
  /\ Notify(IF stopped[n] = "no" THEN {n} ELSE {})
  /\ UNCHANGED <<giver, calls, serving, ended, left>>

WorkerUnbinds ==
  /\ B!UnbindEnds
  /\ Notify(B!OpenNodes)
  /\ ended' = B!OpenNodes
  /\ UNCHANGED <<giver, calls, serving, left>>

WorkerForgets ==
  /\ \/ B!UnbindDrops /\ UNCHANGED <<back, ended>>
     \/ B!UnbindUnlinks /\ Notify(ended) /\ ended' = {}
  /\ UNCHANGED <<giver, calls, serving, left>>

-----------------------------------------------------------------------------
(* The link and the daemons.  The last channel stays, so all that the bound on *)
(* channels cuts off is what happens after it is lost. *)

Losable == chan < MaxChannels

LinkUp ==
  /\ starts \cup takes # {} \/ stops # {}
  /\ A!LinkUp /\ B!ChannelOpens
  /\ UNCHANGED wire

LinkLost ==
  /\ Losable
  /\ A!LinkLost /\ B!ChannelCloses
  /\ Silence /\ UNCHANGED <<ended, left>>

Leave ==
  /\ A!Leave
  /\ left' = (left \/ stops # {})
  /\ UNCHANGED <<worker, calls, back, serving, ended>>

GiverCrashes ==
  /\ Losable
  /\ A!Crash
  /\ IF up THEN B!ChannelCloses ELSE UNCHANGED worker
  /\ Silence /\ UNCHANGED <<ended, left>>

WorkerCrashes ==
  /\ Losable
  /\ B!Crash
  /\ IF link THEN A!LinkLost ELSE UNCHANGED giver
  /\ Silence /\ ended' = {} /\ UNCHANGED left

-----------------------------------------------------------------------------
GiverStep(n) == GiverAlone(n) \/ GiverAsks(n) \/ GiverHears(n) \/ GiverIsTold(n)

WorkerAnswers(n) ==
  \/ \E k \in {"start", "result", "ack", "stop", "forget"} : WorkerRefuses(k, n)
  \/ WorkerTakesStart(n) \/ WorkerReports(n)
  \/ \E k \in {"ack", "forget"} : WorkerIsAcked(k, n)
  \/ WorkerTakesStop(n)

WorkerStep(n) ==
  \/ WorkerAnswers(n) \/ WorkerStopSettles(n) \/ WorkerAlone(n) \/ WorkerTells(n)

Next ==
  \/ \E n \in Nodes :
       \/ GiverStep(n) \/ GiverEvent(n) \/ WorkerStep(n)
       \/ AgentEnds(n) \/ WorkerStops(n)
  \/ WorkerJudges \/ WorkerStarts \/ WorkerFailsStart \/ WorkerUnbinds \/ WorkerForgets
  \/ LinkUp \/ LinkLost \/ Leave \/ GiverCrashes \/ WorkerCrashes

Spec == Init /\ [][Next]_vars

\* Every handler, request, answer and outbox entry gets its turn, and the
\* reconnect reaches a machine work is owed to.
Fairness ==
  /\ \A n \in Nodes :
       /\ WF_vars(GiverAlone(n)) /\ WF_vars(GiverAsks(n)) /\ WF_vars(GiverHears(n))
       /\ WF_vars(GiverIsTold(n))
       /\ WF_vars(WorkerAnswers(n)) /\ WF_vars(WorkerStopSettles(n))
       /\ WF_vars(WorkerAlone(n)) /\ WF_vars(WorkerTells(n))
  /\ WF_vars(WorkerJudges) /\ WF_vars(WorkerStarts) /\ WF_vars(WorkerForgets)
  /\ WF_vars(LinkUp)

\* An agent need not end of itself: what asks for that says so.
FairSpec == Spec /\ Fairness

-----------------------------------------------------------------------------
(* Correctness of the two machines together. *)

\* What a task promises, with the task of the working machine as its run.
Promise == INSTANCE TaskPromise WITH
  ran <- task, MayGiveUp <- CanGiveUp \/ CanLeave \/ CanUnbind \/ CanRefuseSend

\* remote-tasks.ts:283-287, peer-tasks.ts:140-143: the two machines together keep
\* what a task promises: it runs once, and it is done only if its agent was.
KeepsPromise == Promise!Spec

\* remote-tasks.ts:314-316, peer-tasks.ts:574-588, 610-618: no wake-up is lost.
\* While the entry that takes the result of an open task waits over an open link,
\* and the task has settled there, word of it is under way or still to be sent.
WordComes ==
  \A n \in (takes \cap waiting) \ starts :
    link /\ given[n] = "open" /\ B!Report(n) \in A!Settled =>
      \/ \E i \in 1 .. Len(back) : back[i].kind = "settled" /\ back[i].node = n
      \/ n \in pending /\ n \in owing \cup (deliver \ told)
      \/ n \in ended

\* remote-tasks.ts:158-182, 222-228: while a start waits for a place over an open
\* link and the other machine has one, something that wakes it is still to come:
\* word that a task settled, a result to take or a stop to be heard.
PlaceComes ==
  \A n \in (starts \cap waiting) \ takes :
    link /\ Cardinality(B!OpenNodes) < MaxOpen =>
      \/ \E i \in 1 .. Len(back) : back[i].node # n
      \/ owing \cup (deliver \ told) # {}
      \/ (takes \ {n}) \cup ended # {}
      \/ \E e \in stops : e.node # n
      \/ dropping \cup {m \in Nodes : pc[m] = "heard" /\ given[m] # "open"} # {}

\* remote-tasks.ts:256, 442-445, 518-521: no agent runs on there for nobody.  An open
\* task there is one that is started or taken here, or its stop is owed, on its
\* way or at work.
NoOrphan ==
  \A n \in B!OpenNodes :
    \/ n \in starts \cup takes \cup dropping
    \/ pc[n] \in {"asked", "heard"}
    \/ [node |-> n, once |-> FALSE] \in stops
    \/ stopped[n] = "heard"

\* The two machines stay linked, no unlink is under way and no stop went with the
\* account of the giving machine.
StaysLinked == [](linked /\ unbinding = "no" /\ ~ left)

\* remote-tasks.ts:65-68: between machines that stay linked a task that was given
\* settles, if its agent ends, whatever links, places and handlers it waits for.
EventuallySettled ==
  \A n \in Nodes :
    StaysLinked /\ WF_vars(AgentEnds(n)) =>
      (given[n] = "open" ~> given[n] \in A!Settled \/ n \in lost)

\* handlers/peer.ts:93: a machine that is told its task went with the link asks
\* what became of it, so the task settles there too, unless a crash lost it.
UnlinkIsHeard ==
  \A n \in Nodes :
    WF_vars(AgentEnds(n)) =>
      (n \in ended ~> given[n] # "open" \/ n \in lost)

\* remote-tasks.ts:65-68, 477: a stop is owed until the machine heard it.  Once an
\* agent runs there, a stop that is still to be asked ends it, through every loss
\* of the link and restart of the giving machine.
StopReaches ==
  StaysLinked =>
    \A n \in Nodes :
      [node |-> n, once |-> FALSE] \in stops /\ ending = {} /\ task[n] = "open"
        ~> task[n] # "open"

\* Nothing is owed for good by the machine that gave a task that settled.
OwesNoMore ==
  StaysLinked =>
    \A n \in Nodes :
      given[n] \in A!Settled ~>
        n \notin starts \cup takes /\ \A e \in stops : e.node # n

=============================================================================
