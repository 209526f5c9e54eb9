--------------------------- MODULE DelegationProofs ---------------------------
(***************************************************************************)
(* Proof that two machines that stay linked keep what a task promises, for *)
(* any nodes, bounds and channels, and any choice of the other events; and *)
(* that no agent runs on for nobody, no wake-up is lost and no start waits *)
(* in vain for a place while tasks end by what is said of them.            *)
(***************************************************************************)
EXTENDS Delegation, FiniteSetTheorems, TLAPS

\* What is proved of each machine alone.
AP == INSTANCE RemoteTasksProofs WITH CanCrash <- CanCrashGiver
BP == INSTANCE PeerTasksProofs WITH CanCrash <- CanCrashWorker

\* What is in a sequence.
On(s) == {s[i] : i \in 1 .. Len(s)}

Word == [kind : {"start", "result", "ack", "stop", "settled"}, node : Nodes,
         answer : Answers]

Known(n) == given[n] # "none"
Ran(n) == task[n] # "none"

\* The nodes a start is asked or answered for in a sequence, and that each is once.
StartsIn(s) == {n \in Nodes : \E w \in On(s) : w.kind = "start" /\ w.node = n}
Once(s) ==
  \A i, j \in 1 .. Len(s) :
    s[i].kind = "start" /\ s[j].kind = "start" /\ s[i].node = s[j].node => i = j

\* The start of a node that is under way on the open channel: asked for, in the
\* serializer, at work or answered.
Calling == StartsIn(calls)
Waits == {n \in Nodes : [node |-> n, chan |-> chan] \in On(asked)}
Works == {n \in Nodes : start # B!Idle /\ start.node = n /\ start.chan = chan}
Answered == StartsIn(back)

OnTheWire ==
  /\ calls \in Seq(Call) /\ back \in Seq(Word)
  /\ link = up
  /\ ~ up => calls = <<>> /\ back = <<>>
  /\ \A n \in Nodes : pc[n] \in A!Linked /\ n \notin dead => link

\* Whatever is asked, waits or runs is of a task that was given.
KnownFirst ==
  /\ starts \cup giving \subseteq {n \in Nodes : Known(n)}
  /\ \A c \in On(calls) : c.kind = "start" => Known(c.node)
  /\ \A j \in On(asked) : Known(j.node)
  /\ start # B!Idle => Known(start.node)

\* An agent's node is held, and a start past its opening has a task.
Housed ==
  /\ agent \subseteq claimed
  /\ start.step \in {"opened", "enqueued", "failed"} => Ran(start.node)

\* Whatever says that a task started there is of one that did.
RanFirst ==
  /\ Housed
  /\ \A n \in takes : Ran(n)
  /\ \A n \in Nodes : pc[n] = "heard" => Ran(n)
  /\ \A c \in On(calls) : c.kind = "result" => Ran(c.node)

\* A report says what became of the task, and is refused only as a transfer is.
TrueWord(w) ==
  /\ w.kind = "start" /\ w.answer = "ok" => Ran(w.node)
  /\ w.kind = "result" =>
       /\ w.answer # "unknown"
       /\ w.answer \in A!Settled => task[w.node] = w.answer
       /\ w.answer = "refused" => CanRefuseSend
  /\ w.kind = "ack" => w.answer # "refused"

WordsTrue ==
  /\ \A w \in On(back) : TrueWord(w)
  /\ \A n \in Nodes : pc[n] = "bringing" => report[n] = task[n] /\ task[n] \in A!Settled

GivesUpWithCause ==
  \A n \in Nodes :
    /\ failing[n] = "unreached" => CanGiveUp
    /\ failing[n] = "left" => CanLeave

\* The serializer takes what the earlier channel brought first.
InOrder ==
  /\ \A i, j \in 1 .. Len(asked) :
       /\ asked[i].chan <= chan
       /\ i < j => asked[i].chan <= asked[j].chan
       /\ asked[i] = asked[j] => i = j
  /\ start # B!Idle =>
       /\ start.chan <= chan
       /\ \A i \in 1 .. Len(asked) : start.chan <= asked[i].chan

\* A machine that asks for a start asks once on a channel, and hears one answer.
OneStart ==
  /\ Once(calls) /\ Once(back)
  /\ Calling \cap (Waits \cup Works \cup Answered) = {}
  /\ Waits \cap (Works \cup Answered) = {}
  /\ Works \cap Answered = {}
  /\ up => \A n \in Calling \cup Waits \cup Works \cup Answered :
             pc[n] = "asked" /\ n \notin dead

\* A start that is refused did not start, and no other try of it is under way.
RefusedNeverRan ==
  \A w \in On(back) : w.kind = "start" /\ w.answer = "refused" =>
    /\ ~ Ran(w.node)
    /\ \A j \in On(asked) : j.node # w.node
    /\ start # B!Idle => start.node # w.node

WireInv ==
  /\ OnTheWire /\ KnownFirst /\ RanFirst /\ WordsTrue /\ GivesUpWithCause
  /\ InOrder /\ OneStart /\ RefusedNeverRan

-----------------------------------------------------------------------------
(* Each machine takes its own steps. *)

LEMMA SameGiver == (A!Init <=> AP!Init) /\ (A!Next <=> AP!Next)
BY DEF A!Init, AP!Init,
   A!vars, A!disk, A!carried, A!lane, A!stopLane, A!aside, A!Settled, A!StartSteps,
   A!TakeSteps, A!Linked, A!Asking, A!Stops, A!Running, A!Ready, A!To, A!Returns,
   A!ReturnsAndWakes, A!Wake, A!OtherStarts, A!FailTask, A!OweStopTo, A!GiveOpens,
   A!GiveOwes, A!StartIsMoot, A!StartWaitsForLink, A!StartSends, A!MarkSent,
   A!StartMarks, A!StartIsDropped, A!StartAsks, A!StartHears, A!StartIsHeard,
   A!StartCloses, A!StartBreaks, A!StartIsPutOff, A!StartIsRefused, A!StartErrs,
   A!TakeWaitsForLink, A!TakeAsks, A!TakeHearsOpen, A!TakeHearsUnknown, A!TakeHears,
   A!Outcome, A!TakeSettles, A!TakeIsStale, A!TakeIsAcked, A!TakeBreaks,
   A!TakeIsRefused, A!TakeErrs, A!Unwaited, A!PeerSettled, A!StopLeaves, A!StopAsks,
   A!StopUnheard, A!StopHasNoLink, A!StopIsHeard, A!StopIsRefused, A!StopExpires,
   A!Cancel, A!CancelOwes, A!GiveUpDrops, A!GiveUpFails, A!ForgetStops, A!Leave,
   A!LeaveFails, A!LinkLost, A!WakeOwed, A!LinkUp, A!Crash, A!StartStep,
   A!StartAnswer, A!TakeStep, A!TakeAnswer, A!Outside, A!StopStep, A!StopAnswer,
   A!Next, AP!vars, AP!disk, AP!carried, AP!lane, AP!stopLane, AP!aside, AP!Settled,
   AP!StartSteps, AP!TakeSteps, AP!Linked, AP!Asking, AP!Stops, AP!Running, AP!Ready,
   AP!To, AP!Returns, AP!ReturnsAndWakes, AP!Wake, AP!OtherStarts, AP!FailTask,
   AP!OweStopTo, AP!GiveOpens, AP!GiveOwes, AP!StartIsMoot, AP!StartWaitsForLink,
   AP!StartSends, AP!MarkSent, AP!StartMarks, AP!StartIsDropped, AP!StartAsks,
   AP!StartHears, AP!StartIsHeard, AP!StartCloses, AP!StartBreaks, AP!StartIsPutOff,
   AP!StartIsRefused, AP!StartErrs, AP!TakeWaitsForLink, AP!TakeAsks,
   AP!TakeHearsOpen, AP!TakeHearsUnknown, AP!TakeHears, AP!Outcome, AP!TakeSettles,
   AP!TakeIsStale, AP!TakeIsAcked, AP!TakeBreaks, AP!TakeIsRefused, AP!TakeErrs,
   AP!Unwaited, AP!PeerSettled, AP!StopLeaves, AP!StopAsks, AP!StopUnheard,
   AP!StopHasNoLink, AP!StopIsHeard, AP!StopIsRefused, AP!StopExpires, AP!Cancel,
   AP!CancelOwes, AP!GiveUpDrops, AP!GiveUpFails, AP!ForgetStops, AP!Leave,
   AP!LeaveFails, AP!LinkLost, AP!WakeOwed, AP!LinkUp, AP!Crash, AP!StartStep,
   AP!StartAnswer, AP!TakeStep, AP!TakeAnswer, AP!Outside, AP!StopStep, AP!StopAnswer,
   AP!Next

LEMMA SameWorker == (B!Init <=> BP!Init) /\ (B!Next <=> BP!Next)
BY DEF B!Init, BP!Init,
   B!vars, B!Settled, B!Status, B!Channels, B!Jobs, B!StartSteps, B!Idle, B!OpenNodes,
   B!Again, B!Taken, B!Full, B!Verdict, B!Report, B!ReleaseHolds, B!SettleDelivery,
   B!ChannelOpens, B!ChannelCloses, B!StartArrives, B!StartDismissed, B!StartJudged,
   B!Untasked, B!StartRefused, B!StartClaims, B!StartOpens, B!StartEnqueues,
   B!StartDone, B!StartFails, B!StartAbandons, B!AgentEnds, B!AgentLeaves,
   B!PersonStops, B!OweResult, B!DeliverTells, B!DeliverEnds, B!ResultAcked,
   B!StopArrives, B!StopEnds, B!StopSettles, B!UnbindEnds, B!UnbindDrops,
   B!UnbindUnlinks, B!Bind, B!Recover, B!Crash, B!StartStep, B!NodeStep, B!LinkStep,
   B!Next, BP!vars, BP!Settled, BP!Status, BP!Channels, BP!Jobs, BP!StartSteps,
   BP!Idle, BP!OpenNodes, BP!Again, BP!Taken, BP!Full, BP!Verdict, BP!Report,
   BP!ReleaseHolds, BP!SettleDelivery, BP!ChannelOpens, BP!ChannelCloses,
   BP!StartArrives, BP!StartDismissed, BP!StartJudged, BP!Untasked, BP!StartRefused,
   BP!StartClaims, BP!StartOpens, BP!StartEnqueues, BP!StartDone, BP!StartFails,
   BP!StartAbandons, BP!AgentEnds, BP!AgentLeaves, BP!PersonStops, BP!OweResult,
   BP!DeliverTells, BP!DeliverEnds, BP!ResultAcked, BP!StopArrives, BP!StopEnds,
   BP!StopSettles, BP!UnbindEnds, BP!UnbindDrops, BP!UnbindUnlinks, BP!Bind,
   BP!Recover, BP!Crash, BP!StartStep, BP!NodeStep, BP!LinkStep, BP!Next

LEMMA GiverMoves == [Next]_vars => [AP!Next]_AP!vars
<1> SUFFICES ASSUME Next PROVE A!Next \/ UNCHANGED giver
  BY SameGiver DEF vars, giver, AP!vars
<1>1. ASSUME NEW n \in Nodes, GiverAlone(n) PROVE A!Next
  BY <1>1 DEF GiverAlone, A!Next, A!StartStep, A!TakeStep, A!Outside, A!StopStep
<1>2. ASSUME NEW n \in Nodes, GiverEvent(n) PROVE A!Next
  BY <1>2 DEF GiverEvent, A!Next, A!StartAnswer, A!Outside, A!StopStep
<1>3. ASSUME NEW n \in Nodes, GiverAsks(n) PROVE A!Next
  BY <1>3 DEF GiverAsks, A!Next, A!StartStep, A!TakeStep, A!StopStep
<1>4. ASSUME NEW n \in Nodes, GiverHears(n) PROVE A!Next
  BY <1>4 DEF GiverHears, A!Next, A!StartAnswer, A!TakeAnswer, A!StopAnswer
<1>5. ASSUME NEW n \in Nodes, GiverIsTold(n) PROVE A!Next \/ UNCHANGED giver
  BY <1>5 DEF GiverIsTold, A!Next
<1>6. ASSUME NEW n \in Nodes, WorkerStep(n) \/ AgentEnds(n) \/ WorkerStops(n)
      PROVE UNCHANGED giver
  BY <1>6 DEF WorkerStep, WorkerAnswers, WorkerRefuses, WorkerTakesStart, WorkerReports,
     WorkerIsAcked, WorkerTakesStop, WorkerStopSettles, WorkerAlone, WorkerTells,
     AgentEnds, WorkerStops
<1>7. CASE WorkerJudges \/ WorkerStarts \/ WorkerFailsStart \/ WorkerUnbinds \/ WorkerForgets
  BY <1>7 DEF WorkerJudges, WorkerStarts, WorkerFailsStart, WorkerUnbinds, WorkerForgets
<1>8. CASE LinkUp \/ LinkLost \/ Leave \/ GiverCrashes \/ WorkerCrashes
  BY <1>8 DEF LinkUp, LinkLost, Leave, GiverCrashes, WorkerCrashes, A!Next
<1> QED
  BY <1>1, <1>2, <1>3, <1>4, <1>5, <1>6, <1>7, <1>8 DEF Next, GiverStep

LEMMA WorkerMoves == [Next]_vars => [BP!Next]_BP!vars
<1> SUFFICES ASSUME Next PROVE B!Next \/ UNCHANGED worker
  BY SameWorker DEF vars, worker, BP!vars
<1>1. ASSUME NEW n \in Nodes, GiverStep(n) \/ GiverEvent(n) PROVE UNCHANGED worker
  BY <1>1 DEF GiverStep, GiverAlone, GiverAsks, GiverHears, GiverIsTold, GiverEvent
<1>2. ASSUME NEW n \in Nodes, WorkerStep(n) PROVE B!Next \/ UNCHANGED worker
  BY <1>2 DEF WorkerStep, WorkerAnswers, WorkerRefuses, WorkerTakesStart, WorkerReports,
     WorkerIsAcked, WorkerTakesStop, WorkerStopSettles, WorkerAlone, WorkerTells,
     B!Next, B!NodeStep
<1>3. ASSUME NEW n \in Nodes, AgentEnds(n) \/ WorkerStops(n) PROVE B!Next
  BY <1>3 DEF AgentEnds, WorkerStops, B!Next, B!NodeStep
<1>4. CASE WorkerJudges \/ WorkerStarts \/ WorkerFailsStart
  BY <1>4 DEF WorkerJudges, WorkerStarts, WorkerFailsStart, B!Next, B!StartStep
<1>5. CASE WorkerUnbinds \/ WorkerForgets
  BY <1>5 DEF WorkerUnbinds, WorkerForgets, B!Next, B!LinkStep
<1>6. CASE LinkUp \/ LinkLost \/ Leave \/ GiverCrashes \/ WorkerCrashes
  BY <1>6 DEF LinkUp, LinkLost, Leave, GiverCrashes, WorkerCrashes, B!Next
<1> QED
  BY <1>1, <1>2, <1>3, <1>4, <1>5, <1>6 DEF Next

LEMMA Events ==
  /\ BP!IsFiniteSet(Nodes) /\ MaxOpen \in Nat \ {0} /\ MaxChannels \in Nat
  /\ CanUnbind \in BOOLEAN /\ CanGiveUp \in BOOLEAN /\ CanLeave \in BOOLEAN
  /\ CanCrashGiver \in BOOLEAN /\ CanCrashWorker \in BOOLEAN
BY NodesAssumption, BoundsAssumption, EventsAssumption DEF IsFiniteSet, BP!IsFiniteSet

\* What is proved of each machine holds of it here.
LEMMA MachinesHold ==
  ASSUME CanUnbind = FALSE
  PROVE  Spec => []AP!OwedInv /\ []BP!Lasting
<1>1. Spec => AP!Spec
  <2>1. Init => AP!Init
    BY SameGiver DEF Init
  <2> QED
    BY <2>1, GiverMoves, PTL DEF Spec, AP!Spec
<1>2. Spec => BP!Spec
  <2>1. Init => BP!Init
    BY SameWorker DEF Init
  <2> QED
    BY <2>1, WorkerMoves, PTL DEF Spec, BP!Spec
<1>3. AP!Spec => []AP!OwedInv
  BY AP!OwedInductive, Events
<1>4. BP!Spec => []BP!Lasting
  BY BP!LinkedLasts, Events
<1> QED
  BY <1>1, <1>2, <1>3, <1>4, PTL

-----------------------------------------------------------------------------
(* What is in a sequence. *)

LEMMA OnAppend ==
  ASSUME NEW S, NEW s \in Seq(S), NEW e \in S
  PROVE  /\ Append(s, e) \in Seq(S)
         /\ On(Append(s, e)) = On(s) \cup {e}
<1>1. Append(s, e) \in Seq(S) /\ Len(Append(s, e)) = Len(s) + 1
  OBVIOUS
<1>2. \A i \in 1 .. Len(s) + 1 :
        Append(s, e)[i] = IF i = Len(s) + 1 THEN e ELSE s[i]
  OBVIOUS
<1>3. Len(s) \in Nat
  OBVIOUS
<1>4. On(Append(s, e)) \subseteq On(s) \cup {e}
  BY <1>1, <1>2, <1>3 DEF On
<1>5. On(s) \cup {e} \subseteq On(Append(s, e))
  BY <1>1, <1>2, <1>3 DEF On
<1> QED
  BY <1>1, <1>4, <1>5

LEMMA OnTail ==
  ASSUME NEW S, NEW s \in Seq(S), s # <<>>
  PROVE  /\ Tail(s) \in Seq(S) /\ Len(Tail(s)) = Len(s) - 1 /\ Len(s) >= 1
         /\ Head(s) \in On(s) /\ Head(s) \in S /\ On(Tail(s)) \subseteq On(s)
         /\ Head(s) = s[1] /\ \A i \in 1 .. Len(Tail(s)) : Tail(s)[i] = s[i + 1]
<1>1. Len(s) \in Nat /\ Len(s) >= 1 /\ Head(s) = s[1]
  OBVIOUS
<1>2. Tail(s) \in Seq(S) /\ Len(Tail(s)) = Len(s) - 1
  OBVIOUS
<1>3. \A i \in 1 .. Len(Tail(s)) : Tail(s)[i] = s[i + 1]
  BY <1>1, <1>2
<1>4. Head(s) \in On(s)
  BY <1>1 DEF On
<1>5. Head(s) \in S
  BY <1>1
<1>6. On(Tail(s)) \subseteq On(s)
  BY <1>1, <1>2, <1>3 DEF On
<1> QED
  BY <1>1, <1>2, <1>3, <1>4, <1>5, <1>6

LEMMA OnIsIn == ASSUME NEW S, NEW s \in Seq(S) PROVE On(s) \subseteq S
BY DEF On

LEMMA OnNothing == On(<<>>) = {}
BY DEF On

-----------------------------------------------------------------------------
(* What a step of the giving machine may do to what the wire relies on. *)

\* A node whose handler hears no answer to a start and no report.
Deaf(n) ==
  /\ pc'[n] = "heard" => pc[n] = "heard"
  /\ pc'[n] = "bringing" => pc[n] = "bringing" /\ report'[n] = report[n]
  /\ pc[n] = "asked" /\ n \notin dead /\ link' => pc'[n] = "asked" /\ n \notin dead'

\* What every step of the giving machine keeps.
GiverKeeps ==
  /\ \A n \in Nodes : Known(n) => Known(n)'
  /\ \A n \in takes' : n \in takes \/ pc[n] = "heard"
  /\ GivesUpWithCause => GivesUpWithCause'
  /\ (\A n \in Nodes : pc[n] \in A!Linked /\ n \notin dead => link) =>
       \A n \in Nodes : pc'[n] \in A!Linked /\ n \notin dead' => link'

LEMMA GiverStepsKeep == AP!OwedInv /\ [AP!Next]_AP!vars => GiverKeeps
<1> SUFFICES ASSUME AP!TypeOK, [A!Next]_giver PROVE GiverKeeps
  BY SameGiver DEF AP!OwedInv, AP!vars, giver
<1> USE DEF AP!TypeOK, GiverKeeps, Known, GivesUpWithCause, AP!Settled, AP!StartSteps,
            AP!TakeSteps, A!Linked, A!TakeSteps, A!Settled,
            A!disk, A!lane, A!carried, A!stopLane, A!aside, A!To, A!Returns,
            A!ReturnsAndWakes, A!Wake, A!OtherStarts, A!Running, A!FailTask, A!OweStopTo,
            A!MarkSent, A!Outcome, A!StopLeaves, A!StopUnheard, A!ForgetStops, A!WakeOwed,
            A!Ready
<1>1. ASSUME NEW n \in Nodes, A!StartStep(n) PROVE GiverKeeps
  <2>1. CASE A!StartIsMoot(n) \/ A!StartWaitsForLink(n) \/ A!StartSends(n)
    BY <2>1 DEF A!StartIsMoot, A!StartWaitsForLink, A!StartSends
  <2>2. CASE A!StartMarks(n) \/ A!StartIsDropped(n) \/ A!StartAsks(n)
    BY <2>2 DEF A!StartMarks, A!StartIsDropped, A!StartAsks
  <2>3. CASE A!StartIsHeard(n)
    BY <2>3 DEF A!StartIsHeard
  <2>4. CASE A!StartCloses(n)
    BY <2>4 DEF A!StartCloses
  <2>5. CASE A!StartBreaks(n)
    BY <2>5 DEF A!StartBreaks
  <2> QED
    BY <1>1, <2>1, <2>2, <2>3, <2>4, <2>5 DEF A!StartStep
<1>2. ASSUME NEW n \in Nodes, A!StartAnswer(n) PROVE GiverKeeps
  <2>1. CASE A!StartHears(n) \/ A!StartErrs(n)
    BY <2>1 DEF A!StartHears, A!StartErrs
  <2>2. CASE A!StartIsPutOff(n)
    BY <2>2 DEF A!StartIsPutOff
  <2>3. CASE A!StartIsRefused(n)
    BY <2>3 DEF A!StartIsRefused
  <2> QED
    BY <1>2, <2>1, <2>2, <2>3 DEF A!StartAnswer
<1>3. ASSUME NEW n \in Nodes, A!TakeStep(n) PROVE GiverKeeps
  <2>1. CASE A!TakeWaitsForLink(n) \/ A!TakeAsks(n) \/ A!TakeSettles(n)
    BY <2>1 DEF A!TakeWaitsForLink, A!TakeAsks, A!TakeSettles
  <2>2. CASE A!TakeIsStale(n) \/ A!TakeBreaks(n)
    BY <2>2 DEF A!TakeIsStale, A!TakeBreaks
  <2> QED
    BY <1>3, <2>1, <2>2 DEF A!TakeStep
<1>4. ASSUME NEW n \in Nodes, A!TakeAnswer(n) PROVE GiverKeeps
  <2>1. CASE A!TakeHearsOpen(n) \/ A!TakeHearsUnknown(n) \/ A!TakeErrs(n)
    BY <2>1 DEF A!TakeHearsOpen, A!TakeHearsUnknown, A!TakeErrs
  <2>2. ASSUME NEW s \in A!Settled, A!TakeHears(n, s) PROVE GiverKeeps
    BY <2>2 DEF A!TakeHears
  <2>3. CASE A!TakeIsAcked(n) \/ A!TakeIsRefused(n)
    BY <2>3 DEF A!TakeIsAcked, A!TakeIsRefused
  <2> QED
    BY <1>4, <2>1, <2>2, <2>3 DEF A!TakeAnswer
<1>5. ASSUME NEW n \in Nodes, A!PeerSettled(n) PROVE GiverKeeps
  BY <1>5 DEF A!PeerSettled
<1>6. ASSUME NEW n \in Nodes, A!Outside(n) PROVE GiverKeeps
  <2>1. CASE A!GiveOpens(n) \/ A!GiveOwes(n) \/ A!Cancel(n) \/ A!CancelOwes(n)
    BY <2>1 DEF A!GiveOpens, A!GiveOwes, A!Cancel, A!CancelOwes
  <2>2. CASE A!GiveUpDrops(n) \/ A!GiveUpFails(n) \/ A!LeaveFails(n)
    BY <2>2 DEF A!GiveUpDrops, A!GiveUpFails, A!LeaveFails
  <2> QED
    BY <1>6, <2>1, <2>2 DEF A!Outside
<1>7. ASSUME NEW e \in stops \cup ending, A!StopStep(e) \/ A!StopAnswer(e) PROVE GiverKeeps
  BY <1>7 DEF A!StopStep, A!StopAnswer, A!StopAsks, A!StopHasNoLink, A!StopExpires,
     A!StopIsHeard, A!StopIsRefused
<1>8. CASE A!Leave
  BY <1>8 DEF A!Leave
<1>9. CASE A!LinkLost
  BY <1>9 DEF A!LinkLost
<1>10. CASE A!LinkUp
  BY <1>10 DEF A!LinkUp
<1>11. CASE A!Crash
  BY <1>11 DEF A!Crash
<1>12. CASE UNCHANGED giver
  BY <1>12 DEF giver
<1> QED
  BY <1>1, <1>2, <1>3, <1>4, <1>5, <1>6, <1>7, <1>8, <1>9, <1>10, <1>11, <1>12 DEF A!Next

LEMMA GiverIsDeaf ==
  ASSUME AP!TypeOK, NEW n \in Nodes, NEW m \in Nodes,
         GiverAlone(n) \/ GiverEvent(n) \/ GiverAsks(n) \/ GiverIsTold(n)
  PROVE  Deaf(m)
<1> USE DEF AP!TypeOK, Deaf, AP!StartSteps, AP!TakeSteps, A!disk, A!lane, A!carried,
            A!stopLane, A!aside, A!To, A!Returns, A!ReturnsAndWakes, A!Wake
<1>1. CASE GiverAlone(n)
  <2>1. CASE A!StartIsMoot(n) \/ A!StartWaitsForLink(n) \/ A!StartSends(n)
             \/ A!StartMarks(n) \/ A!StartIsDropped(n) \/ A!StartIsHeard(n)
    BY <2>1 DEF A!StartIsMoot, A!StartWaitsForLink, A!StartSends, A!StartMarks,
       A!StartIsDropped, A!StartIsHeard, A!Ready
  <2>2. CASE A!StartCloses(n) \/ A!StartBreaks(n)
    BY <2>2 DEF A!StartCloses, A!StartBreaks
  <2>3. CASE A!TakeWaitsForLink(n) \/ A!TakeIsStale(n) \/ A!TakeBreaks(n)
    BY <2>3 DEF A!TakeWaitsForLink, A!TakeIsStale, A!TakeBreaks, A!TakeSteps
  <2>4. CASE A!GiveOwes(n) \/ A!CancelOwes(n) \/ A!GiveUpFails(n) \/ A!LeaveFails(n)
    BY <2>4 DEF A!GiveOwes, A!CancelOwes, A!GiveUpFails, A!LeaveFails
  <2>5. ASSUME NEW e, A!StopHasNoLink(e) PROVE Deaf(m)
    BY <2>5 DEF A!StopHasNoLink
  <2> QED
    BY <1>1, <2>1, <2>2, <2>3, <2>4, <2>5 DEF GiverAlone
<1>2. CASE GiverEvent(n)
  <2>1. CASE A!GiveOpens(n) \/ A!Cancel(n) \/ A!GiveUpDrops(n)
    BY <2>1 DEF A!GiveOpens, A!Cancel, A!GiveUpDrops
  <2>2. ASSUME NEW e, A!StopExpires(e) PROVE Deaf(m)
    BY <2>2 DEF A!StopExpires
  <2>3. CASE pc[n] = "sending" /\ (A!StartIsPutOff(n) \/ A!StartIsRefused(n) \/ A!StartErrs(n))
    BY <2>3 DEF A!StartIsPutOff, A!StartIsRefused, A!StartErrs
  <2> QED
    BY <1>2, <2>1, <2>2, <2>3 DEF GiverEvent
<1>3. CASE GiverAsks(n)
  <2>1. CASE A!StartAsks(n) \/ A!TakeAsks(n) \/ A!TakeSettles(n)
    BY <2>1 DEF A!StartAsks, A!TakeAsks, A!TakeSettles, A!Ready
  <2>2. ASSUME NEW e, A!StopAsks(e) PROVE Deaf(m)
    BY <2>2 DEF A!StopAsks
  <2> QED
    BY <1>3, <2>1, <2>2 DEF GiverAsks
<1>4. CASE GiverIsTold(n)
  BY <1>4 DEF GiverIsTold, A!PeerSettled, giver
<1> QED
  BY <1>1, <1>2, <1>3, <1>4

\* An answer is heard by the node it is for.
LEMMA OthersAreDeaf ==
  ASSUME AP!TypeOK, NEW n \in Nodes, GiverHears(n), NEW m \in Nodes, m # n
  PROVE  Deaf(m)
<1> USE DEF AP!TypeOK, Deaf, A!disk, A!lane, A!carried, A!stopLane, A!aside, A!To,
            A!Returns, A!ReturnsAndWakes, A!Wake
<1>1. CASE A!StartHears(n) \/ A!StartIsPutOff(n) \/ A!StartIsRefused(n) \/ A!StartErrs(n)
  BY <1>1 DEF A!StartHears, A!StartIsPutOff, A!StartIsRefused, A!StartErrs
<1>2. CASE A!TakeHearsOpen(n) \/ A!TakeIsRefused(n) \/ A!TakeErrs(n) \/ A!TakeIsAcked(n)
  BY <1>2 DEF A!TakeHearsOpen, A!TakeIsRefused, A!TakeErrs, A!TakeIsAcked
<1>3. ASSUME NEW s, A!TakeHears(n, s) PROVE Deaf(m)
  BY <1>3 DEF A!TakeHears
<1>4. CASE A!TakeHearsUnknown(n)
  BY <1>4 DEF A!TakeHearsUnknown
<1>5. ASSUME NEW e, A!StopIsHeard(e) \/ A!StopIsRefused(e) PROVE Deaf(m)
  BY <1>5 DEF A!StopIsHeard, A!StopIsRefused
<1> QED
  BY <1>1, <1>2, <1>3, <1>4, <1>5 DEF GiverHears

-----------------------------------------------------------------------------
(* What a step of the working machine may do to what the wire relies on. *)

WorkerKeeps ==
  /\ \A n \in Nodes : Ran(n) => Ran(n)'
  /\ \A n \in Nodes : task[n] \in A!Settled => task'[n] = task[n]
  /\ Housed => Housed'

LEMMA StartsInStep ==
  ASSUME BP!TypeOK, start # B!Idle
  PROVE  /\ start.node \in Nodes /\ start.chan \in 1 .. MaxChannels
         /\ start.step \in B!StartSteps
         /\ \A s : /\ [start EXCEPT !.step = s].step = s
                   /\ [start EXCEPT !.step = s].node = start.node
                   /\ [start EXCEPT !.step = s].chan = start.chan
                   /\ s # "idle" => [start EXCEPT !.step = s] # B!Idle
<1>1. start \in [node : Nodes, chan : 1 .. MaxChannels, step : B!StartSteps]
  BY DEF BP!TypeOK, B!Idle, BP!Idle, BP!Channels, BP!StartSteps, B!StartSteps
<1> QED
  BY <1>1 DEF B!Idle

LEMMA IdleStep == B!Idle.step = "idle"
BY DEF B!Idle

LEMMA WorkerStepsKeep ==
  ASSUME CanUnbind = FALSE, BP!Lasting, [BP!Next]_BP!vars
  PROVE  WorkerKeeps
<1>0. [B!Next]_worker
  BY SameWorker DEF BP!vars, worker
<1> USE DEF BP!Lasting, BP!TypeOK, BP!Status, BP!Settled, A!Settled, WorkerKeeps, Housed, Ran
<1>1. CASE B!StartStep
  <2>1. CASE B!StartDismissed \/ B!StartRefused \/ B!StartDone \/ B!StartAbandons
    <3>1. CASE B!StartDismissed
      BY <3>1 DEF B!StartDismissed
    <3>2. CASE B!StartRefused
      BY <3>2, IdleStep DEF B!StartRefused
    <3>3. CASE B!StartDone
      BY <3>3, IdleStep DEF B!StartDone
    <3>4. CASE B!StartAbandons
      BY <3>4, IdleStep DEF B!StartAbandons
    <3> QED
      BY <2>1, <3>1, <3>2, <3>3, <3>4
  <2>2. CASE B!StartJudged
    <3>1. start'.step = "judged"
      BY <2>2 DEF B!StartJudged
    <3> QED
      BY <2>2, <3>1 DEF B!StartJudged
  <2>3. ASSUME start # B!Idle, B!StartClaims \/ B!StartOpens \/ B!StartEnqueues \/ B!StartFails
        PROVE WorkerKeeps
    <3> DEFINE m == start.node
    <3>1. /\ m \in Nodes /\ start.step \in B!StartSteps
          /\ \A s : /\ [start EXCEPT !.step = s].step = s
                    /\ [start EXCEPT !.step = s].node = m
      BY <2>3, StartsInStep
    <3>2. CASE B!StartClaims
      <4>1. start'.step = "claimed" /\ start'.node = m
        BY <3>1, <3>2 DEF B!StartClaims
      <4> QED
        BY <3>1, <3>2, <4>1 DEF B!StartClaims
    <3>3. CASE B!StartOpens
      <4>1. start'.step = "opened" /\ start'.node = m /\ task' = [task EXCEPT ![m] = "open"]
            /\ task[m] = "none"
        BY <3>1, <3>3 DEF B!StartOpens
      <4> QED
        BY <3>1, <3>3, <4>1 DEF B!StartOpens
    <3>4. CASE B!StartEnqueues
      <4>1. start'.step = "enqueued" /\ start'.node = m /\ agent' = agent \cup {m}
        BY <3>1, <3>4 DEF B!StartEnqueues
      <4> QED
        BY <3>1, <3>4, <4>1 DEF B!StartEnqueues
    <3>5. CASE B!StartFails
      <4>1. /\ start'.step = "failed" /\ start'.node = m
            /\ start.step \in {"opened", "enqueued"}
            /\ agent' = agent /\ claimed' = claimed
            /\ \/ task[m] = "open" /\ task' = [task EXCEPT ![m] = "failed"]
               \/ task' = task
        BY <3>1, <3>5 DEF B!StartFails
      <4> QED
        BY <3>1, <4>1
    <3> QED
      BY <2>3, <3>2, <3>3, <3>4, <3>5
  <2>4. start = B!Idle => ~ (B!StartClaims \/ B!StartOpens \/ B!StartEnqueues \/ B!StartFails)
    BY IdleStep DEF B!StartClaims, B!StartOpens, B!StartEnqueues, B!StartFails
  <2> QED
    BY <1>1, <2>1, <2>2, <2>3, <2>4 DEF B!StartStep
<1>2. ASSUME NEW n \in Nodes, B!NodeStep(n) PROVE WorkerKeeps
  <2>1. ASSUME NEW s \in {"done", "failed"}, B!AgentEnds(n, s) PROVE WorkerKeeps
    BY <2>1, StartsInStep, IdleStep DEF B!AgentEnds
  <2>2. CASE B!PersonStops(n) \/ B!StopEnds(n)
    <3>1. /\ start' = start /\ claimed' = claimed /\ agent' \subseteq agent
          /\ \/ task[n] = "open" /\ task' = [task EXCEPT ![n] = "cancelled"]
             \/ task' = task
      BY <2>2 DEF B!PersonStops, B!StopEnds
    <3> QED
      BY <3>1, StartsInStep, IdleStep
  <2>3. CASE B!StartArrives(n) \/ B!AgentLeaves(n) \/ B!OweResult(n) \/ B!DeliverTells(n)
             \/ B!DeliverEnds(n) \/ B!ResultAcked(n) \/ B!StopArrives(n) \/ B!StopSettles(n)
    BY <2>3 DEF B!StartArrives, B!AgentLeaves, B!OweResult, B!DeliverTells, B!DeliverEnds,
       B!ResultAcked, B!StopArrives, B!StopSettles
  <2> QED
    BY <1>2, <2>1, <2>2, <2>3 DEF B!NodeStep
<1>3. CASE B!LinkStep
  BY <1>3 DEF B!LinkStep, B!UnbindEnds, B!UnbindDrops, B!UnbindUnlinks, B!Bind
<1>4. CASE B!ChannelOpens \/ B!ChannelCloses
  BY <1>4 DEF B!ChannelOpens, B!ChannelCloses
<1>5. CASE B!Crash
  BY <1>5, IdleStep DEF B!Crash
<1>6. CASE UNCHANGED worker
  BY <1>6 DEF worker
<1> QED
  BY <1>0, <1>1, <1>2, <1>3, <1>4, <1>5, <1>6 DEF B!Next

-----------------------------------------------------------------------------
(* What may be on the wire after a step. *)

LEMMA OneInOrder == ASSUME NEW n PROVE Cardinality({n}) = 1 /\ SetToSeq({n})[1] = n
<1>1. Cardinality({n}) = 1
  BY FS_Singleton
<1>2. [i \in 1 .. 1 |-> n] \in [1 .. 1 -> {n}] /\ IsInjective([i \in 1 .. 1 |-> n])
  BY DEF IsInjective
<1>3. SetToSeq({n}) \in [1 .. 1 -> {n}]
  BY <1>1, <1>2 DEF SetToSeq
<1> QED
  BY <1>1, <1>3

LEMMA Joined ==
  ASSUME NEW S, NEW s \in Seq(S), NEW m \in {0, 1}, NEW f \in [1 .. m -> S]
  PROVE  s \o f = IF m = 1 THEN Append(s, f[1]) ELSE s
<1>1. f \in Seq(S) /\ Len(f) = m
  OBVIOUS
<1> QED
  BY <1>1

LEMMA NotifyOne ==
  ASSUME NEW n \in Nodes, Notify({n}), back \in Seq(Word)
  PROVE  back' = IF up THEN Append(back, [kind |-> "settled", node |-> n, answer |-> "ok"])
                 ELSE back
<1> DEFINE words == [i \in 1 .. 1 |->
                      [kind |-> "settled", node |-> SetToSeq({n})[i], answer |-> "ok"]]
<1>1. words \in [1 .. 1 -> Word] /\ words[1] = [kind |-> "settled", node |-> n, answer |-> "ok"]
  <2>1. [kind |-> "settled", node |-> n, answer |-> "ok"] \in Word
    BY DEF Word, Answers
  <2>2. \A i \in 1 .. 1 : SetToSeq({n})[i] = n
    <3>1. SetToSeq({n})[1] = n
      BY OneInOrder
    <3> QED
      BY <3>1
  <2>3. \A i \in 1 .. 1 :
          words[i] = [kind |-> "settled", node |-> n, answer |-> "ok"]
    BY <2>2
  <2> QED
    BY <2>1, <2>3
<1>2. back' = IF up THEN back \o words ELSE back
  BY OneInOrder DEF Notify
<1> HIDE DEF words
<1> QED
  BY <1>1, <1>2, Joined

LEMMA NotifyNone ==
  ASSUME Notify({}), back \in Seq(Word)
  PROVE  back' = back
<1> DEFINE words == [i \in 1 .. 0 |->
                      [kind |-> "settled", node |-> SetToSeq({})[i], answer |-> "ok"]]
<1>1. words \in [1 .. 0 -> Word]
  OBVIOUS
<1>2. back' = IF up THEN back \o words ELSE back
  BY FS_EmptySet DEF Notify
<1> HIDE DEF words
<1> QED
  BY <1>1, <1>2, Joined

LEMMA StartsAppend ==
  ASSUME NEW S, NEW s \in Seq(S), NEW e \in S
  PROVE  /\ \A n \in StartsIn(Append(s, e)) :
              n \in StartsIn(s) \/ (e.kind = "start" /\ n = e.node)
         /\ Once(s) /\ e.node \in Nodes /\ (e.kind = "start" => e.node \notin StartsIn(s))
              => Once(Append(s, e))
<1>1. On(Append(s, e)) = On(s) \cup {e}
  BY OnAppend
<1>2. \A n \in StartsIn(Append(s, e)) : n \in StartsIn(s) \/ (e.kind = "start" /\ n = e.node)
  BY <1>1 DEF StartsIn
<1>3. ASSUME Once(s), e.node \in Nodes, e.kind = "start" => e.node \notin StartsIn(s)
      PROVE  Once(Append(s, e))
  <2>1. Len(s) \in Nat /\ Len(Append(s, e)) = Len(s) + 1
    OBVIOUS
  <2>2. \A i \in 1 .. Len(s) : Append(s, e)[i] = s[i]
    OBVIOUS
  <2>3. Append(s, e)[Len(s) + 1] = e
    OBVIOUS
  <2>4. e.kind = "start" => \A i \in 1 .. Len(s) : ~ (s[i].kind = "start" /\ s[i].node = e.node)
    BY <1>3 DEF StartsIn, On
  <2> QED
    BY <1>3, <2>1, <2>2, <2>3, <2>4 DEF Once
<1> QED
  BY <1>2, <1>3

LEMMA StartsTail ==
  ASSUME NEW S, NEW s \in Seq(S), s # <<>>
  PROVE  /\ StartsIn(Tail(s)) \subseteq StartsIn(s)
         /\ Head(s).kind = "start" /\ Head(s).node \in Nodes => Head(s).node \in StartsIn(s)
         /\ Once(s) => /\ Once(Tail(s))
                       /\ Head(s).kind = "start" => Head(s).node \notin StartsIn(Tail(s))
<1>1. StartsIn(Tail(s)) \subseteq StartsIn(s)
  BY OnTail DEF StartsIn
<1>2. Head(s).kind = "start" /\ Head(s).node \in Nodes => Head(s).node \in StartsIn(s)
  BY OnTail DEF StartsIn
<1>3. /\ Len(s) \in Nat /\ Len(s) >= 1 /\ Len(Tail(s)) = Len(s) - 1 /\ Head(s) = s[1]
      /\ \A i \in 1 .. Len(Tail(s)) : Tail(s)[i] = s[i + 1]
  BY OnTail
<1>4. Once(s) => Once(Tail(s))
  BY <1>3 DEF Once
<1>5. ASSUME Once(s), Head(s).kind = "start" PROVE Head(s).node \notin StartsIn(Tail(s))
  <2>1. \A i \in 1 .. Len(Tail(s)) :
          ~ (Tail(s)[i].kind = "start" /\ Tail(s)[i].node = Head(s).node)
    BY <1>3, <1>5 DEF Once
  <2> QED
    BY <2>1 DEF StartsIn, On
<1> QED
  BY <1>1, <1>2, <1>4, <1>5

Inv == AP!OwedInv /\ BP!Lasting /\ WireInv

\* What leaves the channel as it is.
LEMMA SameChannel ==
  ASSUME Next, ~ LinkUp, ~ LinkLost, ~ GiverCrashes, ~ WorkerCrashes
  PROVE  up' = up /\ chan' = chan
<1>1. ASSUME NEW n \in Nodes, GiverStep(n) \/ GiverEvent(n) PROVE up' = up /\ chan' = chan
  BY <1>1 DEF GiverStep, GiverAlone, GiverAsks, GiverHears, GiverIsTold, GiverEvent, worker
<1>2. ASSUME NEW n \in Nodes, WorkerStep(n) PROVE up' = up /\ chan' = chan
  BY <1>2 DEF WorkerStep, WorkerAnswers, WorkerRefuses, WorkerTakesStart, WorkerReports,
     WorkerIsAcked, WorkerTakesStop, WorkerStopSettles, WorkerAlone, WorkerTells, worker,
     B!StartArrives, B!ResultAcked, B!StopArrives, B!StopSettles, B!AgentLeaves,
     B!OweResult, B!DeliverEnds, B!StopEnds, B!DeliverTells
<1>3. ASSUME NEW n \in Nodes, AgentEnds(n) \/ WorkerStops(n) PROVE up' = up /\ chan' = chan
  BY <1>3 DEF AgentEnds, WorkerStops, B!AgentEnds, B!PersonStops
<1>4. CASE WorkerJudges \/ WorkerStarts \/ WorkerFailsStart
  BY <1>4 DEF WorkerJudges, WorkerStarts, WorkerFailsStart, B!StartDismissed, B!StartJudged,
     B!StartClaims, B!StartOpens, B!StartEnqueues, B!StartAbandons, B!StartDone,
     B!StartRefused, B!StartFails
<1>5. CASE WorkerUnbinds \/ WorkerForgets \/ Leave
  BY <1>5 DEF WorkerUnbinds, WorkerForgets, Leave, worker, B!UnbindEnds, B!UnbindDrops,
     B!UnbindUnlinks
<1> QED
  BY <1>1, <1>2, <1>3, <1>4, <1>5 DEF Next

LEMMA AsksOne ==
  ASSUME OnTheWire, NEW n \in Nodes, NEW k \in {"start", "result", "ack", "stop", "forget"},
         Asks(k, n)
  PROVE  /\ calls' \in Seq(Call)
         /\ \A c \in On(calls') : c \in On(calls) \/ (c.kind = k /\ c.node = n)
<1>1. [kind |-> k, node |-> n] \in Call
  BY DEF Call
<1> QED
  BY <1>1, OnAppend DEF OnTheWire, Asks

\* A request is asked over an open link, of a start, a result or a stop that is
\* owed, and what settled there is acknowledged once it did so here.
CallsWell ==
  /\ calls' \in Seq(Call)
  /\ \A c \in On(calls') :
       \/ c \in On(calls)
       \/ /\ c.kind = "start" => c.node \in starts
          /\ c.kind = "result" => c.node \in takes
          /\ c.kind = "stop" => stops # {}
          /\ c.kind \in {"ack", "forget"} => given'[c.node] # "open"
          /\ c.kind = "ack" => c.node \in takes \/ pc[c.node] \in A!TakeSteps
          /\ c.kind = "forget" =>
               \E w \in On(back) : w.kind = "settled" /\ w.node = c.node
  /\ ~ up' => calls' = <<>>

LEMMA CallsMove == ASSUME Inv, Next PROVE CallsWell
<1> USE DEF Inv, WireInv
<1>0. given \in [Nodes -> {"none", "open"} \cup A!Settled]
  BY DEF AP!OwedInv, AP!TypeOK, AP!Settled, A!Settled
<1>1. ASSUME NEW n \in Nodes, GiverAsks(n) PROVE CallsWell
  <2>1. up' = up
    BY <1>1 DEF GiverAsks, worker
  <2>2. ASSUME A!StartAsks(n), Asks("start", n) PROVE CallsWell
    <3>1. up /\ n \in starts
      BY <2>2 DEF A!StartAsks, OnTheWire, A!Linked
    <3> QED
      BY <2>1, <2>2, <3>1, AsksOne DEF CallsWell
  <2>3. ASSUME A!TakeAsks(n), NEW k \in {"result", "ack"}, Asks(k, n),
               k = "ack" => given[n] # "open"
        PROVE  CallsWell
    <3>1. up /\ n \in takes /\ given' = given
      BY <2>3 DEF A!TakeAsks, OnTheWire, A!disk
    <3> QED
      BY <2>1, <2>3, <3>1, AsksOne DEF CallsWell
  <2>4. ASSUME A!TakeSettles(n), Asks("ack", n) PROVE CallsWell
    <3>1. up /\ pc[n] \in A!TakeSteps
      BY <2>4 DEF A!TakeSettles, OnTheWire, A!Linked, A!TakeSteps
    <3>2. given'[n] # "open"
      BY <1>0, <2>4 DEF A!TakeSettles, A!Outcome
    <3> QED
      BY <2>1, <2>4, <3>1, <3>2, AsksOne DEF CallsWell
  <2>5. ASSUME NEW e \in stops, A!StopAsks(e), Asks("stop", n) PROVE CallsWell
    <3>1. up
      BY <2>5 DEF A!StopAsks, OnTheWire
    <3> QED
      BY <2>1, <2>5, <3>1, AsksOne DEF CallsWell
  <2>6. CASE A!TakeAsks(n) /\ Asks(IF given[n] = "open" THEN "result" ELSE "ack", n)
    BY <2>3, <2>6
  <2> QED
    BY <1>1, <2>2, <2>4, <2>5, <2>6 DEF GiverAsks
<1>2. ASSUME NEW n \in Nodes, GiverHears(n) \/ GiverIsTold(n) PROVE CallsWell
  <2>1. up /\ up' = up
    BY <1>2 DEF GiverHears, GiverIsTold, Hears, OnTheWire, worker
  <2>2. CASE UNCHANGED calls
    BY <2>1, <2>2 DEF OnTheWire, CallsWell
  <2>3. ASSUME A!TakeHearsUnknown(n), n \notin stale, Asks("ack", n) PROVE CallsWell
    <3>1. given'[n] # "open" /\ pc[n] \in A!TakeSteps
      BY <1>0, <2>3 DEF A!TakeHearsUnknown, A!FailTask, A!TakeSteps
    <3> QED
      BY <2>1, <2>3, <3>1, AsksOne DEF CallsWell
  <2>4. ASSUME Hears("settled", n, "ok"), A!Unwaited(n), UNCHANGED giver, Asks("forget", n)
        PROVE  CallsWell
    <3>1. Head(back) \in On(back) /\ Head(back).kind = "settled" /\ Head(back).node = n
      BY <2>4, OnTail DEF Hears, OnTheWire
    <3>2. given'[n] # "open"
      BY <2>4 DEF A!Unwaited, giver
    <3> QED
      BY <2>1, <2>4, <3>1, <3>2, AsksOne DEF CallsWell
  <2> QED
    BY <1>2, <2>2, <2>3, <2>4 DEF GiverHears, GiverIsTold
<1>3. ASSUME NEW n \in Nodes, WorkerAnswers(n) PROVE CallsWell
  <2>1. calls # <<>> /\ calls' = Tail(calls)
    BY <1>3 DEF WorkerAnswers, WorkerRefuses, WorkerTakesStart, WorkerReports,
       WorkerIsAcked, WorkerTakesStop, Took
  <2>2. up' = up
    BY <1>3 DEF WorkerAnswers, WorkerRefuses, WorkerTakesStart, WorkerReports,
       WorkerIsAcked, WorkerTakesStop, worker, B!StartArrives, B!ResultAcked, B!StopArrives
  <2> QED
    BY <2>1, <2>2, OnTail DEF OnTheWire, CallsWell
<1>4. CASE UNCHANGED calls /\ (up => up')
  BY <1>4 DEF OnTheWire, CallsWell
<1>5. CASE calls' = <<>>
  BY <1>5, OnNothing DEF CallsWell
<1>6. ASSUME NEW n \in Nodes,
             \/ GiverAlone(n) \/ GiverEvent(n) \/ WorkerStopSettles(n) \/ WorkerAlone(n)
             \/ WorkerTells(n) \/ AgentEnds(n) \/ WorkerStops(n)
      PROVE  UNCHANGED calls /\ up' = up
  <2>1. UNCHANGED calls
    BY <1>6 DEF GiverAlone, GiverEvent, WorkerStopSettles, WorkerAlone, WorkerTells,
       AgentEnds, WorkerStops, wire
  <2>2. up' = up
    BY <1>6 DEF GiverAlone, GiverEvent, WorkerStopSettles, WorkerAlone, WorkerTells,
       AgentEnds, WorkerStops, worker, B!StopSettles, B!AgentLeaves, B!OweResult,
       B!DeliverEnds, B!StopEnds, B!DeliverTells, B!AgentEnds, B!PersonStops
  <2> QED
    BY <2>1, <2>2
<1>7. ASSUME \/ WorkerJudges \/ WorkerStarts \/ WorkerFailsStart \/ WorkerUnbinds
             \/ WorkerForgets \/ Leave
      PROVE  UNCHANGED calls /\ up' = up
  <2>1. UNCHANGED calls
    BY <1>7 DEF WorkerJudges, WorkerStarts, WorkerFailsStart, WorkerUnbinds,
       WorkerForgets, Leave
  <2>2. up' = up
    BY <1>7 DEF WorkerJudges, WorkerStarts, WorkerFailsStart, B!StartDismissed,
       B!StartJudged, B!StartClaims, B!StartOpens, B!StartEnqueues, B!StartAbandons,
       B!StartDone, B!StartRefused, B!StartFails, WorkerUnbinds, WorkerForgets, Leave,
       worker, B!UnbindEnds, B!UnbindDrops, B!UnbindUnlinks
  <2> QED
    BY <2>1, <2>2
<1>8. CASE LinkUp
  BY <1>4, <1>8 DEF LinkUp, wire, B!ChannelOpens
<1>9. CASE LinkLost \/ GiverCrashes \/ WorkerCrashes
  BY <1>5, <1>9 DEF LinkLost, GiverCrashes, WorkerCrashes, Silence
<1> QED
  BY <1>1, <1>2, <1>3, <1>4, <1>6, <1>7, <1>8, <1>9 DEF Next, GiverStep, WorkerStep

-----------------------------------------------------------------------------
(* What comes back is true. *)

BackWell ==
  /\ back' \in Seq(Word)
  /\ \A w \in On(back') : w \in On(back) \/ TrueWord(w)
  /\ ~ up' => back' = <<>>

LEMMA AnswersTrue ==
  ASSUME OnTheWire, up' = up,
         NEW k \in {"start", "result", "ack", "stop"}, NEW n \in Nodes,
         NEW answer \in Answers, NEW c, Answer(k, n, answer, c),
         TrueWord([kind |-> k, node |-> n, answer |-> answer])
  PROVE  BackWell
<1> DEFINE w == [kind |-> k, node |-> n, answer |-> answer]
<1>1. w \in Word
  BY DEF Word
<1>2. back' = IF up /\ c = chan THEN Append(back, w) ELSE back
  BY DEF Answer
<1> HIDE DEF w
<1>3. CASE up /\ c = chan
  BY <1>1, <1>2, <1>3, OnAppend DEF OnTheWire, BackWell, w
<1>4. CASE ~ (up /\ c = chan)
  BY <1>2, <1>4 DEF OnTheWire, BackWell
<1> QED
  BY <1>3, <1>4

LEMMA TellsTrue ==
  ASSUME OnTheWire, up' = up, NEW n \in Nodes, Notify({n})
  PROVE  BackWell
<1> DEFINE w == [kind |-> "settled", node |-> n, answer |-> "ok"]
<1>1. w \in Word /\ TrueWord(w)
  BY DEF Word, Answers, TrueWord
<1>2. back' = IF up THEN Append(back, w) ELSE back
  BY NotifyOne DEF OnTheWire
<1> HIDE DEF w
<1>3. CASE up
  BY <1>1, <1>2, <1>3, OnAppend DEF OnTheWire, BackWell
<1>4. CASE ~ up
  BY <1>2, <1>4 DEF OnTheWire, BackWell
<1> QED
  BY <1>3, <1>4

\* Between machines that stay linked a start that is not fit started before or
\* finds no place.
LEMMA Dismissed ==
  ASSUME Inv, NEW n \in Nodes, B!Verdict(n) # "fits"
  PROVE  \/ (Dismissal(n) = "ok" /\ Ran(n))
         \/ Dismissal(n) = "peer-busy"
<1>1. linked /\ ~ B!Taken(n) /\ (Ran(n) => B!Again(n)) /\ (B!Again(n) => Ran(n))
  BY DEF Inv, WireInv, RanFirst, Housed, BP!Lasting, BP!TypeOK, B!Taken, B!Again, Ran
<1>2. CASE B!Again(n)
  <2>1. B!Verdict(n) = "again"
    BY <1>1, <1>2, Zenon DEF B!Verdict
  <2> QED
    BY <1>1, <1>2, <2>1, Zenon DEF Dismissal
<1>3. CASE ~ B!Again(n)
  <2>1. B!Verdict(n) = IF B!Full THEN "peer-busy" ELSE "fits"
    BY <1>1, <1>3, Zenon DEF B!Verdict
  <2>2. B!Verdict(n) = "peer-busy" /\ "peer-busy" # "again"
    BY <2>1
  <2> QED
    BY <2>2, Zenon DEF Dismissal
<1> QED
  BY <1>2, <1>3

\* What is on its way is of a node, and so is what runs.
LEMMA JobsOfNodes ==
  ASSUME BP!TypeOK
  PROVE  /\ asked \in Seq(B!Jobs)
         /\ \A j \in On(asked) : j \in B!Jobs /\ j.node \in Nodes
         /\ asked # <<>> => Head(asked).node \in Nodes /\ Head(asked) \in On(asked)
<1>1. asked \in Seq(B!Jobs)
  BY DEF BP!TypeOK, BP!Jobs, B!Jobs, BP!Channels, B!Channels
<1>2. \A j \in B!Jobs : j.node \in Nodes
  BY DEF B!Jobs
<1>3. \A j \in On(asked) : j \in B!Jobs
  BY <1>1 DEF On
<1>4. asked # <<>> => Head(asked) \in B!Jobs /\ Head(asked) \in On(asked)
  <2> HIDE DEF B!Jobs
  <2> QED
    BY <1>1, OnTail
<1> QED
  BY <1>1, <1>2, <1>3, <1>4

LEMMA BackMoves == ASSUME CanUnbind = FALSE, Inv, Next PROVE BackWell
<1> USE DEF Inv, WireInv
<1>0. OnTheWire /\ BP!TypeOK /\ linked
  BY DEF BP!Lasting
<1>1. ASSUME UNCHANGED back, up' = up PROVE BackWell
  BY <1>1 DEF OnTheWire, BackWell
<1>2. ASSUME NEW n \in Nodes, GiverStep(n) \/ GiverEvent(n) PROVE BackWell
  <2>1. up' = up
    BY <1>2 DEF GiverStep, GiverAlone, GiverAsks, GiverHears, GiverIsTold, GiverEvent, worker
  <2>2. CASE GiverAlone(n) \/ GiverEvent(n) \/ GiverAsks(n)
    BY <1>1, <2>1, <2>2 DEF GiverAlone, GiverEvent, GiverAsks, wire
  <2>3. CASE GiverHears(n) \/ GiverIsTold(n)
    <3>1. back # <<>> /\ back' = Tail(back)
      BY <2>3 DEF GiverHears, GiverIsTold, Hears
    <3> QED
      BY <2>1, <3>1, OnTail DEF OnTheWire, BackWell
  <2> QED
    BY <1>2, <2>2, <2>3 DEF GiverStep
<1>3. ASSUME NEW n \in Nodes, WorkerAnswers(n) PROVE BackWell
  <2>1. up' = up
    BY <1>3 DEF WorkerAnswers, WorkerRefuses, WorkerTakesStart, WorkerReports,
       WorkerIsAcked, WorkerTakesStop, worker, B!StartArrives, B!ResultAcked, B!StopArrives
  <2>2. ASSUME NEW k, WorkerRefuses(k, n) PROVE BackWell
    BY <1>0, <2>2 DEF WorkerRefuses
  <2>3. CASE WorkerTakesStart(n)
    BY <1>1, <2>1, <2>3 DEF WorkerTakesStart
  <2>4. CASE WorkerReports(n)
    <3>1. Ran(n) /\ n \in claimed
      <4>1. [kind |-> "result", node |-> n] \in On(calls)
        BY <1>0, <2>4, OnTail DEF WorkerReports, Took, OnTheWire
      <4> QED
        BY <4>1 DEF RanFirst, BP!Lasting, Ran
    <3>2. B!Report(n) = task[n] /\ task[n] \in {"open"} \cup A!Settled
      BY <3>1 DEF B!Report, B!Again, Ran, BP!Lasting, BP!TypeOK, BP!Status, BP!Settled, A!Settled
    <3>3. PICK answer \in {task[n]} \cup (IF CanRefuseSend THEN {"refused", "error"} ELSE {}) :
            Answer("result", n, answer, chan)
      BY <2>4, <3>2 DEF WorkerReports
    <3>4. /\ answer \in Answers
          /\ TrueWord([kind |-> "result", node |-> n, answer |-> answer])
      BY <3>2, <3>3 DEF Answers, TrueWord, A!Settled
    <3> QED
      BY <1>0, <2>1, <3>3, <3>4, AnswersTrue
  <2>5. ASSUME NEW k, WorkerIsAcked(k, n) PROVE BackWell
    <3>1. CASE Answer("ack", n, "ok", chan)
      BY <1>0, <2>1, <3>1, AnswersTrue DEF Answers, TrueWord
    <3>2. CASE UNCHANGED back
      BY <1>1, <2>1, <3>2
    <3> QED
      BY <2>5, <3>1, <3>2 DEF WorkerIsAcked
  <2>6. CASE WorkerTakesStop(n)
    <3>1. CASE Answer("stop", n, "ok", chan)
      BY <1>0, <2>1, <3>1, AnswersTrue DEF Answers, TrueWord
    <3>2. CASE UNCHANGED back
      BY <1>1, <2>1, <3>2
    <3> QED
      BY <2>6, <3>1, <3>2 DEF WorkerTakesStop
  <2> QED
    BY <1>3, <2>2, <2>3, <2>4, <2>5, <2>6 DEF WorkerAnswers
<1>4. ASSUME NEW n \in Nodes, WorkerStopSettles(n) PROVE BackWell
  <2>1. up' = up
    BY <1>4 DEF WorkerStopSettles, B!StopSettles
  <2>2. CASE Answer("stop", n, "ok", chan)
    BY <1>0, <2>1, <2>2, AnswersTrue DEF Answers, TrueWord
  <2> QED
    BY <1>1, <1>4, <2>1, <2>2 DEF WorkerStopSettles
<1>5. ASSUME NEW n \in Nodes, WorkerAlone(n) \/ AgentEnds(n) PROVE BackWell
  <2>1. up' = up /\ UNCHANGED back
    BY <1>5 DEF WorkerAlone, AgentEnds, wire, B!AgentLeaves, B!OweResult, B!DeliverEnds,
       B!StopEnds, B!AgentEnds
  <2> QED
    BY <1>1, <2>1
<1>6. ASSUME NEW n \in Nodes, WorkerTells(n) \/ WorkerStops(n) PROVE BackWell
  <2>1. up' = up
    BY <1>6 DEF WorkerTells, WorkerStops, B!DeliverTells, B!PersonStops
  <2>2. CASE Notify({n})
    BY <1>0, <2>1, <2>2, TellsTrue
  <2>3. CASE Notify({})
    BY <1>0, <1>1, <2>1, <2>3, NotifyNone DEF OnTheWire
  <2> QED
    BY <1>6, <2>2, <2>3 DEF WorkerTells, WorkerStops
<1>7. CASE WorkerJudges
  <2>1. up' = up
    BY <1>7 DEF WorkerJudges, B!StartDismissed, B!StartJudged
  <2>2. CASE UNCHANGED back
    BY <1>1, <2>1, <2>2
  <2>3. ASSUME B!StartDismissed,
               Answer("start", Head(asked).node, Dismissal(Head(asked).node), Head(asked).chan)
        PROVE  BackWell
    <3> DEFINE n == Head(asked).node
    <3>1. n \in Nodes /\ B!Verdict(n) # "fits"
      BY <1>0, <2>3, JobsOfNodes DEF B!StartDismissed
    <3>2. (Dismissal(n) = "ok" /\ Ran(n)) \/ Dismissal(n) = "peer-busy"
      BY <3>1, Dismissed
    <3>3. Dismissal(n) \in Answers
          /\ TrueWord([kind |-> "start", node |-> n, answer |-> Dismissal(n)])
      BY <3>2 DEF Answers, TrueWord
    <3> QED
      BY <1>0, <2>1, <2>3, <3>1, <3>3, AnswersTrue
  <2> QED
    BY <1>7, <2>2, <2>3 DEF WorkerJudges
<1>8. CASE WorkerStarts \/ WorkerFailsStart
  <2>1. up' = up
    BY <1>8 DEF WorkerStarts, WorkerFailsStart, B!StartClaims, B!StartOpens, B!StartEnqueues,
       B!StartAbandons, B!StartDone, B!StartRefused, B!StartFails
  <2>2. CASE UNCHANGED back
    BY <1>1, <2>1, <2>2
  <2>3. ASSUME NEW answer \in {"error", "refused", "ok"},
               start # B!Idle, answer = "ok" => Ran(start.node),
               Answer("start", start.node, answer, start.chan)
        PROVE  BackWell
    <3>1. start.node \in Nodes
      BY <1>0, <2>3, StartsInStep
    <3>2. answer \in Answers /\ TrueWord([kind |-> "start", node |-> start.node, answer |-> answer])
      BY <2>3 DEF Answers, TrueWord
    <3> QED
      BY <1>0, <2>1, <2>3, <3>1, <3>2, AnswersTrue
  <2>4. CASE WorkerStarts
    <3>1. start = B!Idle => start.step = "idle"
      BY IdleStep
    <3>2. B!StartDone => Ran(start.node)
      BY DEF B!StartDone, RanFirst, Housed
    <3> QED
      BY <2>2, <2>3, <2>4, <3>1, <3>2 DEF WorkerStarts, B!StartDone, B!StartAbandons
  <2>5. CASE WorkerFailsStart
    <3>1. start = B!Idle => start.step = "idle"
      BY IdleStep
    <3>2. CASE UNCHANGED back
      BY <2>2, <3>2
    <3>3. ASSUME B!StartRefused, NEW answer \in {"error", "refused"},
                 Answer("start", start.node, answer, start.chan)
          PROVE  BackWell
      BY <2>3, <3>1, <3>3 DEF B!StartRefused, B!Untasked
    <3> QED
      BY <2>5, <3>2, <3>3 DEF WorkerFailsStart
  <2> QED
    BY <1>8, <2>4, <2>5
<1>9. CASE WorkerUnbinds \/ WorkerForgets
  BY <1>9 DEF WorkerUnbinds, WorkerForgets, B!UnbindEnds, B!UnbindDrops, B!UnbindUnlinks,
     BP!Lasting
<1>10. CASE LinkUp
  BY <1>10 DEF LinkUp, wire, B!ChannelOpens, OnTheWire, BackWell
<1>11. CASE Leave
  BY <1>1, <1>11 DEF Leave, worker
<1>12. CASE LinkLost \/ GiverCrashes \/ WorkerCrashes
  <2>1. back' = <<>>
    BY <1>12 DEF LinkLost, GiverCrashes, WorkerCrashes, Silence
  <2> QED
    BY <2>1, OnNothing DEF BackWell
<1> QED
  BY <1>1, <1>2, <1>3, <1>4, <1>5, <1>6, <1>7, <1>8, <1>9, <1>10, <1>11, <1>12
     DEF Next, WorkerStep

-----------------------------------------------------------------------------
(* What each part of the invariant needs of a step. *)

LEMMA SameLink ==
  ASSUME Next, ~ LinkUp, ~ LinkLost, ~ GiverCrashes, ~ WorkerCrashes
  PROVE  link' = link
<1> USE DEF A!disk, A!lane, A!carried, A!stopLane, A!aside
<1>1. ASSUME NEW n \in Nodes, GiverAlone(n) PROVE link' = link
  BY <1>1 DEF GiverAlone, A!StartIsMoot, A!StartWaitsForLink, A!StartSends, A!StartMarks,
     A!StartIsDropped, A!StartIsHeard, A!StartCloses, A!StartBreaks, A!TakeWaitsForLink,
     A!TakeIsStale, A!TakeBreaks, A!GiveOwes, A!CancelOwes, A!GiveUpFails, A!LeaveFails,
     A!StopHasNoLink
<1>2. ASSUME NEW n \in Nodes, GiverEvent(n) \/ GiverAsks(n) PROVE link' = link
  BY <1>2 DEF GiverEvent, GiverAsks, A!GiveOpens, A!Cancel, A!GiveUpDrops, A!StopExpires,
     A!StartIsPutOff, A!StartIsRefused, A!StartErrs, A!StartAsks, A!TakeAsks,
     A!TakeSettles, A!StopAsks
<1>3. ASSUME NEW n \in Nodes, GiverHears(n) \/ GiverIsTold(n) PROVE link' = link
  BY <1>3 DEF GiverHears, GiverIsTold, giver, A!PeerSettled, A!StartHears,
     A!StartIsPutOff, A!StartIsRefused, A!StartErrs, A!TakeHearsOpen, A!TakeHears,
     A!TakeIsRefused, A!TakeErrs, A!TakeIsAcked, A!StopIsHeard, A!StopIsRefused,
     A!TakeHearsUnknown
<1>4. ASSUME NEW n \in Nodes, WorkerStep(n) \/ AgentEnds(n) \/ WorkerStops(n)
      PROVE link' = link
  BY <1>4 DEF WorkerStep, WorkerAnswers, WorkerRefuses, WorkerTakesStart, WorkerReports,
     WorkerIsAcked, WorkerTakesStop, WorkerStopSettles, WorkerAlone, WorkerTells,
     AgentEnds, WorkerStops, giver
<1>5. CASE WorkerJudges \/ WorkerStarts \/ WorkerFailsStart \/ WorkerUnbinds \/ WorkerForgets
  BY <1>5 DEF WorkerJudges, WorkerStarts, WorkerFailsStart, WorkerUnbinds, WorkerForgets,
     giver
<1>6. CASE Leave
  BY <1>6 DEF Leave, A!Leave
<1> QED
  BY <1>1, <1>2, <1>3, <1>4, <1>5, <1>6 DEF Next, GiverStep

LEMMA LinkIsUp == ASSUME Inv, Next PROVE link' = up'
<1>1. link = up /\ link \in BOOLEAN
  BY DEF Inv, WireInv, OnTheWire, AP!OwedInv, AP!TypeOK
<1>2. CASE LinkUp
  BY <1>2 DEF LinkUp, A!LinkUp, B!ChannelOpens
<1>3. CASE LinkLost
  BY <1>3 DEF LinkLost, A!LinkLost, B!ChannelCloses
<1>4. CASE GiverCrashes
  BY <1>1, <1>4 DEF GiverCrashes, A!Crash, B!ChannelCloses, worker
<1>5. CASE WorkerCrashes
  BY <1>1, <1>5 DEF WorkerCrashes, A!LinkLost, B!Crash, giver
<1> QED
  BY <1>1, <1>2, <1>3, <1>4, <1>5, SameLink, SameChannel

\* A handler hears an answer to a start, a report, or neither.
LEMMA HeardWell ==
  ASSUME AP!TypeOK, Next, NEW m \in Nodes
  PROVE  \/ Deaf(m)
         \/ Hears("start", m, "ok") /\ pc'[m] = "heard"
         \/ pc'[m] = "idle" /\ (pc[m] = "asked" => \E a : Hears("start", m, a))
         \/ \E s \in A!Settled :
              Hears("result", m, s) /\ pc[m] = "asking" /\ pc'[m] = "bringing" /\ report'[m] = s
<1> USE DEF AP!TypeOK
<1>1. CASE GiverHears(m)
  <2> USE DEF A!disk, A!lane, A!carried, A!stopLane, A!aside, A!To, A!Returns,
              A!ReturnsAndWakes, A!Wake
  <2>1. CASE Hears("start", m, "ok") /\ A!StartHears(m)
    BY <2>1 DEF A!StartHears
  <2>6. ASSUME NEW a, Hears("start", m, a),
               A!StartIsPutOff(m) \/ A!StartIsRefused(m) \/ A!StartErrs(m)
        PROVE  pc'[m] = "idle" /\ \E x : Hears("start", m, x)
    BY <2>6 DEF A!StartIsPutOff, A!StartIsRefused, A!StartErrs
  <2>2. CASE \/ A!TakeHearsOpen(m) \/ A!TakeIsRefused(m) \/ A!TakeErrs(m) \/ A!TakeIsAcked(m)
    BY <2>2 DEF A!TakeHearsOpen, A!TakeIsRefused, A!TakeErrs, A!TakeIsAcked
  <2>3. ASSUME NEW s \in A!Settled, Hears("result", m, s), A!TakeHears(m, s)
        PROVE  \/ pc'[m] = "idle" /\ pc[m] # "asked"
               \/ pc[m] = "asking" /\ pc'[m] = "bringing" /\ report'[m] = s
    BY <2>3 DEF A!TakeHears
  <2>4. CASE A!TakeHearsUnknown(m)
    BY <2>4 DEF A!TakeHearsUnknown, Deaf
  <2>5. ASSUME NEW e, A!StopIsHeard(e) \/ A!StopIsRefused(e) PROVE Deaf(m)
    BY <2>5 DEF A!StopIsHeard, A!StopIsRefused, Deaf
  <2> QED
    BY <1>1, <2>1, <2>2, <2>3, <2>4, <2>5, <2>6 DEF GiverHears
<1>2. ASSUME NEW n \in Nodes, n # m, GiverHears(n) PROVE Deaf(m)
  BY <1>2, OthersAreDeaf
<1>3. ASSUME NEW n \in Nodes, GiverAlone(n) \/ GiverEvent(n) \/ GiverAsks(n) \/ GiverIsTold(n)
      PROVE Deaf(m)
  BY <1>3, GiverIsDeaf
<1>4. ASSUME UNCHANGED giver PROVE Deaf(m)
  BY <1>4 DEF Deaf, giver
<1>5. ASSUME NEW n \in Nodes, WorkerStep(n) \/ AgentEnds(n) \/ WorkerStops(n) PROVE Deaf(m)
  BY <1>4, <1>5 DEF WorkerStep, WorkerAnswers, WorkerRefuses, WorkerTakesStart, WorkerReports,
     WorkerIsAcked, WorkerTakesStop, WorkerStopSettles, WorkerAlone, WorkerTells,
     AgentEnds, WorkerStops
<1>6. CASE WorkerJudges \/ WorkerStarts \/ WorkerFailsStart \/ WorkerUnbinds \/ WorkerForgets
  BY <1>4, <1>6 DEF WorkerJudges, WorkerStarts, WorkerFailsStart, WorkerUnbinds, WorkerForgets
<1>7. CASE LinkUp \/ LinkLost \/ Leave \/ GiverCrashes
  BY <1>7 DEF LinkUp, LinkLost, Leave, GiverCrashes, A!LinkUp, A!LinkLost, A!Leave, A!Crash,
     A!WakeOwed, A!Wake, Deaf
<1>8. CASE WorkerCrashes
  BY <1>4, <1>8 DEF WorkerCrashes, A!LinkLost, Deaf
<1> QED
  BY <1>1, <1>2, <1>3, <1>5, <1>6, <1>7, <1>8 DEF Next, GiverStep

\* A start that arrives goes last, the first is looked at, and one that runs
\* runs on or is over.
Arrives ==
  \E n \in Nodes :
    LET j == [node |-> n, chan |-> chan] IN
    /\ Took("start", n)
    /\ j \in B!Jobs /\ j \notin On(asked)
    /\ asked' = Append(asked, j) /\ start' = start

IsJudged ==
  /\ start = B!Idle /\ asked # <<>> /\ asked' = Tail(asked)
  /\ \/ start' = B!Idle
     \/ /\ start' # B!Idle /\ ~ B!Again(Head(asked).node)
        /\ start'.node = Head(asked).node /\ start'.chan = Head(asked).chan

RunsOn ==
  /\ asked' = asked
  /\ \/ start' = B!Idle
     \/ /\ start # B!Idle /\ start' # B!Idle
        /\ start'.node = start.node /\ start'.chan = start.chan

QueueMoves == Arrives \/ IsJudged \/ RunsOn \/ (asked' = <<>> /\ start' = B!Idle)

LEMMA FitsIsNew ==
  ASSUME NEW n, B!Verdict(n) = "fits"
  PROVE  ~ B!Again(n)
<1> SUFFICES ASSUME B!Again(n) PROVE FALSE
  OBVIOUS
<1>1. CASE linked
  <2>1. B!Verdict(n) = "again"
    BY <1>1, Zenon DEF B!Verdict
  <2> QED
    BY <2>1
<1>2. CASE ~ linked
  <2>1. B!Verdict(n) = "peer-not-linked"
    BY <1>2, Zenon DEF B!Verdict
  <2> QED
    BY <2>1
<1> QED
  BY <1>1, <1>2

LEMMA StartMoves == ASSUME BP!TypeOK, Next PROVE QueueMoves
<1>1. ASSUME asked' = asked, start' = start PROVE QueueMoves
  BY <1>1 DEF QueueMoves, RunsOn
<1>2. ASSUME NEW n \in Nodes, GiverStep(n) \/ GiverEvent(n) PROVE QueueMoves
  <2>1. UNCHANGED worker
    BY <1>2 DEF GiverStep, GiverAlone, GiverAsks, GiverHears, GiverIsTold, GiverEvent
  <2> QED
    BY <1>1, <2>1 DEF worker
<1>3. ASSUME NEW n \in Nodes, WorkerTakesStart(n) PROVE QueueMoves
  <2> DEFINE j == [node |-> n, chan |-> chan]
  <2>1. /\ Took("start", n) /\ up
        /\ \A i \in 1 .. Len(asked) : asked[i] # j
        /\ asked' = Append(asked, j) /\ start' = start
    BY <1>3 DEF WorkerTakesStart, B!StartArrives
  <2>2. j \notin On(asked)
    BY <2>1 DEF On
  <2>3. j \in B!Jobs
    BY <2>1 DEF BP!TypeOK, B!Jobs, B!Channels
  <2> QED
    BY <2>1, <2>2, <2>3 DEF QueueMoves, Arrives
<1>4. ASSUME NEW n \in Nodes,
             \/ WorkerReports(n) \/ WorkerTakesStop(n) \/ WorkerStopSettles(n)
             \/ WorkerAlone(n) \/ WorkerTells(n) \/ AgentEnds(n) \/ WorkerStops(n)
             \/ \E k \in {"start", "result", "ack", "stop", "forget"} : WorkerRefuses(k, n)
             \/ \E k \in {"ack", "forget"} : WorkerIsAcked(k, n)
      PROVE  QueueMoves
  <2>1. asked' = asked /\ start' = start
    BY <1>4 DEF WorkerReports, WorkerTakesStop, WorkerStopSettles, WorkerAlone, WorkerTells,
       AgentEnds, WorkerStops, WorkerRefuses, WorkerIsAcked, worker, B!ResultAcked,
       B!StopArrives, B!StopSettles, B!AgentLeaves, B!OweResult, B!DeliverEnds, B!StopEnds,
       B!DeliverTells, B!AgentEnds, B!PersonStops
  <2> QED
    BY <1>1, <2>1
<1>5. CASE WorkerJudges
  <2>1. CASE B!StartDismissed
    BY <2>1 DEF B!StartDismissed, QueueMoves, IsJudged
  <2>2. CASE B!StartJudged
    <3>1. start'.step = "judged" /\ start'.step # B!Idle.step
      BY <2>2, IdleStep DEF B!StartJudged
    <3>2. ~ B!Again(Head(asked).node)
      BY <2>2, FitsIsNew DEF B!StartJudged
    <3> QED
      BY <2>2, <3>1, <3>2 DEF B!StartJudged, QueueMoves, IsJudged
  <2> QED
    BY <1>5, <2>1, <2>2 DEF WorkerJudges
<1>6. CASE WorkerStarts \/ WorkerFailsStart
  <2>1. CASE start' = B!Idle /\ asked' = asked
    BY <2>1 DEF QueueMoves, RunsOn
  <2>2. ASSUME start # B!Idle, asked' = asked, NEW s \in {"claimed", "opened", "enqueued", "failed"},
               start' = [start EXCEPT !.step = s]
        PROVE  QueueMoves
    BY <2>2, StartsInStep DEF QueueMoves, RunsOn
  <2>3. start = B!Idle => start.step = "idle"
    BY IdleStep
  <2> QED
    BY <1>6, <2>1, <2>2, <2>3 DEF WorkerStarts, WorkerFailsStart, B!StartClaims,
       B!StartOpens, B!StartEnqueues, B!StartAbandons, B!StartDone, B!StartRefused,
       B!StartFails
<1>7. CASE WorkerUnbinds \/ WorkerForgets
  BY <1>1, <1>7 DEF WorkerUnbinds, WorkerForgets, B!UnbindEnds, B!UnbindDrops, B!UnbindUnlinks
<1>8. CASE LinkUp \/ LinkLost \/ Leave \/ GiverCrashes
  BY <1>1, <1>8 DEF LinkUp, LinkLost, Leave, GiverCrashes, worker, B!ChannelOpens,
     B!ChannelCloses
<1>9. CASE WorkerCrashes
  BY <1>9 DEF WorkerCrashes, B!Crash, QueueMoves
<1> QED
  BY <1>2, <1>3, <1>4, <1>5, <1>6, <1>7, <1>8, <1>9 DEF Next, WorkerStep, WorkerAnswers

-----------------------------------------------------------------------------
(* The invariant of the wire is inductive. *)

LEMMA Moves ==
  ASSUME CanUnbind = FALSE, Inv, Next
  PROVE  GiverKeeps /\ WorkerKeeps /\ CallsWell /\ BackWell /\ QueueMoves
<1>1. GiverKeeps
  BY GiverMoves, GiverStepsKeep DEF Inv
<1>2. WorkerKeeps
  BY WorkerMoves, WorkerStepsKeep DEF Inv
<1> QED
  BY <1>1, <1>2, CallsMove, BackMoves, StartMoves DEF Inv, BP!Lasting

LEMMA OnTheWireKept ==
  ASSUME CanUnbind = FALSE, Inv, Next
  PROVE  OnTheWire'
<1>1. link' = up'
  BY LinkIsUp
<1>2. \A n \in Nodes : pc'[n] \in A!Linked /\ n \notin dead' => link'
  BY Moves DEF Inv, WireInv, OnTheWire, GiverKeeps
<1>3. /\ calls' \in Seq(Call) /\ back' \in Seq(Word)
      /\ ~ up' => calls' = <<>> /\ back' = <<>>
  BY Moves DEF CallsWell, BackWell
<1> QED
  BY <1>1, <1>2, <1>3 DEF OnTheWire, A!Linked, A!TakeSteps, Word, Answers, A!Settled, Call

LEMMA CallsOfNodes ==
  ASSUME OnTheWire
  PROVE  \A c \in On(calls) : c \in Call /\ c.node \in Nodes
<1>1. \A c \in Call : c.node \in Nodes
  BY DEF Call
<1>2. On(calls) \subseteq Call
  BY OnIsIn DEF OnTheWire
<1> QED
  BY <1>1, <1>2

LEMMA WordsOfNodes ==
  ASSUME NEW s \in Seq(Word)
  PROVE  \A w \in On(s) : w \in Word /\ w.node \in Nodes
<1>1. \A w \in Word : w.node \in Nodes
  BY DEF Word
<1>2. On(s) \subseteq Word
  BY OnIsIn
<1> QED
  BY <1>1, <1>2

LEMMA KnownFirstKept ==
  ASSUME CanUnbind = FALSE, Inv, Next, AP!OwedInv'
  PROVE  KnownFirst'
<1>1. starts' \cup giving' \subseteq {n \in Nodes : Known(n)'}
  BY DEF AP!OwedInv, AP!TypeOK, AP!GivenFirst, Known
<1>2. \A n \in Nodes : Known(n) => Known(n)'
  BY Moves DEF GiverKeeps
<1>3. \A c \in On(calls) : c.node \in Nodes
  BY CallsOfNodes DEF Inv, WireInv
<1>4. \A c \in On(calls') : c.kind = "start" => given'[c.node] # "none"
  <2>1. \A c \in On(calls') : c.kind = "start" =>
          (c \in On(calls) \/ c.node \in starts)
    BY Moves DEF CallsWell
  <2>2. \A c \in On(calls) : c.kind = "start" => Known(c.node)
    BY DEF Inv, WireInv, KnownFirst
  <2>3. \A n \in starts : n \in Nodes /\ Known(n)
    BY DEF Inv, WireInv, KnownFirst
  <2> QED
    BY <1>2, <1>3, <2>1, <2>2, <2>3 DEF Known
<1>5. /\ \A j \in On(asked) : j.node \in Nodes /\ Known(j.node)
      /\ start # B!Idle => start.node \in Nodes /\ Known(start.node)
  BY JobsOfNodes, StartsInStep DEF Inv, WireInv, KnownFirst, BP!Lasting
<1>6. /\ \A j \in On(asked') : given'[j.node] # "none"
      /\ start' # B!Idle => given'[start'.node] # "none"
  <2>0. asked \in Seq(B!Jobs)
    BY JobsOfNodes DEF Inv, BP!Lasting
  <2>1. CASE Arrives
    <3>1. PICK n \in Nodes : LET j == [node |-> n, chan |-> chan] IN
            /\ Took("start", n) /\ j \in B!Jobs
            /\ asked' = Append(asked, j) /\ start' = start
      BY <2>1 DEF Arrives
    <3> DEFINE j == [node |-> n, chan |-> chan]
    <3>2. On(asked') = On(asked) \cup {j}
      BY <2>0, <3>1, OnAppend
    <3>3. Known(n)
      <4>1. Head(calls) \in On(calls) /\ Head(calls).kind = "start" /\ Head(calls).node = n
        BY <3>1, OnTail DEF Took, Inv, WireInv, OnTheWire
      <4> QED
        BY <4>1 DEF Inv, WireInv, KnownFirst
    <3> QED
      BY <1>2, <1>5, <3>1, <3>2, <3>3 DEF Known
  <2>2. CASE IsJudged
    <3>1. On(asked') \subseteq On(asked) /\ Head(asked) \in On(asked)
      BY <2>0, <2>2, OnTail DEF IsJudged
    <3> QED
      BY <1>2, <1>5, <2>2, <3>1 DEF IsJudged, Known
  <2>3. CASE RunsOn
    BY <1>2, <1>5, <2>3 DEF RunsOn, Known
  <2>4. CASE asked' = <<>> /\ start' = B!Idle
    BY <2>4, OnNothing
  <2> QED
    BY <2>1, <2>2, <2>3, <2>4, Moves DEF QueueMoves
<1> QED
  BY <1>1, <1>4, <1>6 DEF KnownFirst, Known, On, B!Idle

LEMMA RanFirstKept ==
  ASSUME CanUnbind = FALSE, Inv, Next, AP!OwedInv'
  PROVE  RanFirst'
<1>1. Housed' /\ \A n \in Nodes : Ran(n) => Ran(n)'
  BY Moves DEF WorkerKeeps, Inv, WireInv, RanFirst
<1>2. \A n \in takes' : n \in Nodes /\ task'[n] # "none"
  <2>1. \A n \in takes' : n \in Nodes /\ (n \in takes \/ pc[n] = "heard")
    BY Moves DEF GiverKeeps, AP!OwedInv, AP!TypeOK
  <2> QED
    BY <1>1, <2>1 DEF Inv, WireInv, RanFirst, Ran
<1>3. ASSUME NEW n \in Nodes, pc'[n] = "heard" PROVE Ran(n)'
  <2>1. pc[n] = "heard" \/ Hears("start", n, "ok")
    BY <1>3, HeardWell DEF Inv, AP!OwedInv, Deaf
  <2>2. ASSUME Hears("start", n, "ok") PROVE Ran(n)
    <3>1. /\ Head(back) \in On(back)
          /\ Head(back).kind = "start" /\ Head(back).node = n /\ Head(back).answer = "ok"
      BY <2>2, OnTail DEF Hears, Inv, WireInv, OnTheWire
    <3> QED
      BY <3>1 DEF Inv, WireInv, WordsTrue, TrueWord
  <2> QED
    BY <1>1, <1>3, <2>1, <2>2 DEF Inv, WireInv, RanFirst
<1>4. \A c \in On(calls') : c.kind = "result" => task'[c.node] # "none"
  <2>1. \A c \in On(calls') : c.kind = "result" =>
          (c \in On(calls) \/ c.node \in takes)
    BY Moves DEF CallsWell
  <2>2. \A c \in On(calls) : c.node \in Nodes /\ (c.kind = "result" => Ran(c.node))
    BY CallsOfNodes DEF Inv, WireInv, RanFirst
  <2>3. \A n \in takes : n \in Nodes /\ Ran(n)
    BY DEF Inv, WireInv, RanFirst, AP!OwedInv, AP!TypeOK
  <2> QED
    BY <1>1, <2>1, <2>2, <2>3 DEF Ran
<1> QED
  BY <1>1, <1>2, <1>3, <1>4 DEF RanFirst, Ran, On

LEMMA WordsTrueKept ==
  ASSUME CanUnbind = FALSE, Inv, Next
  PROVE  WordsTrue'
<1>1. /\ \A n \in Nodes : Ran(n) => Ran(n)'
      /\ \A n \in Nodes : task[n] \in A!Settled => task'[n] = task[n]
  BY Moves DEF WorkerKeeps
<1>2. ASSUME NEW w \in Word, TrueWord(w) PROVE TrueWord(w)'
  <2>1. w.node \in Nodes
    BY DEF Word
  <2> QED
    BY <1>1, <1>2, <2>1 DEF TrueWord, Ran, A!Settled
<1>4. \A w \in On(back') : w \in Word /\ TrueWord(w)
  BY Moves, WordsOfNodes DEF BackWell, Inv, WireInv, WordsTrue
<1>3. ASSUME NEW n \in Nodes, pc'[n] = "bringing"
      PROVE  report'[n] = task'[n] /\ task'[n] \in A!Settled
  <2>1. CASE pc[n] = "bringing" /\ report'[n] = report[n]
    BY <1>1, <2>1 DEF Inv, WireInv, WordsTrue
  <2>2. ASSUME NEW s \in A!Settled, Hears("result", n, s), report'[n] = s
        PROVE  report'[n] = task'[n] /\ task'[n] \in A!Settled
    <3>1. /\ Head(back) \in On(back)
          /\ Head(back).kind = "result" /\ Head(back).node = n /\ Head(back).answer = s
      BY <2>2, OnTail DEF Hears, Inv, WireInv, OnTheWire
    <3>2. task[n] = s
      BY <2>2, <3>1 DEF Inv, WireInv, WordsTrue, TrueWord
    <3> QED
      BY <1>1, <2>2, <3>2
  <2> QED
    BY <1>3, <2>1, <2>2, HeardWell DEF Inv, AP!OwedInv, Deaf
<1> QED
  BY <1>2, <1>3, <1>4 DEF WordsTrue, TrueWord, Ran, A!Settled, On

LEMMA CausesKept ==
  ASSUME CanUnbind = FALSE, Inv, Next
  PROVE  GivesUpWithCause'
BY Moves DEF GiverKeeps, Inv, WireInv

LEMMA ChannelsRise ==
  ASSUME BP!TypeOK, Next
  PROVE  chan' \in Nat /\ chan \in Nat /\ chan <= chan'
<1>1. chan \in Nat
  BY BoundsAssumption DEF BP!TypeOK
<1>2. CASE LinkUp
  BY <1>1, <1>2 DEF LinkUp, B!ChannelOpens
<1>3. CASE LinkLost \/ GiverCrashes \/ WorkerCrashes
  <2>1. chan' = chan
    BY <1>3 DEF LinkLost, GiverCrashes, WorkerCrashes, B!ChannelCloses, B!Crash, worker
  <2> QED
    BY <1>1, <2>1
<1> QED
  BY <1>1, <1>2, <1>3, SameChannel

LEMMA InOrderKept ==
  ASSUME CanUnbind = FALSE, Inv, Next
  PROVE  InOrder'
<1> DEFINE InQueue(q, r, c) ==
      /\ \A i, k \in 1 .. Len(q) :
           /\ q[i].chan <= c
           /\ i < k => q[i].chan <= q[k].chan
           /\ q[i] = q[k] => i = k
      /\ r # B!Idle => /\ r.chan <= c
                       /\ \A i \in 1 .. Len(q) : r.chan <= q[i].chan
<1>0. /\ chan' \in Nat /\ chan \in Nat /\ chan <= chan'
      /\ asked \in Seq(B!Jobs) /\ Len(asked) \in Nat
      /\ \A i \in 1 .. Len(asked) : asked[i].chan \in Nat
      /\ start # B!Idle => start.chan \in Nat
  <2>1. asked \in Seq(B!Jobs)
    BY JobsOfNodes DEF Inv, BP!Lasting
  <2>2. \A i \in 1 .. Len(asked) : asked[i].chan \in Nat
    <3>1. \A j \in B!Jobs : j.chan \in Nat
      BY BoundsAssumption DEF B!Jobs, B!Channels
    <3> HIDE DEF B!Jobs
    <3> QED
      BY <2>1, <3>1
  <2> QED
    BY <2>1, <2>2, ChannelsRise, StartsInStep, BoundsAssumption DEF Inv, BP!Lasting
<1>1. InQueue(asked, start, chan)
  BY DEF Inv, WireInv, InOrder
<1>2. InQueue(asked, start, chan')
  BY <1>0, <1>1
<1>3. InQueue(asked', start', chan')
  <2>1. CASE Arrives
    <3>1. PICK n \in Nodes : LET j == [node |-> n, chan |-> chan] IN
            /\ Took("start", n) /\ j \in B!Jobs /\ j \notin On(asked)
            /\ asked' = Append(asked, j) /\ start' = start
      BY <2>1 DEF Arrives
    <3> DEFINE j == [node |-> n, chan |-> chan]
    <3>2. /\ Len(asked') = Len(asked) + 1
          /\ \A i \in 1 .. Len(asked) : asked'[i] = asked[i]
          /\ asked'[Len(asked) + 1] = j
      <4> HIDE DEF j
      <4>1. j \in B!Jobs /\ asked' = Append(asked, j)
        BY <3>1 DEF j
      <4> HIDE DEF B!Jobs
      <4> QED
        BY <1>0, <4>1
    <3>3. j.chan = chan /\ \A i \in 1 .. Len(asked) : asked[i] # j
      BY <3>1 DEF On
    <3>4. \A i \in 1 .. Len(asked) : asked[i].chan <= chan
      BY <1>1
    <3> HIDE DEF j
    <3> QED
      BY <1>0, <1>1, <1>2, <3>1, <3>2, <3>3, <3>4
  <2>2. CASE IsJudged
    <3>1. /\ Len(asked') = Len(asked) - 1 /\ Len(asked) >= 1 /\ Head(asked) = asked[1]
          /\ \A i \in 1 .. Len(asked') : asked'[i] = asked[i + 1]
      BY <1>0, <2>2, OnTail DEF IsJudged
    <3>2. \A i \in 1 .. Len(asked') : i + 1 \in 1 .. Len(asked) /\ 1 < i + 1
      BY <1>0, <3>1
    <3>3. \A i \in 1 .. Len(asked') : asked[1].chan <= asked'[i].chan
      BY <1>0, <1>1, <3>1, <3>2
    <3>4. start' # B!Idle => start'.chan = asked[1].chan
      BY <2>2, <3>1 DEF IsJudged
    <3>5. \A i, k \in 1 .. Len(asked') :
            /\ asked'[i].chan <= chan'
            /\ i < k => asked'[i].chan <= asked'[k].chan
            /\ asked'[i] = asked'[k] => i = k
      <4> SUFFICES ASSUME NEW i \in 1 .. Len(asked'), NEW k \in 1 .. Len(asked')
                   PROVE  /\ asked'[i].chan <= chan'
                          /\ i < k => asked'[i].chan <= asked'[k].chan
                          /\ asked'[i] = asked'[k] => i = k
        OBVIOUS
      <4>1. /\ asked'[i] = asked[i + 1] /\ asked'[k] = asked[k + 1]
            /\ i + 1 \in 1 .. Len(asked) /\ k + 1 \in 1 .. Len(asked)
        BY <3>1, <3>2
      <4>2. i \in Nat /\ k \in Nat
        BY <1>0, <3>1
      <4> QED
        BY <1>2, <4>1, <4>2
    <3> QED
      BY <1>0, <1>2, <3>1, <3>3, <3>4, <3>5
  <2>3. CASE RunsOn
    BY <1>2, <2>3 DEF RunsOn
  <2>4. CASE asked' = <<>> /\ start' = B!Idle
    BY <2>4
  <2> QED
    BY <2>1, <2>2, <2>3, <2>4, Moves DEF QueueMoves
<1> QED
  BY <1>3 DEF InOrder, B!Idle

-----------------------------------------------------------------------------
(* A start is under way once, and one that is refused did not start. *)

\* How a step moves what is asked.
CallsShape ==
  \/ calls' = calls
  \/ calls # <<>> /\ calls' = Tail(calls)
  \/ \E n \in Nodes, k \in {"result", "ack", "stop", "forget"} : Asks(k, n)
  \/ \E n \in Nodes : A!StartAsks(n) /\ Asks("start", n)
  \/ calls' = <<>>

LEMMA CallsAre == ASSUME Next PROVE CallsShape
<1>1. ASSUME NEW n \in Nodes, GiverStep(n) \/ GiverEvent(n) PROVE CallsShape
  <2>1. CASE GiverAlone(n) \/ GiverEvent(n)
    BY <2>1 DEF GiverAlone, GiverEvent, wire, CallsShape
  <2>2. CASE GiverAsks(n)
    BY <2>2 DEF GiverAsks, CallsShape
  <2>3. CASE GiverHears(n) \/ GiverIsTold(n)
    BY <2>3 DEF GiverHears, GiverIsTold, CallsShape
  <2> QED
    BY <1>1, <2>1, <2>2, <2>3 DEF GiverStep
<1>2. ASSUME NEW n \in Nodes, WorkerStep(n) PROVE CallsShape
  <2>1. CASE WorkerAnswers(n)
    BY <2>1 DEF WorkerAnswers, WorkerRefuses, WorkerTakesStart, WorkerReports,
       WorkerIsAcked, WorkerTakesStop, Took, CallsShape
  <2>2. CASE WorkerStopSettles(n) \/ WorkerAlone(n) \/ WorkerTells(n)
    BY <2>2 DEF WorkerStopSettles, WorkerAlone, WorkerTells, wire, CallsShape
  <2> QED
    BY <1>2, <2>1, <2>2 DEF WorkerStep
<1>3. ASSUME NEW n \in Nodes, AgentEnds(n) \/ WorkerStops(n) PROVE CallsShape
  BY <1>3 DEF AgentEnds, WorkerStops, wire, CallsShape
<1>4. CASE WorkerJudges \/ WorkerStarts \/ WorkerFailsStart \/ WorkerUnbinds \/ WorkerForgets
  BY <1>4 DEF WorkerJudges, WorkerStarts, WorkerFailsStart, WorkerUnbinds, WorkerForgets,
     CallsShape
<1>5. CASE LinkUp \/ LinkLost \/ Leave \/ GiverCrashes \/ WorkerCrashes
  BY <1>5 DEF LinkUp, LinkLost, Leave, GiverCrashes, WorkerCrashes, Silence, wire, CallsShape
<1> QED
  BY <1>1, <1>2, <1>3, <1>4, <1>5 DEF Next

StartWord(n, answer) == [kind |-> "start", node |-> n, answer |-> answer]

\* The start at the head of the serializer is answered at once.
AnswersFirst ==
  /\ up /\ start = B!Idle /\ start' = B!Idle
  /\ asked # <<>> /\ asked' = Tail(asked) /\ Head(asked).chan = chan
  /\ \E answer \in Answers \ {"refused"} :
       /\ back' = Append(back, StartWord(Head(asked).node, answer))
       /\ answer = "peer-busy" => /\ B!Verdict(Head(asked).node) = "peer-busy"
                                  /\ UNCHANGED <<calls, claimed, task>>

\* The start that ran is answered.
AnswersLast ==
  /\ up /\ start # B!Idle /\ start' = B!Idle
  /\ asked' = asked /\ start.chan = chan
  /\ \E answer \in Answers \ {"peer-busy"} :
       /\ answer = "refused" => start.step \in {"judged"}
       /\ back' = Append(back, StartWord(start.node, answer))

\* Word that is no answer to a start; a result is reported as it is.
SaysMore ==
  \E w \in Word :
    /\ back' = Append(back, w)
    /\ w.kind # "start"
    /\ w.kind = "result" => /\ Took("result", w.node) /\ task' = task
                            /\ w.answer = "open" => task[w.node] = "open"
    /\ w.kind = "settled" => Ran(w.node) \/ w.node \in deliver

\* The first of what comes back is heard.
IsHeard ==
  /\ back # <<>> /\ back' = Tail(back) /\ UNCHANGED worker
  /\ Head(back).kind = "settled" => GiverIsTold(Head(back).node)

\* How a step moves what comes back.
BackShape ==
  \/ back' = back \/ IsHeard \/ SaysMore \/ AnswersFirst \/ AnswersLast
  \/ back' = <<>> /\ ~ up'

LEMMA OtherAnswer ==
  ASSUME NEW k \in {"result", "ack", "stop"}, NEW n \in Nodes, NEW answer \in Answers, NEW c,
         Answer(k, n, answer, c),
         k = "result" => /\ Took("result", n) /\ task' = task
                         /\ answer = "open" => task[n] = "open"
  PROVE  BackShape
<1> DEFINE w == [kind |-> k, node |-> n, answer |-> answer]
<1>1. w \in Word /\ w.kind = k /\ w.node = n /\ w.answer = answer
  BY DEF Word
<1>2. back' = back \/ back' = Append(back, w)
  BY DEF Answer
<1> HIDE DEF w
<1> QED
  BY <1>1, <1>2 DEF BackShape, SaysMore

LEMMA BackIs == ASSUME CanUnbind = FALSE, Inv, Next PROVE BackShape
<1> USE DEF Inv, WireInv
<1>0. OnTheWire /\ BP!TypeOK /\ linked
  BY DEF BP!Lasting
<1>1. ASSUME NEW n \in Nodes, GiverStep(n) \/ GiverEvent(n) PROVE BackShape
  <2>1. CASE GiverAlone(n) \/ GiverEvent(n) \/ GiverAsks(n)
    BY <2>1 DEF GiverEvent, GiverAlone, GiverAsks, wire, BackShape
  <2>2. CASE GiverHears(n)
    BY <2>2 DEF GiverHears, Hears, BackShape, IsHeard
  <2>3. CASE GiverIsTold(n)
    BY <2>3 DEF GiverIsTold, Hears, BackShape, IsHeard
  <2> QED
    BY <1>1, <2>1, <2>2, <2>3 DEF GiverStep
<1>2. ASSUME NEW n \in Nodes, WorkerAnswers(n) PROVE BackShape
  <2>1. CASE \E k \in {"start", "result", "ack", "stop", "forget"} : WorkerRefuses(k, n)
    BY <1>0, <2>1 DEF WorkerRefuses
  <2>2. CASE WorkerTakesStart(n)
    BY <2>2 DEF WorkerTakesStart, BackShape
  <2>3. CASE WorkerReports(n)
    <3>1. PICK answer \in {B!Report(n)} \cup {"refused", "error"} :
            Answer("result", n, answer, chan)
      BY <2>3 DEF WorkerReports
    <3>2. answer \in Answers
      BY <3>1 DEF B!Report, Answers, B!Again, BP!TypeOK, BP!Lasting, BP!Status, BP!Settled,
         A!Settled
    <3>3. answer = "open" => task[n] = "open"
      BY <3>1 DEF B!Report, B!Again
    <3>4. Took("result", n) /\ task' = task
      BY <2>3 DEF WorkerReports, worker
    <3> QED
      BY <3>1, <3>2, <3>3, <3>4, OtherAnswer
  <2>4. CASE Answer("ack", n, "ok", chan) \/ Answer("stop", n, "ok", chan)
    BY <2>4, OtherAnswer DEF Answers
  <2>5. CASE \E k \in {"ack", "forget"} : WorkerIsAcked(k, n)
    BY <2>4, <2>5 DEF WorkerIsAcked, BackShape
  <2>6. CASE WorkerTakesStop(n)
    BY <2>4, <2>6 DEF WorkerTakesStop, BackShape
  <2> QED
    BY <1>2, <2>1, <2>2, <2>3, <2>5, <2>6 DEF WorkerAnswers
<1>3. ASSUME NEW n \in Nodes, WorkerStopSettles(n) PROVE BackShape
  BY <1>3, OtherAnswer DEF WorkerStopSettles, Answers, BackShape
<1>4. ASSUME NEW n \in Nodes, WorkerAlone(n) \/ AgentEnds(n) PROVE BackShape
  BY <1>4 DEF WorkerAlone, AgentEnds, wire, BackShape
<1>5. ASSUME NEW n \in Nodes, WorkerTells(n) \/ WorkerStops(n) PROVE BackShape
  <2> DEFINE w == [kind |-> "settled", node |-> n, answer |-> "ok"]
  <2>1. w \in Word /\ w.kind = "settled" /\ w.node = n
    BY DEF Word, Answers
  <2>2. back \in Seq(Word)
    BY DEF OnTheWire
  <2>6. Ran(n) \/ n \in deliver
    BY <1>5 DEF WorkerTells, WorkerStops, B!DeliverTells, B!PersonStops, Ran
  <2>3. Notify({n}) => back' = back \/ back' = Append(back, w)
    BY <2>2, NotifyOne
  <2>4. Notify({}) => back' = back
    BY <2>2, NotifyNone
  <2>5. Notify({n}) \/ Notify({})
    BY <1>5 DEF WorkerTells, WorkerStops
  <2> HIDE DEF w
  <2> QED
    BY <2>1, <2>3, <2>4, <2>5, <2>6 DEF BackShape, SaysMore
<1>6. CASE WorkerJudges
  <2>1. CASE UNCHANGED back
    BY <2>1 DEF BackShape
  <2>2. ASSUME B!StartDismissed,
               Answer("start", Head(asked).node, Dismissal(Head(asked).node), Head(asked).chan)
        PROVE  BackShape
    <3> DEFINE n == Head(asked).node
    <3>1. n \in Nodes /\ B!Verdict(n) # "fits"
      BY <1>0, <2>2, JobsOfNodes DEF B!StartDismissed
    <3>2. Dismissal(n) \in Answers \ {"refused"}
      BY <3>1, Dismissed DEF Answers
    <3>3. /\ start' = B!Idle /\ start = B!Idle /\ asked # <<>> /\ asked' = Tail(asked)
          /\ UNCHANGED <<calls, claimed, task>>
      BY <1>6, <2>2 DEF B!StartDismissed, WorkerJudges
    <3>4. \/ back' = back
          \/ /\ up /\ Head(asked).chan = chan
             /\ back' = Append(back, StartWord(n, Dismissal(n)))
      BY <2>2 DEF Answer, StartWord
    <3>7. Dismissal(n) = "peer-busy" => B!Verdict(n) = "peer-busy"
      BY DEF Dismissal
    <3> HIDE DEF n
    <3>5. CASE back' = back
      BY <3>5 DEF BackShape
    <3>6. CASE up /\ Head(asked).chan = chan /\ back' = Append(back, StartWord(n, Dismissal(n)))
      BY <3>2, <3>3, <3>6, <3>7 DEF BackShape, AnswersFirst, n
    <3> QED
      BY <3>4, <3>5, <3>6
  <2> QED
    BY <1>6, <2>1, <2>2 DEF WorkerJudges
<1>7. CASE WorkerStarts \/ WorkerFailsStart
  <2>1. CASE UNCHANGED back
    BY <2>1 DEF BackShape
  <2>2. ASSUME NEW answer \in {"error", "refused", "ok"}, start # B!Idle, start' = B!Idle,
               asked' = asked, answer = "refused" => start.step \in {"judged"},
               Answer("start", start.node, answer, start.chan)
        PROVE  BackShape
    <3>1. \/ back' = back
          \/ up /\ start.chan = chan /\ back' = Append(back, StartWord(start.node, answer))
      BY <2>2 DEF Answer, StartWord
    <3>2. answer \in Answers \ {"peer-busy"}
      BY DEF Answers
    <3> QED
      BY <2>2, <3>1, <3>2 DEF BackShape, AnswersLast
  <2>3. start = B!Idle => start.step = "idle"
    BY IdleStep
  <2>4. CASE WorkerStarts
    BY <2>1, <2>2, <2>3, <2>4 DEF WorkerStarts, B!StartDone, B!StartAbandons
  <2>5. CASE WorkerFailsStart
    <3>1. ASSUME B!StartRefused, NEW answer \in {"error", "refused"},
                 answer = "refused" => start.step \in {"judged"},
                 Answer("start", start.node, answer, start.chan)
          PROVE  BackShape
      BY <2>2, <2>3, <3>1 DEF B!StartRefused, B!Untasked
    <3> QED
      BY <2>1, <2>5, <3>1 DEF WorkerFailsStart
  <2> QED
    BY <1>7, <2>4, <2>5
<1>8. CASE WorkerUnbinds \/ WorkerForgets
  BY <1>8 DEF WorkerUnbinds, WorkerForgets, B!UnbindEnds, B!UnbindDrops, B!UnbindUnlinks,
     BP!Lasting
<1>9. CASE LinkUp \/ Leave
  BY <1>9 DEF LinkUp, Leave, wire, BackShape
<1>10. CASE LinkLost \/ GiverCrashes \/ WorkerCrashes
  <2>1. back' = <<>>
    BY <1>10 DEF LinkLost, GiverCrashes, WorkerCrashes, Silence
  <2>2. ~ up'
    BY <1>0, <1>10 DEF LinkLost, GiverCrashes, WorkerCrashes, B!ChannelCloses, B!Crash,
       worker, BP!TypeOK
  <2> QED
    BY <2>1, <2>2 DEF BackShape
<1> QED
  BY <1>1, <1>2, <1>3, <1>4, <1>5, <1>6, <1>7, <1>8, <1>9, <1>10 DEF Next, WorkerStep

\* Which starts are asked for after a step.
CallsPass ==
  /\ Once(calls')
  /\ \A n \in StartsIn(calls') :
       n \in Calling \/ (up /\ pc[n] = "marking" /\ pc'[n] = "asked" /\ n \notin dead')
  /\ \A n \in Nodes : Took("start", n) => n \in Calling /\ n \notin StartsIn(calls')

LEMMA StartsAreNodes == ASSUME NEW s PROVE StartsIn(s) \subseteq Nodes
BY DEF StartsIn

LEMMA CallsDoPass ==
  ASSUME Inv, Next
  PROVE  CallsPass
<1> USE DEF Inv, WireInv
<1>0. calls \in Seq(Call) /\ Once(calls)
  BY DEF OnTheWire, OneStart
<1>1. Once(calls') /\ \A n \in StartsIn(calls') :
        n \in Calling \/ (up /\ pc[n] = "marking" /\ pc'[n] = "asked" /\ n \notin dead')
  <2>1. CASE calls' = calls
    BY <1>0, <2>1 DEF Calling
  <2>2. CASE calls # <<>> /\ calls' = Tail(calls)
    BY <1>0, <2>2, StartsTail DEF Calling
  <2>3. ASSUME NEW n \in Nodes, NEW k \in {"result", "ack", "stop", "forget"}, Asks(k, n)
        PROVE  Once(calls') /\ StartsIn(calls') \subseteq Calling
    <3> DEFINE c == [kind |-> k, node |-> n]
    <3>1. c \in Call /\ c.kind # "start" /\ c.node \in Nodes /\ calls' = Append(calls, c)
      BY <2>3 DEF Asks, Call
    <3> HIDE DEF c
    <3> QED
      BY <1>0, <3>1, StartsAppend DEF Calling
  <2>4. ASSUME NEW n \in Nodes, A!StartAsks(n), Asks("start", n)
        PROVE  /\ Once(calls')
               /\ \A m \in StartsIn(calls') :
                    \/ m \in Calling
                    \/ up /\ pc[m] = "marking" /\ pc'[m] = "asked" /\ m \notin dead'
    <3> DEFINE c == [kind |-> "start", node |-> n]
    <3>1. c \in Call /\ c.kind = "start" /\ c.node = n /\ calls' = Append(calls, c)
      BY <2>4 DEF Asks, Call
    <3>2. pc[n] = "marking" /\ pc'[n] = "asked" /\ n \notin dead' /\ up
      BY <2>4 DEF A!StartAsks, A!To, A!carried, OnTheWire, A!Linked, AP!OwedInv, AP!TypeOK
    <3>3. n \notin StartsIn(calls)
      BY <3>2 DEF OneStart, Calling
    <3> HIDE DEF c
    <3> QED
      BY <1>0, <3>1, <3>2, <3>3, StartsAppend DEF Calling
  <2>5. CASE calls' = <<>>
    BY <2>5, OnNothing DEF StartsIn, Once
  <2> QED
    BY <2>1, <2>2, <2>3, <2>4, <2>5, CallsAre DEF CallsShape
<1>2. ASSUME NEW n \in Nodes, Took("start", n) PROVE n \in Calling /\ n \notin StartsIn(calls')
  <2>1. Head(calls).kind = "start" /\ Head(calls).node = n /\ calls # <<>> /\ calls' = Tail(calls)
    BY <1>2 DEF Took
  <2> QED
    BY <1>0, <2>1, StartsTail DEF Calling
<1> QED
  BY <1>1, <1>2 DEF CallsPass

\* Which starts wait or are at work after a step.
WaitsAfter == {n \in Nodes : [node |-> n, chan |-> chan'] \in On(asked')}
WorksAfter == {n \in Nodes : start' # B!Idle /\ start'.node = n /\ start'.chan = chan'}

QueuePasses ==
  /\ \A n \in WaitsAfter : n \in Waits \/ Took("start", n)
  /\ \A n \in WorksAfter : n \in Works \/ n \in Waits
  /\ WaitsAfter \cap WorksAfter = {}

LEMMA HeadLeaves ==
  ASSUME BP!TypeOK, InOrder, asked # <<>>, Head(asked).chan = chan
  PROVE  /\ Head(asked).node \in Waits
         /\ [node |-> Head(asked).node, chan |-> chan] \notin On(Tail(asked))
<1> DEFINE h == Head(asked)
<1>1. asked \in Seq(B!Jobs) /\ h \in On(asked) /\ h \in B!Jobs /\ h.node \in Nodes
  BY JobsOfNodes
<1>2. h = [node |-> h.node, chan |-> chan]
  <2>1. \A j \in B!Jobs : j = [node |-> j.node, chan |-> j.chan]
    BY DEF B!Jobs
  <2> QED
    BY <1>1, <2>1
<1>3. h \notin On(Tail(asked))
  <2>1. /\ Len(asked) \in Nat /\ Len(asked) >= 1 /\ Len(Tail(asked)) = Len(asked) - 1
        /\ h = asked[1] /\ \A i \in 1 .. Len(Tail(asked)) : Tail(asked)[i] = asked[i + 1]
    BY <1>1, OnTail
  <2>2. \A i \in 1 .. Len(Tail(asked)) : asked[1] # asked[i + 1]
    <3>1. \A i \in 1 .. Len(Tail(asked)) : i + 1 \in 1 .. Len(asked) /\ 1 # i + 1
      BY <2>1
    <3>2. 1 \in 1 .. Len(asked)
      BY <2>1
    <3> QED
      BY <3>1, <3>2 DEF InOrder
  <2> QED
    BY <2>1, <2>2 DEF On
<1> HIDE DEF h
<1>4. h.node \in Waits
  BY <1>1, <1>2 DEF Waits
<1> QED
  BY <1>2, <1>3, <1>4 DEF h

LEMMA QueueDoesPass ==
  ASSUME CanUnbind = FALSE, Inv, Next, chan' = chan
  PROVE  QueuePasses
<1> USE DEF Inv, WireInv
<1>0. BP!TypeOK /\ asked \in Seq(B!Jobs) /\ InOrder /\ Waits \cap Works = {}
  BY JobsOfNodes DEF BP!Lasting, OneStart
<1>1. CASE Arrives
  <2>1. PICK n \in Nodes : LET j == [node |-> n, chan |-> chan] IN
          /\ Took("start", n) /\ j \in B!Jobs
          /\ asked' = Append(asked, j) /\ start' = start
    BY <1>1 DEF Arrives
  <2> DEFINE j == [node |-> n, chan |-> chan]
  <2>2. On(asked') = On(asked) \cup {j}
    BY <1>0, <2>1, OnAppend
  <2>3. \A m \in WaitsAfter : m \in Waits \/ m = n
    BY <2>2 DEF WaitsAfter, Waits
  <2>4. WorksAfter = Works
    BY <2>1 DEF WorksAfter, Works
  <2>5. n \notin Works
    <3>1. n \in Calling
      BY <2>1, CallsDoPass DEF CallsPass
    <3> QED
      BY <3>1 DEF OneStart
  <2> QED
    BY <1>0, <2>1, <2>3, <2>4, <2>5 DEF QueuePasses
<1>2. CASE IsJudged
  <2>1. On(asked') \subseteq On(asked)
    BY <1>0, <1>2, OnTail DEF IsJudged
  <2>2. WaitsAfter \subseteq Waits
    BY <2>1 DEF WaitsAfter, Waits
  <2>3. ASSUME NEW n \in WorksAfter PROVE n \in Waits /\ n \notin WaitsAfter
    <3>1. Head(asked).node = n /\ Head(asked).chan = chan /\ asked # <<>> /\ asked' = Tail(asked)
      BY <1>2, <2>3 DEF WorksAfter, IsJudged
    <3> QED
      BY <1>0, <3>1, HeadLeaves DEF WaitsAfter
  <2> QED
    BY <2>2, <2>3 DEF QueuePasses
<1>3. CASE RunsOn
  <2>1. WaitsAfter = Waits
    BY <1>3 DEF RunsOn, WaitsAfter, Waits
  <2>2. WorksAfter \subseteq Works
    BY <1>3 DEF RunsOn, WorksAfter, Works
  <2> QED
    BY <1>0, <2>1, <2>2 DEF QueuePasses
<1>4. CASE asked' = <<>> /\ start' = B!Idle
  BY <1>4, OnNothing DEF QueuePasses, WaitsAfter, WorksAfter
<1> QED
  BY <1>1, <1>2, <1>3, <1>4, Moves DEF QueueMoves

\* Which starts are answered after a step.
BackPasses ==
  /\ Once(back')
  /\ \A n \in StartsIn(back') :
       \/ n \in Answered
       \/ n \in Waits \cup Works /\ n \notin WaitsAfter \cup WorksAfter
  /\ \A n \in Nodes : (\E a : Hears("start", n, a)) => n \in Answered /\ n \notin StartsIn(back')

LEMMA BackDoesPass ==
  ASSUME CanUnbind = FALSE, Inv, Next, chan' = chan
  PROVE  BackPasses
<1> USE DEF Inv, WireInv
<1>0. /\ back \in Seq(Word) /\ Once(back) /\ BP!TypeOK
      /\ Waits \cap (Works \cup Answered) = {} /\ Works \cap Answered = {}
  BY DEF OnTheWire, OneStart, BP!Lasting
<1>a. ASSUME NEW n \in Nodes, NEW a \in Answers, n \notin Answered,
             back' = Append(back, StartWord(n, a))
      PROVE  Once(back') /\ \A m \in StartsIn(back') : m \in Answered \/ m = n
  <2>1. StartWord(n, a) \in Word /\ StartWord(n, a).node = n
    BY DEF Word, StartWord
  <2> QED
    BY <1>0, <1>a, <2>1, StartsAppend DEF Answered
<1>1. /\ Once(back')
      /\ \A n \in StartsIn(back') :
           \/ n \in Answered
           \/ n \in Waits \cup Works /\ n \notin WaitsAfter \cup WorksAfter
  <2>1. CASE back' = back
    BY <1>0, <2>1 DEF Answered
  <2>2. CASE back # <<>> /\ back' = Tail(back)
    BY <1>0, <2>2, StartsTail DEF Answered
  <2>3. ASSUME NEW w \in Word, w.kind # "start", back' = Append(back, w)
        PROVE  Once(back') /\ StartsIn(back') \subseteq Answered
    <3>1. w.node \in Nodes
      BY DEF Word
    <3> QED
      BY <1>0, <2>3, <3>1, StartsAppend DEF Answered
  <2>4. CASE AnswersFirst
    <3> DEFINE n == Head(asked).node
    <3>1. n \in Nodes /\ n \in Waits /\ n \notin WaitsAfter
      BY <1>0, <2>4, JobsOfNodes, HeadLeaves DEF AnswersFirst, WaitsAfter
    <3>2. n \notin WorksAfter /\ n \notin Answered
      BY <1>0, <2>4, <3>1 DEF AnswersFirst, WorksAfter
    <3>3. PICK a \in Answers : back' = Append(back, StartWord(n, a))
      BY <2>4 DEF AnswersFirst
    <3> HIDE DEF n
    <3> QED
      BY <1>a, <3>1, <3>2, <3>3
  <2>5. CASE AnswersLast
    <3> DEFINE n == start.node
    <3>1. n \in Nodes /\ n \in Works /\ n \notin WorksAfter
      BY <1>0, <2>5, StartsInStep DEF AnswersLast, WorksAfter, Works
    <3>2. n \notin WaitsAfter /\ n \notin Answered
      BY <1>0, <2>5, <3>1 DEF AnswersLast, WaitsAfter, Waits
    <3>3. PICK a \in Answers : back' = Append(back, StartWord(n, a))
      BY <2>5 DEF AnswersLast
    <3> HIDE DEF n
    <3> QED
      BY <1>a, <3>1, <3>2, <3>3
  <2>6. CASE back' = <<>>
    BY <2>6, OnNothing DEF StartsIn, Once
  <2> QED
    BY <2>1, <2>2, <2>3, <2>4, <2>5, <2>6, BackIs DEF BackShape, IsHeard, SaysMore
<1>2. ASSUME NEW n \in Nodes, NEW a, Hears("start", n, a)
      PROVE  n \in Answered /\ n \notin StartsIn(back')
  <2>1. Head(back).kind = "start" /\ Head(back).node = n /\ back # <<>> /\ back' = Tail(back)
    BY <1>2 DEF Hears
  <2> QED
    BY <1>0, <2>1, StartsTail DEF Answered
<1> QED
  BY <1>1, <1>2 DEF BackPasses

OneAfter ==
  /\ Once(calls') /\ Once(back')
  /\ StartsIn(calls') \cap (WaitsAfter \cup WorksAfter \cup StartsIn(back')) = {}
  /\ WaitsAfter \cap (WorksAfter \cup StartsIn(back')) = {}
  /\ WorksAfter \cap StartsIn(back') = {}
  /\ up' => \A n \in StartsIn(calls') \cup WaitsAfter \cup WorksAfter \cup StartsIn(back') :
              pc'[n] = "asked" /\ n \notin dead'

LEMMA OneStartKept ==
  ASSUME CanUnbind = FALSE, Inv, Next
  PROVE  OneStart'
<1> USE DEF Inv, WireInv
<1>0. link = up /\ link' = up' /\ BP!TypeOK /\ AP!TypeOK /\ OneStart
  BY LinkIsUp DEF OnTheWire, BP!Lasting, AP!OwedInv
<1>1. CASE LinkUp
  <2>1. ~ up /\ chan' = chan + 1 /\ asked' = asked /\ start' = start
        /\ calls' = calls /\ back' = back
    BY <1>1 DEF LinkUp, B!ChannelOpens, wire
  <2>2. calls' = <<>> /\ back' = <<>>
    BY <2>1 DEF OnTheWire
  <2>3. StartsIn(calls') = {} /\ StartsIn(back') = {} /\ Once(calls') /\ Once(back')
    BY <2>2, OnNothing DEF StartsIn, Once
  <2>4. \A j \in On(asked) : j.chan # chan'
    BY <2>1, JobsOfNodes, BoundsAssumption, ChannelsRise, <1>0 DEF InOrder, On, B!Jobs, B!Channels
  <2>5. start # B!Idle => start.chan # chan'
    BY <2>1, <1>0, StartsInStep, BoundsAssumption, ChannelsRise DEF InOrder
  <2>6. WaitsAfter = {} /\ WorksAfter = {}
    BY <2>1, <2>4, <2>5 DEF WaitsAfter, WorksAfter
  <2> QED
    BY <2>3, <2>6 DEF OneStart, Calling, Waits, Works, Answered, WaitsAfter, WorksAfter,
       StartsIn, Once, On, B!Idle
<1>2. CASE ~ LinkUp
  <2>1. chan' = chan
    BY <1>2, SameChannel DEF LinkLost, GiverCrashes, WorkerCrashes, B!ChannelCloses, B!Crash,
       worker
  <2>2. CallsPass /\ QueuePasses /\ BackPasses
    BY <2>1, CallsDoPass, QueueDoesPass, BackDoesPass
  <2>3. CASE up'
    <3>1. up
      BY <1>2, <2>3, SameChannel DEF LinkLost, GiverCrashes, WorkerCrashes, B!ChannelCloses,
         B!Crash, worker
    <3>2. \A n \in Calling \cup Waits \cup Works \cup Answered : pc[n] = "asked" /\ n \notin dead
      BY <3>1 DEF OneStart
    <3>3. /\ Once(calls') /\ Once(back')
          /\ StartsIn(calls') \cap (WaitsAfter \cup WorksAfter \cup StartsIn(back')) = {}
          /\ WaitsAfter \cap (WorksAfter \cup StartsIn(back')) = {}
          /\ WorksAfter \cap StartsIn(back') = {}
      BY <2>2, <3>2, StartsAreNodes
         DEF OneStart, CallsPass, QueuePasses, BackPasses, WaitsAfter
    <3>4. ASSUME NEW n \in StartsIn(calls') \cup WaitsAfter \cup WorksAfter \cup StartsIn(back')
          PROVE  pc'[n] = "asked" /\ n \notin dead'
      <4>1. n \in Nodes
        BY <3>4, StartsAreNodes DEF WaitsAfter, WorksAfter
      <4>2. \/ n \in Calling \cup Waits \cup Works \cup Answered
            \/ pc'[n] = "asked" /\ n \notin dead'
        BY <2>2, <3>4, <4>1 DEF CallsPass, QueuePasses, BackPasses
      <4>3. CASE pc[n] = "asked" /\ n \notin dead
        <5>1. ASSUME NEW a, Hears("start", n, a) PROVE FALSE
          <6>1. n \in Answered /\ n \notin StartsIn(back')
            BY <2>2, <4>1, <5>1 DEF BackPasses
          <6>2. n \notin Calling \cup Waits \cup Works
            BY <6>1 DEF OneStart
          <6> QED
            BY <2>2, <3>4, <4>1, <4>3, <6>1, <6>2 DEF CallsPass, QueuePasses, OneStart
        <5>2. Deaf(n)
          BY <1>0, <4>1, <4>3, <5>1, HeardWell
        <5> QED
          BY <1>0, <2>3, <4>3, <5>2 DEF Deaf
      <4> QED
        BY <3>2, <4>2, <4>3
    <3> QED
      BY <3>3, <3>4 DEF OneAfter, OneStart, Calling, Waits, Works, Answered, WaitsAfter,
         WorksAfter, StartsIn, Once, On, B!Idle
  <2>4. CASE ~ up'
    <3>1. calls' = <<>> /\ back' = <<>>
      BY <2>4, Moves DEF CallsWell, BackWell
    <3>2. StartsIn(calls') = {} /\ StartsIn(back') = {} /\ Once(calls') /\ Once(back')
      BY <3>1, OnNothing DEF StartsIn, Once
    <3>3. WaitsAfter \cap WorksAfter = {}
      BY <2>2 DEF QueuePasses
    <3> QED
      BY <2>4, <3>2, <3>3 DEF OneStart, Calling, Waits, Works, Answered, WaitsAfter, WorksAfter,
         StartsIn, Once, On, B!Idle
  <2> QED
    BY <2>3, <2>4
<1> QED
  BY <1>1, <1>2

\* How a step moves the tasks of the working machine: a start opens one, or one
\* settles, and the giving machine does nothing then.
Opens ==
  /\ start # B!Idle /\ start.node \in Nodes
  /\ task[start.node] = "none"
  /\ task' = [task EXCEPT ![start.node] = "open"]
  /\ start' # B!Idle /\ start'.node = start.node

Settles ==
  \E n \in Nodes, s \in A!Settled :
    task[n] = "open" /\ task' = [task EXCEPT ![n] = s]

LEMMA TasksMove ==
  ASSUME CanUnbind = FALSE, Inv, Next
  PROVE  \/ task' = task
         \/ (Opens \/ Settles) /\ given' = given
<1> USE DEF Inv, BP!Lasting
<1>0. BP!TypeOK /\ linked /\ task \in [Nodes -> {"none", "open"} \cup A!Settled]
  BY DEF BP!TypeOK, BP!Status, BP!Settled, A!Settled
<1>1. ASSUME NEW n \in Nodes, GiverStep(n) \/ GiverEvent(n) PROVE task' = task
  BY <1>1 DEF GiverStep, GiverAlone, GiverAsks, GiverHears, GiverIsTold, GiverEvent, worker
<1>2. ASSUME NEW n \in Nodes, WorkerStep(n) PROVE task' = task \/ (Settles /\ given' = given)
  <2>1. CASE WorkerAnswers(n) \/ WorkerStopSettles(n) \/ WorkerTells(n)
    BY <2>1 DEF WorkerAnswers, WorkerRefuses, WorkerTakesStart, WorkerReports,
       WorkerIsAcked, WorkerTakesStop, WorkerStopSettles, WorkerTells, worker,
       B!StartArrives, B!ResultAcked, B!StopArrives, B!StopSettles, B!DeliverTells
  <2>2. CASE B!AgentLeaves(n) \/ B!OweResult(n) \/ B!DeliverEnds(n)
    BY <2>2 DEF B!AgentLeaves, B!OweResult, B!DeliverEnds
  <2>3. ASSUME B!StopEnds(n), UNCHANGED giver PROVE task' = task \/ (Settles /\ given' = given)
    <3>1. CASE task[n] = "open"
      <4>1. task' = [task EXCEPT ![n] = "cancelled"]
        BY <1>0, <2>3, <3>1 DEF B!StopEnds
      <4> QED
        BY <2>3, <3>1, <4>1 DEF Settles, A!Settled, giver
    <3>2. CASE task[n] # "open"
      BY <1>0, <2>3, <3>2 DEF B!StopEnds
    <3> QED
      BY <3>1, <3>2
  <2> QED
    BY <1>2, <2>1, <2>2, <2>3 DEF WorkerStep, WorkerAlone
<1>3. ASSUME NEW n \in Nodes, AgentEnds(n) \/ WorkerStops(n) PROVE Settles /\ given' = given
  <2>1. PICK s \in A!Settled : task[n] = "open" /\ task' = [task EXCEPT ![n] = s]
    BY <1>3 DEF AgentEnds, WorkerStops, B!AgentEnds, B!PersonStops, A!Settled
  <2> QED
    BY <1>3, <2>1 DEF Settles, AgentEnds, WorkerStops, giver
<1>4. CASE WorkerJudges
  BY <1>4 DEF WorkerJudges, B!StartDismissed, B!StartJudged
<1>5. CASE WorkerStarts \/ WorkerFailsStart
  <2>0. given' = given
    BY <1>5 DEF WorkerStarts, WorkerFailsStart, giver
  <2>1. CASE B!StartClaims \/ B!StartEnqueues \/ B!StartAbandons \/ B!StartDone \/ B!StartRefused
    BY <2>1 DEF B!StartClaims, B!StartEnqueues, B!StartAbandons, B!StartDone, B!StartRefused
  <2>2. CASE B!StartOpens \/ B!StartFails
    <3>1. start # B!Idle
      BY <2>2, IdleStep DEF B!StartOpens, B!StartFails
    <3>2. start.node \in Nodes /\ \A s : /\ [start EXCEPT !.step = s].node = start.node
                                         /\ s # "idle" => [start EXCEPT !.step = s] # B!Idle
      BY <1>0, <3>1, StartsInStep
    <3>3. CASE B!StartOpens
      BY <2>0, <3>1, <3>2, <3>3 DEF B!StartOpens, Opens
    <3>4. CASE B!StartFails
      <4>1. \/ task' = task
            \/ task[start.node] = "open" /\ task' = [task EXCEPT ![start.node] = "failed"]
        BY <3>4 DEF B!StartFails
      <4> QED
        BY <2>0, <3>2, <4>1 DEF Settles, A!Settled
    <3> QED
      BY <2>2, <3>3, <3>4
  <2> QED
    BY <1>5, <2>1, <2>2 DEF WorkerStarts, WorkerFailsStart
<1>6. CASE WorkerUnbinds \/ WorkerForgets
  BY <1>6 DEF WorkerUnbinds, WorkerForgets, B!UnbindEnds, B!UnbindDrops, B!UnbindUnlinks
<1>7. CASE LinkUp \/ LinkLost \/ Leave \/ GiverCrashes \/ WorkerCrashes
  BY <1>7 DEF LinkUp, LinkLost, Leave, GiverCrashes, WorkerCrashes, worker,
     B!ChannelOpens, B!ChannelCloses, B!Crash
<1> QED
  BY <1>1, <1>2, <1>3, <1>4, <1>5, <1>6, <1>7 DEF Next

LEMMA RefusedKept ==
  ASSUME CanUnbind = FALSE, Inv, Next
  PROVE  RefusedNeverRan'
<1> USE DEF Inv, WireInv
<1>0. /\ BP!TypeOK /\ OneStart /\ InOrder /\ asked \in Seq(B!Jobs)
      /\ task \in [Nodes -> {"none", "open"} \cup A!Settled]
  BY JobsOfNodes DEF BP!Lasting, BP!TypeOK, BP!Status, BP!Settled, A!Settled
\* The node of a refused start has no other try, before and after the step.
<1>1. ASSUME NEW m \in Nodes, ~ Ran(m), \A j \in On(asked) : j.node # m,
             start # B!Idle => start.node # m, m \notin Calling
      PROVE  /\ \A j \in On(asked') : j.node # m
             /\ start' # B!Idle => start'.node # m
  <2>1. CASE Arrives
    <3>1. PICK n \in Nodes : LET j == [node |-> n, chan |-> chan] IN
            /\ Took("start", n) /\ j \in B!Jobs
            /\ asked' = Append(asked, j) /\ start' = start
      BY <2>1 DEF Arrives
    <3> DEFINE j == [node |-> n, chan |-> chan]
    <3>2. On(asked') = On(asked) \cup {j}
      BY <1>0, <3>1, OnAppend
    <3>3. n # m
      BY <1>1, <3>1, CallsDoPass DEF CallsPass
    <3> QED
      BY <1>1, <3>1, <3>2, <3>3
  <2>2. CASE IsJudged
    <3>1. On(asked') \subseteq On(asked) /\ Head(asked) \in On(asked)
      BY <1>0, <2>2, OnTail DEF IsJudged
    <3> QED
      BY <1>1, <2>2, <3>1 DEF IsJudged
  <2>3. CASE RunsOn
    BY <1>1, <2>3 DEF RunsOn
  <2>4. CASE asked' = <<>> /\ start' = B!Idle
    BY <2>4, OnNothing
  <2> QED
    BY <2>1, <2>2, <2>3, <2>4, Moves DEF QueueMoves
<1>2. ASSUME NEW w \in On(back'), w.kind = "start", w.answer = "refused"
      PROVE  /\ w.node \in Nodes /\ ~ Ran(w.node)
             /\ \A j \in On(asked') : j.node # w.node
             /\ start' # B!Idle => start'.node # w.node
  <2>1. CASE w \in On(back)
    <3>1. /\ ~ Ran(w.node) /\ \A j \in On(asked) : j.node # w.node
          /\ start # B!Idle => start.node # w.node
      BY <1>2, <2>1 DEF RefusedNeverRan
    <3>2. w.node \in Nodes /\ w.node \notin Calling
      <4>1. w.node \in Nodes
        BY <2>1, WordsOfNodes DEF OnTheWire
      <4>2. w.node \in Answered
        BY <1>2, <2>1, <4>1 DEF Answered, StartsIn
      <4> QED
        BY <1>0, <4>1, <4>2 DEF OneStart
    <3> QED
      BY <1>1, <3>1, <3>2
  <2>2. ASSUME w \notin On(back) PROVE AnswersLast /\ w.node = start.node /\ start.step = "judged"
    <3>0. back \in Seq(Word)
      BY DEF OnTheWire
    <3>1. ASSUME NEW v, v \in Word, back' = Append(back, v) PROVE w = v
      BY <1>2, <2>2, <3>0, <3>1, OnAppend
    <3>2. CASE back' = back
      BY <1>2, <2>2, <3>2
    <3>3. CASE back # <<>> /\ back' = Tail(back)
      BY <1>2, <2>2, <3>0, <3>3, OnTail
    <3>4. CASE \E v \in Word : v.kind # "start" /\ back' = Append(back, v)
      BY <1>2, <3>1, <3>4
    <3>5. CASE AnswersFirst
      <4>1. PICK answer \in Answers \ {"refused"} :
              back' = Append(back, StartWord(Head(asked).node, answer))
        BY <3>5 DEF AnswersFirst
      <4>2. StartWord(Head(asked).node, answer) \in Word
        BY <1>0, <3>5, JobsOfNodes DEF AnswersFirst, StartWord, Word
      <4> QED
        BY <1>2, <3>1, <4>1, <4>2 DEF StartWord
    <3>6. CASE AnswersLast
      <4>1. PICK answer \in Answers :
              /\ answer = "refused" => start.step \in {"judged"}
              /\ back' = Append(back, StartWord(start.node, answer))
        BY <3>6 DEF AnswersLast
      <4>2. StartWord(start.node, answer) \in Word
        BY <1>0, <3>6, StartsInStep DEF AnswersLast, StartWord, Word
      <4> QED
        BY <1>2, <3>1, <3>6, <4>1, <4>2 DEF StartWord
    <3>7. CASE back' = <<>>
      BY <1>2, <3>7, OnNothing
    <3> QED
      BY <3>2, <3>3, <3>4, <3>5, <3>6, <3>7, BackIs DEF BackShape, IsHeard, SaysMore
  <2>3. ASSUME w \notin On(back)
        PROVE  /\ w.node \in Nodes /\ ~ Ran(w.node)
               /\ \A j \in On(asked') : j.node # w.node
               /\ start' # B!Idle => start'.node # w.node
    <3>1. /\ start # B!Idle /\ start' = B!Idle /\ asked' = asked /\ start.chan = chan
          /\ w.node = start.node /\ start.step = "judged"
      BY <2>2, <2>3 DEF AnswersLast
    <3>2. w.node \in Nodes /\ w.node \in Works /\ w.node \notin Waits
      BY <1>0, <3>1, StartsInStep DEF Works, OneStart
    <3>3. ~ Ran(w.node)
      BY <3>1 DEF BP!Lasting, Ran
    <3>4. ASSUME NEW j \in On(asked) PROVE j.node # w.node
      <4>1. j \in B!Jobs
        BY <1>0, JobsOfNodes
      <4>2. PICK i \in 1 .. Len(asked) : asked[i] = j
        BY DEF On
      <4>3. chan \in Nat /\ j.chan \in Nat /\ j = [node |-> j.node, chan |-> j.chan]
        BY <1>0, <4>1, BoundsAssumption DEF B!Jobs, B!Channels, BP!TypeOK
      <4>4. j.chan = chan
        <5>1. j.chan <= chan /\ chan <= j.chan
          BY <1>0, <3>1, <4>2 DEF InOrder
        <5> QED
          BY <4>3, <5>1
      <4> QED
        BY <3>2, <4>3, <4>4 DEF Waits
    <3> QED
      BY <3>1, <3>2, <3>3, <3>4
  <2> QED
    BY <2>1, <2>3
\* Only a start of the node could open its task.
<1>3. ASSUME NEW m \in Nodes, ~ Ran(m), start' # B!Idle => start'.node # m
      PROVE  task'[m] = "none"
  <2>1. task[m] = "none"
    BY <1>3 DEF Ran
  <2>2. CASE Opens
    BY <1>0, <1>3, <2>1, <2>2 DEF Opens
  <2>3. CASE Settles
    BY <1>0, <2>1, <2>3 DEF Settles
  <2> QED
    BY <2>1, <2>2, <2>3, TasksMove
<1>4. \A w \in On(back') : w.kind = "start" /\ w.answer = "refused" =>
        /\ task'[w.node] = "none"
        /\ \A j \in On(asked') : j.node # w.node
        /\ start' # B!Idle => start'.node # w.node
  BY <1>2, <1>3
<1> QED
  BY <1>4 DEF RefusedNeverRan, Ran, On, B!Idle

LEMMA WireBegins == ASSUME Init, AP!OwedInv, BP!Lasting PROVE WireInv
<1>0. /\ calls = <<>> /\ back = <<>> /\ asked = <<>> /\ start = B!Idle
      /\ On(calls) = {} /\ On(back) = {} /\ On(asked) = {}
  BY OnNothing DEF Init, B!Init
<1>a. ~ link /\ ~ up /\ link = up /\ \A n \in Nodes : pc[n] = "idle"
  BY DEF Init, A!Init, B!Init
<1>1. OnTheWire
  <2>1. calls \in Seq(Call) /\ back \in Seq(Word)
    BY <1>0
  <2> QED
    BY <1>0, <1>a, <2>1 DEF OnTheWire, A!Linked, A!TakeSteps
<1> USE DEF Init, A!Init, B!Init
<1>2. KnownFirst
  BY <1>0 DEF KnownFirst
<1>3. RanFirst
  BY <1>0, IdleStep DEF RanFirst, Housed
<1>4. WordsTrue /\ GivesUpWithCause
  BY <1>0 DEF WordsTrue, GivesUpWithCause
<1>5. InOrder
  BY <1>0 DEF InOrder
<1>6. OneStart
  BY <1>0 DEF OneStart, Once, Calling, Answered, StartsIn, Waits, Works
<1>7. RefusedNeverRan
  BY <1>0 DEF RefusedNeverRan
<1> QED
  BY <1>1, <1>2, <1>3, <1>4, <1>5, <1>6, <1>7 DEF WireInv

\* What is proved of each machine alone and of the wire between them.
LEMMA TwoMachines ==
  ASSUME CanUnbind = FALSE
  PROVE  Spec => []Inv
<1>1. Init /\ AP!OwedInv /\ BP!Lasting => Inv
  BY WireBegins DEF Inv
<1>2. Inv /\ AP!OwedInv' /\ BP!Lasting' /\ [Next]_vars => Inv'
  <2>1. ASSUME Inv, AP!OwedInv', BP!Lasting', Next PROVE Inv'
    BY <2>1, OnTheWireKept, KnownFirstKept, RanFirstKept, WordsTrueKept, CausesKept,
       InOrderKept, OneStartKept, RefusedKept DEF Inv, WireInv
  <2>2. ASSUME Inv, AP!OwedInv', BP!Lasting', UNCHANGED vars PROVE Inv'
    BY <2>2 DEF vars, giver, worker, wire, Inv, WireInv, OnTheWire, A!Linked, KnownFirst,
       Known, RanFirst, Housed, Ran, WordsTrue, TrueWord, A!Settled, GivesUpWithCause,
       InOrder, OneStart, Calling, Waits, Works, Answered, StartsIn, Once, On,
       RefusedNeverRan, B!Idle, A!TakeSteps, Word, Answers, Call
  <2> QED
    BY <2>1, <2>2
<1> QED
  BY <1>1, <1>2, MachinesHold, PTL DEF Spec

-----------------------------------------------------------------------------
(* The promise: every step gives, runs, ends, settles, or does none of it. *)

\* What the giving machine may do to the task of a node.
Turns(n, from, to) == given[n] = from /\ given' = [given EXCEPT ![n] = to]

\* Neither a task of the node nor a start that could open one.
Nothing(n) ==
  /\ ~ Ran(n) /\ n \notin Calling
  /\ \A j \in On(asked) : j.node # n
  /\ start # B!Idle => start.node # n

MayFail(n) ==
  \/ Nothing(n) \/ task[n] \in {"failed", "cancelled"}
  \/ CanGiveUp \/ CanLeave \/ CanRefuseSend

GivenMoves ==
  \/ given' = given
  \/ \E n \in Nodes :
       \/ Turns(n, "none", "open")
       \/ CanCancel /\ Turns(n, "open", "cancelled")
       \/ task[n] = "done" /\ Turns(n, "open", "done")
       \/ MayFail(n) /\ Turns(n, "open", "failed")

LEMMA FailsWithCause ==
  ASSUME AP!TypeOK, NEW n \in Nodes, A!FailTask(n), MayFail(n)
  PROVE  GivenMoves
<1>1. CASE given[n] = "open"
  BY <1>1 DEF A!FailTask, GivenMoves, Turns
<1>2. CASE given[n] # "open"
  <2>1. given' = given
    BY <1>2 DEF A!FailTask, AP!TypeOK
  <2> QED
    BY <2>1 DEF GivenMoves
<1> QED
  BY <1>1, <1>2

\* What a word that is heard says is true.
LEMMA HeardIsTrue ==
  ASSUME Inv, NEW k, NEW n \in Nodes, NEW answer, Hears(k, n, answer)
  PROVE  /\ TrueWord([kind |-> k, node |-> n, answer |-> answer])
         /\ k = "start" /\ answer = "refused" => Nothing(n)
<1> DEFINE w == [kind |-> k, node |-> n, answer |-> answer]
<1>1. w \in On(back)
  BY OnTail DEF Hears, Inv, WireInv, OnTheWire
<1>2. w.kind = k /\ w.node = n /\ w.answer = answer
  OBVIOUS
<1> HIDE DEF w
<1>3. k = "start" => n \notin Calling
  <2>1. k = "start" => n \in Answered
    BY <1>1, <1>2 DEF Answered, StartsIn
  <2> QED
    BY <2>1 DEF Inv, WireInv, OneStart
<1>4. TrueWord(w) /\ (k = "start" /\ answer = "refused" => Nothing(n))
  BY <1>1, <1>2, <1>3 DEF Inv, WireInv, WordsTrue, RefusedNeverRan, Nothing
<1> QED
  BY <1>4 DEF w

LEMMA GivenDoesMove ==
  ASSUME Inv, Next
  PROVE  GivenMoves
<1>0. AP!TypeOK
  BY DEF Inv, AP!OwedInv
<1>1. ASSUME given' = given PROVE GivenMoves
  BY <1>1 DEF GivenMoves
<1>2. ASSUME NEW n \in Nodes, GiverAlone(n) PROVE GivenMoves
  <2>1. CASE A!GiveUpFails(n) \/ A!LeaveFails(n)
    <3>1. A!FailTask(n) /\ MayFail(n)
      BY <2>1 DEF A!GiveUpFails, A!LeaveFails, MayFail, Inv, WireInv, GivesUpWithCause
    <3> QED
      BY <1>0, <3>1, FailsWithCause
  <2>2. CASE \/ A!StartIsMoot(n) \/ A!StartWaitsForLink(n) \/ A!StartSends(n)
             \/ A!StartMarks(n) \/ A!StartIsDropped(n) \/ A!StartIsHeard(n)
             \/ A!StartCloses(n) \/ A!StartBreaks(n)
             \/ A!TakeWaitsForLink(n) \/ A!TakeIsStale(n) \/ A!TakeBreaks(n)
             \/ A!GiveOwes(n) \/ A!CancelOwes(n)
    <3>1. given' = given
      BY <2>2 DEF A!disk, A!StartIsMoot, A!StartWaitsForLink, A!StartSends, A!StartMarks,
         A!StartIsDropped, A!StartIsHeard, A!StartCloses, A!StartBreaks,
         A!TakeWaitsForLink, A!TakeIsStale, A!TakeBreaks, A!GiveOwes, A!CancelOwes
    <3> QED
      BY <1>1, <3>1
  <2>3. ASSUME NEW e, A!StopHasNoLink(e) PROVE GivenMoves
    BY <1>1, <2>3 DEF A!StopHasNoLink
  <2> QED
    BY <1>2, <2>1, <2>2, <2>3 DEF GiverAlone
<1>3. ASSUME NEW n \in Nodes, GiverEvent(n) PROVE GivenMoves
  <2>1. CASE A!GiveOpens(n)
    BY <2>1 DEF A!GiveOpens, GivenMoves, Turns
  <2>2. CASE CanCancel /\ A!Cancel(n)
    BY <1>3, <2>2 DEF A!Cancel, GivenMoves, Turns
  <2>3. CASE A!GiveUpDrops(n)
    BY <1>1, <2>3 DEF A!GiveUpDrops
  <2>4. ASSUME NEW e, A!StopExpires(e) PROVE GivenMoves
    BY <1>1, <2>4 DEF A!StopExpires
  <2>5. CASE A!StartIsPutOff(n) \/ A!StartErrs(n)
    BY <1>1, <2>5 DEF A!StartIsPutOff, A!StartErrs
  <2>6. CASE CanRefuseSend /\ A!StartIsRefused(n)
    <3>1. MayFail(n) /\ (given' = given \/ A!FailTask(n))
      BY <2>6 DEF MayFail, A!StartIsRefused
    <3> QED
      BY <1>0, <1>1, <3>1, FailsWithCause
  <2> QED
    BY <1>3, <2>1, <2>2, <2>3, <2>4, <2>5, <2>6 DEF GiverEvent
<1>4. ASSUME NEW n \in Nodes, GiverAsks(n) PROVE GivenMoves
  <2>1. CASE A!StartAsks(n) \/ A!TakeAsks(n)
    BY <1>1, <2>1 DEF A!StartAsks, A!TakeAsks, A!disk
  <2>2. CASE A!TakeSettles(n)
    <3>1. /\ report[n] = task[n] /\ task[n] \in A!Settled
          /\ given' = [given EXCEPT ![n] = IF @ = "open" THEN A!Outcome(report[n]) ELSE @]
      BY <2>2 DEF A!TakeSettles, Inv, WireInv, WordsTrue
    <3>2. CASE given[n] # "open"
      <4>1. given' = given
        BY <1>0, <3>1, <3>2 DEF AP!TypeOK
      <4> QED
        BY <1>1, <4>1
    <3>3. CASE given[n] = "open" /\ task[n] = "done"
      BY <3>1, <3>3 DEF A!Outcome, GivenMoves, Turns
    <3>4. CASE given[n] = "open" /\ task[n] # "done"
      BY <3>1, <3>4 DEF A!Outcome, A!Settled, GivenMoves, Turns, MayFail
    <3> QED
      BY <3>2, <3>3, <3>4
  <2>3. ASSUME NEW e, A!StopAsks(e) PROVE GivenMoves
    BY <1>1, <2>3 DEF A!StopAsks, A!disk
  <2> QED
    BY <1>4, <2>1, <2>2, <2>3 DEF GiverAsks
<1>5. ASSUME NEW n \in Nodes, GiverHears(n) PROVE GivenMoves
  <2>1. CASE \/ A!StartHears(n) \/ A!StartIsPutOff(n) \/ A!StartErrs(n) \/ A!TakeHearsOpen(n)
             \/ A!TakeErrs(n) \/ A!TakeIsAcked(n)
    BY <1>1, <2>1 DEF A!StartHears, A!StartIsPutOff, A!StartErrs, A!TakeHearsOpen,
       A!TakeErrs, A!TakeIsAcked, A!disk
  <2>2. ASSUME NEW s, A!TakeHears(n, s) PROVE GivenMoves
    BY <1>1, <2>2 DEF A!TakeHears, A!disk
  <2>3. ASSUME NEW e, A!StopIsHeard(e) \/ A!StopIsRefused(e) PROVE GivenMoves
    BY <1>1, <2>3 DEF A!StopIsHeard, A!StopIsRefused
  <2>4. CASE Hears("start", n, "refused") /\ A!StartIsRefused(n)
    <3>1. MayFail(n)
      BY <2>4, HeardIsTrue DEF MayFail
    <3>2. given' = given \/ A!FailTask(n)
      BY <2>4 DEF A!StartIsRefused
    <3> QED
      BY <1>0, <1>1, <3>1, <3>2, FailsWithCause
  <2>5. CASE Hears("result", n, "refused") /\ A!TakeIsRefused(n)
    <3>1. MayFail(n)
      BY <2>5, HeardIsTrue DEF MayFail, TrueWord
    <3>2. given' = given \/ A!FailTask(n)
      BY <2>5 DEF A!TakeIsRefused
    <3> QED
      BY <1>0, <1>1, <3>1, <3>2, FailsWithCause
  <2>6. ~ Hears("ack", n, "refused") /\ ~ Hears("result", n, "unknown")
    BY HeardIsTrue DEF TrueWord
  <2> QED
    BY <1>5, <2>1, <2>2, <2>3, <2>4, <2>5, <2>6 DEF GiverHears
<1>6. ASSUME NEW n \in Nodes, GiverIsTold(n) PROVE GivenMoves
  BY <1>1, <1>6 DEF GiverIsTold, A!PeerSettled, A!disk, giver
<1>7. ASSUME NEW n \in Nodes, WorkerStep(n) \/ AgentEnds(n) \/ WorkerStops(n) PROVE GivenMoves
  <2>1. UNCHANGED giver
    BY <1>7 DEF WorkerStep, WorkerAnswers, WorkerRefuses, WorkerTakesStart, WorkerReports,
       WorkerIsAcked, WorkerTakesStop, WorkerStopSettles, WorkerAlone, WorkerTells,
       AgentEnds, WorkerStops
  <2> QED
    BY <1>1, <2>1 DEF giver
<1>8. CASE WorkerJudges \/ WorkerStarts \/ WorkerFailsStart \/ WorkerUnbinds \/ WorkerForgets
  BY <1>1, <1>8 DEF WorkerJudges, WorkerStarts, WorkerFailsStart, WorkerUnbinds,
     WorkerForgets, giver
<1>9. CASE LinkUp \/ LinkLost \/ Leave \/ GiverCrashes \/ WorkerCrashes
  BY <1>1, <1>9 DEF LinkUp, LinkLost, Leave, GiverCrashes, WorkerCrashes, A!LinkUp,
     A!LinkLost, A!Leave, A!Crash, A!disk, giver
<1> QED
  BY <1>2, <1>3, <1>4, <1>5, <1>6, <1>7, <1>8, <1>9 DEF Next, GiverStep

LEMMA StepsKeepPromise ==
  ASSUME CanUnbind = FALSE, Inv, [Next]_vars
  PROVE  [Promise!Next]_Promise!vars
<1> USE DEF Promise!vars
<1>1. CASE UNCHANGED vars
  BY <1>1 DEF vars, giver, worker
<1>2. CASE Next /\ task' = task
  <2>1. ASSUME NEW n \in Nodes, Turns(n, "none", "open") PROVE Promise!Give(n)
    BY <1>2, <2>1 DEF Turns, Promise!Give
  <2>2. ASSUME NEW n \in Nodes, Turns(n, "open", "cancelled") PROVE Promise!Cancel(n)
    BY <1>2, <2>2 DEF Turns, Promise!Cancel
  <2>3. ASSUME NEW n \in Nodes, task[n] = "done", Turns(n, "open", "done") PROVE Promise!Done(n)
    BY <1>2, <2>3 DEF Turns, Promise!Done
  <2>4. ASSUME NEW n \in Nodes, MayFail(n), Turns(n, "open", "failed") PROVE Promise!Fail(n)
    BY <1>2, <2>4 DEF Turns, MayFail, Nothing, Ran, Promise!Fail
  <2> QED
    BY <1>2, <2>1, <2>2, <2>3, <2>4, GivenDoesMove DEF GivenMoves, Promise!Next
<1>3. CASE Next /\ Opens /\ given' = given
  <2>1. given[start.node] # "none"
    BY <1>3 DEF Opens, Inv, WireInv, KnownFirst, Known
  <2>2. Promise!Run(start.node)
    BY <1>3, <2>1 DEF Opens, Promise!Run
  <2> QED
    BY <1>3, <2>2 DEF Opens, Promise!Next
<1>4. CASE Next /\ Settles /\ given' = given
  BY <1>4 DEF Settles, Promise!RunEnds, Promise!Ended, A!Settled, Promise!Next
<1> QED
  BY <1>1, <1>2, <1>3, <1>4, TasksMove

\* remote-tasks.ts:283-287, peer-tasks.ts:140-143: as long as the working machine
\* stays linked, the two machines keep what a task promises through every lost
\* link, restart, retry, stop and leave: its agent runs once and only for a task that
\* was given, and the task is done only if the agent was.
THEOREM PromiseKept ==
  ASSUME CanUnbind = FALSE
  PROVE  Spec => KeepsPromise
<1>1. Init => Promise!Init
  BY DEF Init, A!Init, B!Init, Promise!Init
<1>2. Inv /\ [Next]_vars => [Promise!Next]_Promise!vars
  BY StepsKeepPromise
<1> QED
  BY <1>1, <1>2, TwoMachines, PTL DEF Spec, KeepsPromise, Promise!Spec

LEMMA AsideMoves ==
  ASSUME serving \subseteq Nodes, ended \subseteq Nodes, left \in BOOLEAN,
         claimed \subseteq Nodes, Next
  PROVE  serving' \subseteq Nodes /\ ended' \subseteq Nodes /\ left' \in BOOLEAN
<1>1. ASSUME NEW n \in Nodes, GiverStep(n) \/ GiverEvent(n)
      PROVE  serving' = serving /\ ended' = ended /\ left' = left
  BY <1>1 DEF GiverStep, GiverEvent, GiverAlone, GiverAsks, GiverHears, GiverIsTold, wire
<1>2. ASSUME NEW n \in Nodes, WorkerStep(n)
      PROVE  serving' \subseteq serving \cup {n} /\ ended' = ended /\ left' = left
  BY <1>2 DEF WorkerStep, WorkerAnswers, WorkerRefuses, WorkerTakesStart, WorkerReports,
     WorkerIsAcked, WorkerTakesStop, WorkerStopSettles, WorkerAlone, WorkerTells, wire
<1>3. ASSUME NEW n \in Nodes, AgentEnds(n) \/ WorkerStops(n)
      PROVE  serving' = serving /\ ended' = ended /\ left' = left
  BY <1>3 DEF AgentEnds, WorkerStops, wire
<1>4. CASE WorkerJudges \/ WorkerStarts \/ WorkerFailsStart
  BY <1>4 DEF WorkerJudges, WorkerStarts, WorkerFailsStart
<1>5. CASE WorkerUnbinds \/ WorkerForgets
  BY <1>5 DEF WorkerUnbinds, WorkerForgets, B!OpenNodes
<1>6. CASE LinkUp \/ LinkLost \/ Leave \/ GiverCrashes \/ WorkerCrashes
  BY <1>6 DEF LinkUp, LinkLost, Leave, GiverCrashes, WorkerCrashes, Silence, wire
<1> QED
  BY <1>1, <1>2, <1>3, <1>4, <1>5, <1>6 DEF Next

\* Every variable of the two machines and of the link has its type, and the two
\* machines agree on whether the link is open.
THEOREM TypeCorrect ==
  ASSUME CanUnbind = FALSE
  PROVE  Spec => []TypeOK
<1> DEFINE Aside == serving \subseteq Nodes /\ ended \subseteq Nodes /\ left \in BOOLEAN
<1>1. Init => Aside
  BY DEF Init
<1>2. Inv /\ Aside /\ [Next]_vars => Aside'
  BY AsideMoves DEF vars, wire, Inv, BP!Lasting, BP!TypeOK
<1>3. Inv /\ Aside => TypeOK
  <2>1. AP!TypeOK => A!TypeOK
    BY DEF AP!TypeOK, A!TypeOK, AP!Settled, A!Settled, AP!StartSteps, A!StartSteps,
       AP!TakeSteps, A!TakeSteps, AP!Stops, A!Stops
  <2>2. BP!TypeOK => B!TypeOK
    BY DEF BP!TypeOK, B!TypeOK, BP!Settled, B!Settled, BP!Status, B!Status, BP!Channels,
       B!Channels, BP!Jobs, B!Jobs, BP!StartSteps, B!StartSteps, BP!Idle, B!Idle
  <2> QED
    BY <2>1, <2>2 DEF Inv, WireInv, OnTheWire, AP!OwedInv, BP!Lasting, TypeOK, Word
<1> QED
  BY <1>1, <1>2, <1>3, TwoMachines, PTL DEF Spec

-----------------------------------------------------------------------------
(* Nobody's agent: what is open there is owed here, as long as tasks end by what *)
(* the machines say of them. *)

PlainEvents == ~ (CanUnbind \/ CanGiveUp \/ CanLeave \/ CanRefuseSend \/ CanCancel)

\* The giving machine drops nothing and owes no stop.
PlainInv ==
  /\ \A n \in Nodes : pc[n] \in {"sending", "marking", "asked", "heard"} => given[n] = "open"
  /\ \A n \in Nodes : pc[n] \in {"sending", "marking", "asked"} => n \in starts
  /\ \A n \in giving : given[n] = "open"
  /\ \A n \in lost : /\ given[n] = "open" /\ n \notin starts \cup takes \cup giving
                     /\ pc[n] = "idle"
  /\ \A n \in Nodes : failing[n] = "no"
  /\ stops = {} /\ ending = {} /\ dropping = {} /\ stale = {}

PlainMoves ==
  /\ PlainInv'
  /\ \A m \in giving' \cup lost' : given[m] = "none" \/ m \in giving \cup lost

LEMMA PlainStep ==
  ASSUME PlainEvents, Inv, PlainInv, [Next]_vars
  PROVE  PlainMoves
<1>0. AP!TypeOK /\ AP!GivenFirst /\ AP!GivingIsFirst
  BY DEF Inv, AP!OwedInv
<1> USE DEF PlainMoves, AP!TypeOK, AP!GivenFirst, AP!GivingIsFirst, PlainInv,
            A!disk, A!lane, A!carried, A!stopLane, A!aside, A!To, A!Returns,
            A!ReturnsAndWakes, A!Wake, A!FailTask, A!OweStopTo, A!MarkSent, A!Outcome,
            A!Ready
<1>1. ASSUME NEW n \in Nodes, GiverAlone(n) PROVE PlainMoves
  <2>1. CASE A!StartIsMoot(n) \/ A!StartWaitsForLink(n) \/ A!StartSends(n)
    BY <1>0, <2>1 DEF A!StartIsMoot, A!StartWaitsForLink, A!StartSends
  <2>2. CASE A!StartMarks(n) \/ A!StartIsDropped(n)
    BY <1>0, <2>2 DEF A!StartMarks, A!StartIsDropped
  <2>3. CASE A!StartIsHeard(n)
    BY <1>0, <2>3 DEF A!StartIsHeard
  <2>4. CASE A!StartCloses(n)
    BY <1>0, <2>4 DEF A!StartCloses
  <2>5. CASE A!StartBreaks(n)
    BY <1>0, <2>5 DEF A!StartBreaks
  <2>6. CASE A!TakeWaitsForLink(n) \/ A!TakeIsStale(n) \/ A!TakeBreaks(n)
    BY <1>0, <2>6 DEF A!TakeWaitsForLink, A!TakeIsStale, A!TakeBreaks, A!TakeSteps
  <2>7. CASE A!GiveOwes(n)
    BY <1>0, <2>7 DEF A!GiveOwes
  <2>8. CASE A!CancelOwes(n) \/ A!GiveUpFails(n) \/ A!LeaveFails(n)
    BY <1>0, <2>8 DEF A!CancelOwes, A!GiveUpFails, A!LeaveFails
  <2> QED
    BY <1>1, <2>1, <2>2, <2>3, <2>4, <2>5, <2>6, <2>7, <2>8 DEF GiverAlone
<1>2. ASSUME NEW n \in Nodes, GiverEvent(n) PROVE PlainMoves
  <2>1. A!GiveOpens(n)
    BY <1>0, <1>2 DEF GiverEvent, PlainEvents, A!GiveUpDrops
  <2> QED
    BY <1>0, <2>1 DEF A!GiveOpens
<1>3. ASSUME NEW n \in Nodes, GiverAsks(n) PROVE PlainMoves
  <2>1. CASE A!StartAsks(n)
    BY <1>0, <2>1 DEF A!StartAsks
  <2>2. CASE A!TakeAsks(n)
    BY <1>0, <2>2 DEF A!TakeAsks
  <2>3. CASE A!TakeSettles(n)
    BY <1>0, <2>3 DEF A!TakeSettles
  <2> QED
    BY <1>3, <2>1, <2>2, <2>3 DEF GiverAsks
<1>4. ASSUME NEW n \in Nodes, GiverHears(n) PROVE PlainMoves
  <2>1. CASE A!StartHears(n)
    BY <1>0, <2>1 DEF A!StartHears
  <2>2. CASE A!StartIsPutOff(n) \/ A!StartErrs(n)
    BY <1>0, <2>2 DEF A!StartIsPutOff, A!StartErrs
  <2>3. CASE A!StartIsRefused(n)
    BY <1>0, <2>3 DEF A!StartIsRefused
  <2>4. CASE A!TakeHearsOpen(n) \/ A!TakeErrs(n)
    BY <1>0, <2>4 DEF A!TakeHearsOpen, A!TakeErrs
  <2>5. ASSUME NEW s \in A!Settled, A!TakeHears(n, s) PROVE PlainMoves
    BY <1>0, <2>5 DEF A!TakeHears
  <2>6. CASE A!TakeHearsUnknown(n)
    BY <1>0, <2>6 DEF A!TakeHearsUnknown
  <2>7. CASE A!TakeIsAcked(n)
    BY <1>0, <2>7 DEF A!TakeIsAcked
  <2>8. CASE A!TakeIsRefused(n)
    BY <1>0, <2>8 DEF A!TakeIsRefused
  <2> QED
    BY <1>4, <2>1, <2>2, <2>3, <2>4, <2>5, <2>6, <2>7, <2>8 DEF GiverHears
<1>5. ASSUME NEW n \in Nodes, GiverIsTold(n) PROVE PlainMoves
  BY <1>0, <1>5 DEF GiverIsTold, A!PeerSettled, giver
<1>6. ASSUME UNCHANGED giver PROVE PlainMoves
  BY <1>6 DEF giver
<1>7. ASSUME NEW n \in Nodes, WorkerStep(n) \/ AgentEnds(n) \/ WorkerStops(n) PROVE PlainMoves
  BY <1>6, <1>7 DEF WorkerStep, WorkerAnswers, WorkerRefuses, WorkerTakesStart, WorkerReports,
     WorkerIsAcked, WorkerTakesStop, WorkerStopSettles, WorkerAlone, WorkerTells,
     AgentEnds, WorkerStops
<1>8. CASE \/ WorkerJudges \/ WorkerStarts \/ WorkerFailsStart \/ WorkerUnbinds
           \/ WorkerForgets \/ UNCHANGED vars
  BY <1>6, <1>8 DEF WorkerJudges, WorkerStarts, WorkerFailsStart, WorkerUnbinds,
     WorkerForgets, vars
<1>9. ASSUME A!LinkLost \/ A!LinkUp PROVE PlainMoves
  BY <1>0, <1>9 DEF A!LinkLost, A!LinkUp, A!WakeOwed
<1>10. CASE LinkUp \/ LinkLost \/ WorkerCrashes
  BY <1>6, <1>9, <1>10 DEF LinkUp, LinkLost, WorkerCrashes
<1>11. CASE GiverCrashes
  BY <1>0, <1>11 DEF GiverCrashes, A!Crash
<1>12. ~ Leave
  BY DEF PlainEvents, Leave, A!Leave
<1> QED
  BY <1>1, <1>2, <1>3, <1>4, <1>5, <1>7, <1>8, <1>10, <1>11, <1>12 DEF Next, GiverStep

\* No start is asked for of a node but by its handler, so nothing comes of nothing.
LEMMA NothingStays ==
  ASSUME CanUnbind = FALSE, Inv, Next, NEW m \in Nodes, Nothing(m),
         ~ (pc[m] = "marking" /\ pc'[m] = "asked")
  PROVE  Nothing(m)'
<1>0. /\ BP!TypeOK /\ asked \in Seq(B!Jobs)
      /\ task \in [Nodes -> {"none", "open"} \cup A!Settled]
  BY JobsOfNodes DEF Inv, BP!Lasting, BP!TypeOK, BP!Status, BP!Settled, A!Settled
<1>1. m \notin StartsIn(calls')
  BY CallsDoPass DEF CallsPass, Nothing
<1>2. /\ \A j \in On(asked') : j.node # m
      /\ start' # B!Idle => start'.node # m
  <2>1. CASE Arrives
    <3>1. PICK n \in Nodes : LET j == [node |-> n, chan |-> chan] IN
            /\ Took("start", n) /\ j \in B!Jobs
            /\ asked' = Append(asked, j) /\ start' = start
      BY <2>1 DEF Arrives
    <3> DEFINE j == [node |-> n, chan |-> chan]
    <3>2. On(asked') = On(asked) \cup {j}
      BY <1>0, <3>1, OnAppend
    <3>3. n # m
      BY <3>1, CallsDoPass DEF CallsPass, Nothing
    <3> QED
      BY <3>1, <3>2, <3>3 DEF Nothing
  <2>2. CASE IsJudged
    <3>1. On(asked') \subseteq On(asked) /\ Head(asked) \in On(asked)
      BY <1>0, <2>2, OnTail DEF IsJudged
    <3> QED
      BY <2>2, <3>1 DEF IsJudged, Nothing
  <2>3. CASE RunsOn
    BY <2>3 DEF RunsOn, Nothing
  <2>4. CASE asked' = <<>> /\ start' = B!Idle
    BY <2>4, OnNothing
  <2> QED
    BY <2>1, <2>2, <2>3, <2>4, Moves DEF QueueMoves
<1>3. task'[m] = "none"
  <2>1. task[m] = "none"
    BY DEF Nothing, Ran
  <2>2. CASE Opens
    BY <1>0, <1>2, <2>1, <2>2 DEF Opens
  <2>3. CASE Settles
    BY <1>0, <2>1, <2>3 DEF Settles
  <2> QED
    BY <2>1, <2>2, <2>3, TasksMove
<1> QED
  BY <1>1, <1>2, <1>3 DEF Nothing, Ran, Calling, StartsIn, On, B!Idle

\* Before its start is owed, and after its task settled here, nothing of a node
\* is open there, nor under way.
OverInv(n) ==
  /\ given[n] = "none" \/ n \in giving \cup lost => Nothing(n)
  /\ given[n] \in A!Settled => task[n] # "open" /\ (Ran(n) \/ Nothing(n))

LEMMA OverStep ==
  ASSUME PlainEvents, Inv, PlainInv, Next, NEW n \in Nodes, OverInv(n)
  PROVE  OverInv(n)'
<1>0. /\ AP!TypeOK /\ AP!GivenFirst /\ AP!GivingIsFirst /\ CanUnbind = FALSE
      /\ given \in [Nodes -> {"none", "open"} \cup A!Settled]
      /\ WorkerKeeps
  BY Moves, EventsAssumption DEF Inv, AP!OwedInv, PlainEvents, AP!TypeOK, AP!Settled, A!Settled
<1>1. given[n] = "none" \/ n \in giving \cup lost \/ given[n] \in A!Settled => pc[n] # "marking"
  BY <1>0 DEF AP!GivenFirst, AP!GivingIsFirst, PlainInv, A!Settled
<1>2. Nothing(n) /\ (given[n] = "none" \/ n \in giving \cup lost \/ given[n] \in A!Settled)
        => Nothing(n)'
  BY <1>0, <1>1, NothingStays
<1>3. given'[n] = "none" \/ n \in giving' \cup lost' =>
        given[n] = "none" \/ n \in giving \cup lost
  <2>1. given'[n] = "none" => given[n] = "none"
    BY Moves, <1>0 DEF GiverKeeps, Known
  <2>2. n \in giving' \cup lost' => given[n] = "none" \/ n \in giving \cup lost
    BY PlainStep DEF PlainMoves
  <2> QED
    BY <2>1, <2>2
<1>4. ASSUME given'[n] \in A!Settled, given[n] # given'[n]
      PROVE  task' = task /\ (task[n] \in {"done", "failed", "cancelled"} \/ Nothing(n))
  <2>1. task' = task
    BY <1>4, TasksMove, <1>0
  <2>2. GivenMoves
    BY GivenDoesMove
  <2>3. PICK m \in Nodes :
          \/ Turns(m, "none", "open")
          \/ task[m] = "done" /\ Turns(m, "open", "done")
          \/ MayFail(m) /\ Turns(m, "open", "failed")
    BY <1>4, <2>2 DEF GivenMoves, PlainEvents
  <2>4. m = n
    BY <1>0, <1>4, <2>3 DEF Turns
  <2> QED
    BY <1>0, <1>4, <2>1, <2>3, <2>4 DEF Turns, MayFail, PlainEvents, A!Settled
<1>5. given'[n] \in A!Settled => task'[n] # "open" /\ (Ran(n)' \/ Nothing(n)')
  <2>1. CASE given[n] \in A!Settled
    <3>1. CASE Ran(n)
      <4>1. task[n] \in A!Settled
        BY <2>1, <3>1 DEF OverInv, Ran, Inv, BP!Lasting, BP!TypeOK, BP!Status, BP!Settled,
           A!Settled
      <4> QED
        BY <1>0, <3>1, <4>1 DEF WorkerKeeps, Ran, A!Settled
    <3>2. CASE Nothing(n)
      BY <1>2, <2>1, <3>2 DEF Nothing, Ran
    <3> QED
      BY <2>1, <3>1, <3>2 DEF OverInv
  <2>2. ASSUME given'[n] \in A!Settled, given[n] \notin A!Settled
        PROVE  task'[n] # "open" /\ (Ran(n)' \/ Nothing(n)')
    <3>1. task' = task /\ (task[n] \in {"done", "failed", "cancelled"} \/ Nothing(n))
      BY <1>4, <2>2
    <3>2. CASE Nothing(n)
      <4>1. pc'[n] # "asked"
        BY <1>0, <2>2, PlainStep DEF PlainMoves, PlainInv, A!Settled
      <4> QED
        BY <1>0, <3>2, <4>1, NothingStays DEF Nothing, Ran
    <3> QED
      BY <3>1, <3>2 DEF Ran
  <2> QED
    BY <2>1, <2>2
<1> QED
  BY <1>2, <1>3, <1>5 DEF OverInv

PlainLasting == Inv /\ PlainInv /\ \A n \in Nodes : OverInv(n)

LEMMA PlainLasts ==
  ASSUME PlainEvents
  PROVE  Spec => []PlainLasting
<1> DEFINE OverAll == \A n \in Nodes : OverInv(n)
<1>1. Init => PlainInv /\ OverAll
  <2> SUFFICES ASSUME Init PROVE PlainInv /\ OverAll
    OBVIOUS
  <2>1. On(asked) = {} /\ On(calls) = {} /\ start = B!Idle
    BY OnNothing DEF Init, B!Init
  <2> QED
    BY <2>1 DEF Init, A!Init, B!Init, PlainInv, OverInv, Nothing, Ran, Calling, StartsIn,
       A!Settled
<1>2. Inv /\ PlainInv /\ OverAll /\ [Next]_vars => PlainInv' /\ OverAll'
  <2>1. Inv /\ PlainInv /\ [Next]_vars => PlainInv'
    BY PlainStep DEF PlainMoves
  <2>2. Inv /\ PlainInv /\ OverAll /\ Next => OverAll'
    BY OverStep
  <2>3. OverAll /\ UNCHANGED vars => OverAll'
    BY DEF vars, giver, worker, wire, OverInv, Nothing, Ran, Calling, StartsIn, On, B!Idle
  <2> QED
    BY <2>1, <2>2, <2>3
<1>3. CanUnbind = FALSE
  BY EventsAssumption DEF PlainEvents
<1> QED
  BY <1>1, <1>2, <1>3, TwoMachines, PTL DEF Spec, PlainLasting

\* remote-tasks.ts:256, 442-445, 518-521: as long as tasks end by what the machines say of
\* them, no agent runs on there for nobody: its task is open here and its start or its
\* result is owed, through every lost link, restart and refusal.
THEOREM NobodysAgent ==
  ASSUME PlainEvents
  PROVE  Spec => []NoOrphan
<1>1. PlainLasting => NoOrphan
  <2> SUFFICES ASSUME PlainLasting, NEW n \in B!OpenNodes
               PROVE  n \in starts \cup takes
    BY DEF NoOrphan
  <2> USE DEF PlainLasting
  <2>1. n \in Nodes /\ task[n] = "open"
    BY DEF B!OpenNodes, Inv, BP!Lasting, BP!TypeOK
  <2>2. given[n] = "open" /\ n \notin giving \cup lost
    BY <2>1 DEF OverInv, Nothing, Ran, Inv, AP!OwedInv, AP!TypeOK, AP!Settled, A!Settled
  <2> QED
    BY <2>1, <2>2 DEF PlainInv, Inv, AP!OwedInv, AP!OpenIsOwed
<1> QED
  BY <1>1, PlainLasts, PTL

-----------------------------------------------------------------------------
(* No wake-up is lost: an entry that waits for a result hears of its end. *)

\* A task of the node started there, and no start of it is at work.
Started(n) == Ran(n) /\ (start # B!Idle => start.node # n)

\* What a handler of the giving machine holds: an entry waits while none runs for it, and
\* one that lost its link looks again once another is open.
LaneInv ==
  /\ \A n \in waiting : pc[n] = "idle"
  /\ \A n \in dead : pc[n] \in A!Linked /\ (link => n \in woken)
  /\ \A n \in Nodes : pc[n] \in A!TakeSteps => n \in takes

LEMMA StartedStays ==
  ASSUME CanUnbind = FALSE, Inv, Next, NEW n \in Nodes, Started(n)
  PROVE  Started(n)'
<1>1. Ran(n)'
  BY Moves DEF WorkerKeeps, Started
<1>2. start' # B!Idle => start'.node # n
  <2>1. B!Again(n)
    BY DEF Started, Ran, B!Again, Inv, BP!Lasting
  <2> QED
    BY <2>1, Moves DEF Started, QueueMoves, Arrives, IsJudged, RunsOn
<1> QED
  BY <1>1, <1>2 DEF Started, Ran, B!Idle

\* What is asked for, heard and reported is of a task whose start is over.
StartedInv ==
  /\ \A n \in takes : Started(n)
  /\ \A n \in Nodes : pc[n] = "heard" => Started(n)
  /\ \A c \in On(calls) : c.kind = "result" => Started(c.node)
  /\ \A w \in On(back) :
       /\ w.kind = "start" /\ w.answer = "ok" => Started(w.node)
       /\ w.kind = "result" => Started(w.node)
       /\ w.kind = "settled" => Ran(w.node)

\* A result that is owed is of a task that settled, is owed once and told once;
\* nothing is acknowledged, nor stopped, that is open here.
ToldInv ==
  /\ \A n \in owing \cup deliver : task[n] \in A!Settled
  /\ told \subseteq deliver /\ owing \cap deliver = {}
  /\ \A n \in Nodes : stopped[n] = "no"
  /\ \A c \in On(calls) : /\ c.kind # "stop"
                          /\ c.kind \in {"ack", "forget"} => given[c.node] \in A!Settled

LEMMA StartAnswers ==
  ASSUME Inv, AnswersFirst \/ AnswersLast
  PROVE  /\ start' = B!Idle
         /\ \E v \in Word : back' = Append(back, v) /\ v.kind = "start"
<1>1. asked # <<>> => Head(asked).node \in Nodes
  BY JobsOfNodes DEF Inv, BP!Lasting
<1>2. start # B!Idle => start.node \in Nodes
  BY StartsInStep DEF Inv, BP!Lasting
<1>3. PICK n \in Nodes, a \in Answers : back' = Append(back, StartWord(n, a))
  BY <1>1, <1>2 DEF AnswersFirst, AnswersLast
<1>4. StartWord(n, a) \in Word /\ StartWord(n, a).kind = "start"
  BY DEF StartWord, Word
<1> QED
  BY <1>3, <1>4 DEF AnswersFirst, AnswersLast

\* Word that is new is the answer of a start that is over, or is what SaysMore says.
LEMMA NewWords ==
  ASSUME CanUnbind = FALSE, Inv, Next, NEW w \in On(back'), w \notin On(back)
  PROVE  \/ w.kind = "start" /\ start' = B!Idle
         \/ /\ w.kind # "start"
            /\ w.kind = "result" => Took("result", w.node)
            /\ w.kind = "settled" => Ran(w.node) \/ w.node \in deliver
<1>0. back \in Seq(Word)
  BY DEF Inv, WireInv, OnTheWire
<1>1. CASE back' = back \/ IsHeard
  BY <1>0, <1>1, OnTail DEF IsHeard
<1>2. CASE SaysMore
  BY <1>0, <1>2, OnAppend DEF SaysMore
<1>3. CASE AnswersFirst \/ AnswersLast
  <2>1. PICK v \in Word : back' = Append(back, v) /\ v.kind = "start"
    BY <1>3, StartAnswers
  <2>2. w = v
    BY <1>0, <2>1, OnAppend
  <2> QED
    BY <1>3, <2>1, <2>2, StartAnswers
<1>4. CASE back' = <<>>
  BY <1>4, OnNothing
<1> QED
  BY <1>1, <1>2, <1>3, <1>4, BackIs DEF BackShape

LEMMA StartedStep ==
  ASSUME CanUnbind = FALSE, Inv, Next, AP!OwedInv', StartedInv, ToldInv
  PROVE  StartedInv'
<1>0. back \in Seq(Word) /\ calls \in Seq(Call)
  BY DEF Inv, WireInv, OnTheWire
<1>1. \A n \in Nodes : (Started(n) => Started(n)') /\ (Ran(n) => Ran(n)')
  BY StartedStays, Moves DEF WorkerKeeps
<1>2. \A n \in takes' : Started(n)'
  <2>1. \A n \in takes' : n \in Nodes /\ (n \in takes \/ pc[n] = "heard")
    BY Moves DEF GiverKeeps, AP!OwedInv, AP!TypeOK
  <2> QED
    BY <1>1, <2>1 DEF StartedInv
<1>3. ASSUME NEW n \in Nodes, pc'[n] = "heard" PROVE Started(n)'
  <2>1. pc[n] = "heard" \/ Hears("start", n, "ok")
    BY <1>3, HeardWell DEF Inv, AP!OwedInv, Deaf
  <2>2. ASSUME Hears("start", n, "ok") PROVE Started(n)
    <3>1. /\ Head(back) \in On(back)
          /\ Head(back).kind = "start" /\ Head(back).node = n /\ Head(back).answer = "ok"
      BY <1>0, <2>2, OnTail DEF Hears
    <3> QED
      BY <3>1 DEF StartedInv
  <2> QED
    BY <1>1, <1>3, <2>1, <2>2 DEF StartedInv
<1>4. ASSUME NEW c \in On(calls'), c.kind = "result" PROVE Started(c.node)'
  <2>1. c \in On(calls) \/ c.node \in takes
    BY <1>4, Moves DEF CallsWell
  <2>2. Started(c.node) /\ c.node \in Nodes
    BY <1>4, <2>1, CallsOfNodes DEF StartedInv, Inv, WireInv, AP!OwedInv, AP!TypeOK
  <2> QED
    BY <1>1, <2>2
<1>5. ASSUME NEW w \in On(back') 
      PROVE  /\ w.kind = "start" /\ w.answer = "ok" => Started(w.node)'
             /\ w.kind = "result" => Started(w.node)'
             /\ w.kind = "settled" => Ran(w.node)'
  <2>0. w.node \in Nodes
    BY <1>0, Moves, WordsOfNodes DEF BackWell
  <2>1. CASE w \in On(back)
    BY <1>1, <2>0, <2>1 DEF StartedInv
  <2>2. CASE w.kind = "start" /\ start' = B!Idle
    <3>1. w.answer = "ok" => Ran(w.node)'
      BY <2>2, WordsTrueKept DEF WordsTrue, TrueWord, Ran, On
    <3> QED
      BY <2>2, <3>1 DEF Started, Ran, B!Idle
  <2>3. ASSUME w.kind = "result", Took("result", w.node) PROVE Started(w.node)'
    <3>1. Head(calls) \in On(calls) /\ Head(calls).kind = "result" /\ Head(calls).node = w.node
      BY <1>0, <2>3, OnTail DEF Took
    <3> QED
      BY <1>1, <2>0, <3>1 DEF StartedInv
  <2>4. Ran(w.node) \/ w.node \in deliver => Ran(w.node)'
    BY <1>1, <2>0 DEF ToldInv, Ran, A!Settled
  <2> QED
    BY <2>1, <2>2, <2>3, <2>4, NewWords
<1> QED
  BY <1>2, <1>3, <1>4, <1>5 DEF StartedInv, Started, Ran, On, B!Idle

LEMMA SettledStays ==
  ASSUME Inv, Next, NEW n \in Nodes, given[n] \in A!Settled
  PROVE  given'[n] = given[n]
<1>1. given \in [Nodes -> {"none", "open"} \cup A!Settled]
  BY DEF Inv, AP!OwedInv, AP!TypeOK, AP!Settled, A!Settled
<1> QED
  BY <1>1, GivenDoesMove DEF GivenMoves, Turns, A!Settled

LEMMA ToldStep ==
  ASSUME PlainEvents, PlainLasting, PlainLasting', Next, StartedInv, ToldInv, LaneInv
  PROVE  ToldInv'
<1>0. /\ BP!TypeOK /\ linked /\ CanUnbind = FALSE /\ stops = {}
      /\ calls \in Seq(Call) /\ back \in Seq(Word)
      /\ task \in [Nodes -> {"none", "open"} \cup A!Settled]
      /\ start.step \in {"judged", "claimed"} => task[start.node] = "none"
      /\ \A n \in Nodes : task[n] \in A!Settled => task'[n] = task[n]
  BY Moves, EventsAssumption DEF PlainLasting, PlainInv, Inv, WireInv, OnTheWire, WorkerKeeps,
     PlainEvents, BP!Lasting, BP!TypeOK, BP!Status, BP!Settled, A!Settled
<1>1. ASSUME NEW c \in On(calls')
      PROVE  /\ c.kind # "stop"
             /\ c.kind \in {"ack", "forget"} => given'[c.node] \in A!Settled
  <2>0. c.node \in Nodes
    <3>1. calls' \in Seq(Call)
      BY <1>0, Moves DEF CallsWell, PlainLasting
    <3>2. c \in Call
      BY <3>1, OnIsIn
    <3> QED
      BY <3>2 DEF Call
  <2>1. CASE c \in On(calls)
    BY <2>0, <2>1, SettledStays DEF ToldInv, PlainLasting
  <2>2. ASSUME c.kind \in {"ack", "forget"}, c \notin On(calls)
        PROVE  given'[c.node] # "open" /\ Ran(c.node)
    <3>1. CallsWell
      BY <1>0, Moves DEF PlainLasting
    <3>2. c.node \in takes \/ \E w \in On(back) : w.kind = "settled" /\ w.node = c.node
      BY <2>0, <2>2, <3>1 DEF CallsWell, LaneInv
    <3> QED
      BY <2>2, <3>1, <3>2 DEF CallsWell, StartedInv, Started
  <2>3. Ran(c.node) => given'[c.node] # "none"
    <3>1. Ran(c.node) => given[c.node] # "none"
      BY <2>0 DEF PlainLasting, OverInv, Nothing
    <3> QED
      BY <1>0, <2>0, <3>1, Moves DEF GiverKeeps, Known, PlainLasting
  <2>4. given'[c.node] \in {"none", "open"} \cup A!Settled
    BY <2>0 DEF PlainLasting, Inv, AP!OwedInv, AP!TypeOK, AP!Settled, A!Settled
  <2> QED
    BY <1>0, <2>1, <2>2, <2>3, <2>4, Moves DEF CallsWell, PlainLasting
<1> DEFINE Rest == /\ \A n \in owing \cup deliver : task[n] \in A!Settled
                   /\ told \subseteq deliver /\ owing \cap deliver = {}
                   /\ \A n \in Nodes : stopped[n] = "no"
<1> USE DEF ToldInv, BP!TypeOK
<1>2. ASSUME UNCHANGED worker PROVE Rest'
  BY <1>2 DEF worker
<1>3. ASSUME NEW n \in Nodes, WorkerStep(n) PROVE Rest'
  <2>1. ASSUME WorkerTakesStop(n) PROVE Rest'
    <3>1. Head(calls) \in On(calls) /\ Head(calls).kind = "stop"
      BY <1>0, <2>1, OnTail DEF WorkerTakesStop, Took
    <3> QED
      BY <3>1
  <2>2. ASSUME WorkerReports(n) \/ \E k : WorkerRefuses(k, n) PROVE Rest'
    BY <1>2, <2>2 DEF WorkerReports, WorkerRefuses
  <2>3. ASSUME B!ResultAcked(n) PROVE Rest'
    BY <1>0, <2>3 DEF B!ResultAcked, B!SettleDelivery
  <2>4. ASSUME \E k : WorkerIsAcked(k, n) PROVE Rest'
    BY <1>2, <2>3, <2>4 DEF WorkerIsAcked
  <2>5. ASSUME WorkerTakesStart(n) PROVE Rest'
    BY <2>5 DEF WorkerTakesStart, B!StartArrives
  <2>6. ASSUME WorkerStopSettles(n) PROVE Rest'
    BY <2>6 DEF WorkerStopSettles, B!StopSettles
  <2>7. ASSUME WorkerAlone(n) PROVE Rest'
    BY <1>0, <2>7 DEF WorkerAlone, B!AgentLeaves, B!OweResult, B!DeliverEnds, B!StopEnds
  <2>8. ASSUME WorkerTells(n) PROVE Rest'
    BY <2>8 DEF WorkerTells, B!DeliverTells
  <2> QED
    BY <1>3, <2>1, <2>2, <2>4, <2>5, <2>6, <2>7, <2>8 DEF WorkerStep, WorkerAnswers
<1>4. ASSUME NEW n \in Nodes, AgentEnds(n) PROVE Rest'
  <2>1. PICK s \in {"done", "failed"} : B!AgentEnds(n, s)
    BY <1>4 DEF AgentEnds
  <2> QED
    BY <1>0, <2>1 DEF B!AgentEnds, A!Settled
<1>5. ASSUME NEW n \in Nodes, WorkerStops(n) PROVE Rest'
  BY <1>0, <1>5 DEF WorkerStops, B!PersonStops, A!Settled
<1>6. ASSUME WorkerJudges PROVE Rest'
  BY <1>6 DEF WorkerJudges, B!StartDismissed, B!StartJudged
<1>7. ASSUME WorkerStarts \/ WorkerFailsStart PROVE Rest'
  <2>1. ASSUME \/ B!StartClaims \/ B!StartEnqueues \/ B!StartAbandons \/ B!StartDone
               \/ B!StartRefused
        PROVE  Rest'
    BY <2>1 DEF B!StartClaims, B!StartEnqueues, B!StartAbandons, B!StartDone, B!StartRefused
  <2>2. ASSUME B!StartOpens \/ B!StartFails PROVE Rest'
    <3>1. start.node \in Nodes
      BY <1>0, <2>2, IdleStep, StartsInStep DEF B!StartOpens, B!StartFails
    <3>2. ASSUME B!StartOpens PROVE Rest'
      BY <1>0, <3>1, <3>2 DEF B!StartOpens, A!Settled
    <3>3. ASSUME B!StartFails PROVE Rest'
      BY <1>0, <3>1, <3>3 DEF B!StartFails, A!Settled
    <3> QED
      BY <2>2, <3>2, <3>3
  <2> QED
    BY <1>7, <2>1, <2>2 DEF WorkerStarts, WorkerFailsStart
<1>8. ASSUME WorkerUnbinds \/ WorkerForgets PROVE Rest'
  BY <1>0, <1>8 DEF WorkerUnbinds, WorkerForgets, B!UnbindEnds, B!UnbindDrops, B!UnbindUnlinks,
     PlainLasting, Inv, BP!Lasting
<1>9. ASSUME LinkUp \/ LinkLost \/ GiverCrashes \/ Leave PROVE Rest'
  BY <1>9 DEF LinkUp, LinkLost, GiverCrashes, Leave, worker, B!ChannelOpens, B!ChannelCloses
<1>10. ASSUME WorkerCrashes PROVE Rest'
  BY <1>10 DEF WorkerCrashes, B!Crash, B!Recover, A!Settled
<1>11. ASSUME NEW n \in Nodes, GiverStep(n) \/ GiverEvent(n) PROVE Rest'
  BY <1>2, <1>11 DEF GiverStep, GiverAlone, GiverAsks, GiverHears, GiverIsTold, GiverEvent
<1>12. Rest'
  BY <1>3, <1>4, <1>5, <1>6, <1>7, <1>8, <1>9, <1>10, <1>11 DEF Next
<1> QED
  BY <1>1, <1>12 DEF On

\* An entry comes to wait for a result over an open link once it heard that there is none.
WaitsWell ==
  \A n \in (takes' \cap waiting') \ starts' : link' =>
    /\ link
    /\ n \in (takes \cap waiting) \ starts \/ (Hears("result", n, "open") /\ UNCHANGED worker)

LaneMoves == LaneInv' /\ WaitsWell

LEMMA LaneStep ==
  ASSUME PlainEvents, PlainLasting, LaneInv, [Next]_vars
  PROVE  LaneMoves
<1>0. /\ pc \in [Nodes -> {"idle"} \cup A!StartSteps \cup A!TakeSteps]
      /\ takes \subseteq Nodes /\ starts \subseteq Nodes /\ waiting \subseteq Nodes
      /\ dead \subseteq Nodes /\ woken \subseteq Nodes
      /\ \A n \in Nodes : pc[n] \in {"sending", "marking", "asked"} => n \in starts
      /\ stops = {} /\ ending = {}
  BY DEF PlainLasting, PlainInv, Inv, AP!OwedInv, AP!TypeOK, A!StartSteps, A!TakeSteps,
     AP!StartSteps, AP!TakeSteps
<1> USE DEF LaneMoves, LaneInv, WaitsWell, A!Linked, A!TakeSteps, A!StartSteps, A!Running,
            A!disk, A!lane, A!carried, A!stopLane, A!aside, A!To, A!Returns,
            A!ReturnsAndWakes, A!Wake, A!OtherStarts, A!Ready
<1>1. ASSUME NEW n \in Nodes, GiverAlone(n) PROVE LaneMoves
  <2>1. CASE A!StartIsMoot(n) \/ A!StartWaitsForLink(n) \/ A!StartSends(n)
    BY <1>0, <2>1 DEF A!StartIsMoot, A!StartWaitsForLink, A!StartSends
  <2>2. CASE A!StartMarks(n) \/ A!StartIsDropped(n)
    BY <1>0, <2>2 DEF A!StartMarks, A!StartIsDropped
  <2>3. CASE A!StartIsHeard(n)
    BY <1>0, <2>3 DEF A!StartIsHeard
  <2>4. CASE A!StartCloses(n)
    BY <1>0, <2>4 DEF A!StartCloses
  <2>5. CASE A!StartBreaks(n)
    BY <1>0, <2>5 DEF A!StartBreaks
  <2>6. CASE A!TakeWaitsForLink(n) \/ A!TakeIsStale(n)
    BY <1>0, <2>6 DEF A!TakeWaitsForLink, A!TakeIsStale
  <2>7. CASE A!TakeBreaks(n)
    BY <1>0, <2>7 DEF A!TakeBreaks
  <2>8. CASE A!GiveOwes(n)
    BY <1>0, <2>8 DEF A!GiveOwes
  <2>9. CASE A!CancelOwes(n) \/ A!GiveUpFails(n) \/ A!LeaveFails(n)
    BY <1>0, <2>9 DEF A!CancelOwes, A!GiveUpFails, A!LeaveFails
  <2> QED
    BY <1>0, <1>1, <2>1, <2>2, <2>3, <2>4, <2>5, <2>6, <2>7, <2>8, <2>9 DEF GiverAlone
<1>2. ASSUME NEW n \in Nodes, GiverEvent(n) PROVE LaneMoves
  <2>1. A!GiveOpens(n)
    BY <1>0, <1>2 DEF GiverEvent, PlainEvents, A!GiveUpDrops
  <2> QED
    BY <1>0, <2>1 DEF A!GiveOpens
<1>3. ASSUME NEW n \in Nodes, GiverAsks(n) PROVE LaneMoves
  <2>1. CASE A!StartAsks(n)
    BY <1>0, <2>1 DEF A!StartAsks
  <2>2. CASE A!TakeAsks(n)
    BY <1>0, <2>2 DEF A!TakeAsks
  <2>3. CASE A!TakeSettles(n)
    BY <1>0, <2>3 DEF A!TakeSettles
  <2> QED
    BY <1>0, <1>3, <2>1, <2>2, <2>3 DEF GiverAsks
<1>4. ASSUME NEW n \in Nodes, GiverHears(n) PROVE LaneMoves
  <2>1. CASE A!StartHears(n)
    BY <1>0, <2>1 DEF A!StartHears
  <2>2. CASE A!StartIsPutOff(n) \/ A!StartIsRefused(n) \/ A!StartErrs(n)
    BY <1>0, <2>2 DEF A!StartIsPutOff, A!StartIsRefused, A!StartErrs
  <2>3. ASSUME A!TakeHearsOpen(n), Hears("result", n, "open"), UNCHANGED worker
        PROVE  LaneMoves
    BY <1>0, <2>3 DEF A!TakeHearsOpen
  <2>4. CASE A!TakeErrs(n)
    BY <1>0, <2>4 DEF A!TakeErrs
  <2>5. ASSUME NEW s \in A!Settled, A!TakeHears(n, s) PROVE LaneMoves
    BY <1>0, <2>5 DEF A!TakeHears
  <2>6. CASE A!TakeHearsUnknown(n)
    BY <1>0, <2>6 DEF A!TakeHearsUnknown
  <2>7. CASE A!TakeIsAcked(n)
    BY <1>0, <2>7 DEF A!TakeIsAcked
  <2>8. CASE A!TakeIsRefused(n)
    BY <1>0, <2>8 DEF A!TakeIsRefused
  <2> QED
    BY <1>0, <1>4, <2>1, <2>2, <2>3, <2>4, <2>5, <2>6, <2>7, <2>8 DEF GiverHears
<1>5. ASSUME NEW n \in Nodes, GiverIsTold(n) PROVE LaneMoves
  BY <1>0, <1>5 DEF GiverIsTold, A!PeerSettled, giver
<1>6. ASSUME UNCHANGED giver PROVE LaneMoves
  BY <1>6 DEF giver
<1>7. ASSUME NEW n \in Nodes, WorkerStep(n) \/ AgentEnds(n) \/ WorkerStops(n) PROVE LaneMoves
  BY <1>6, <1>7 DEF WorkerStep, WorkerAnswers, WorkerRefuses, WorkerTakesStart, WorkerReports,
     WorkerIsAcked, WorkerTakesStop, WorkerStopSettles, WorkerAlone, WorkerTells,
     AgentEnds, WorkerStops
<1>8. CASE \/ WorkerJudges \/ WorkerStarts \/ WorkerFailsStart \/ WorkerUnbinds
           \/ WorkerForgets \/ UNCHANGED vars
  BY <1>6, <1>8 DEF WorkerJudges, WorkerStarts, WorkerFailsStart, WorkerUnbinds,
     WorkerForgets, vars
<1>9. ASSUME A!LinkLost PROVE LaneMoves
  BY <1>0, <1>9 DEF A!LinkLost
<1>10. ASSUME A!LinkUp PROVE LaneMoves
  BY <1>0, <1>10 DEF A!LinkUp, A!WakeOwed
<1>11. CASE LinkUp \/ LinkLost \/ WorkerCrashes
  BY <1>6, <1>9, <1>10, <1>11 DEF LinkUp, LinkLost, WorkerCrashes
<1>12. CASE GiverCrashes
  BY <1>0, <1>12 DEF GiverCrashes, A!Crash
<1>13. ~ Leave
  BY DEF PlainEvents, Leave, A!Leave
<1> QED
  BY <1>1, <1>2, <1>3, <1>4, <1>5, <1>7, <1>8, <1>11, <1>12, <1>13 DEF Next, GiverStep

SettledWord(n) == [kind |-> "settled", node |-> n, answer |-> "ok"]

\* The end of the task of a node is still to come, or word of it still to be sent.
StillOwed(n) == task[n] = "open" \/ (n \in pending /\ n \in owing \cup (deliver \ told))

LEMMA OwedStep ==
  ASSUME PlainEvents, PlainLasting, ToldInv, Next, NEW n \in Nodes,
         Started(n), given[n] = "open", StillOwed(n), up, up'
  PROVE  StillOwed(n)' \/ back' = Append(back, SettledWord(n))
<1>0. /\ BP!TypeOK /\ linked /\ CanUnbind = FALSE
      /\ calls \in Seq(Call) /\ back \in Seq(Word)
      /\ task \in [Nodes -> {"none", "open"} \cup A!Settled]
      /\ task[n] # "none" /\ n \in claimed
      /\ start # B!Idle => start.node # n
  BY EventsAssumption DEF PlainLasting, Inv, WireInv, OnTheWire, Started, Ran,
     PlainEvents, BP!Lasting, BP!TypeOK, BP!Status, BP!Settled, A!Settled
<1> DEFINE Goal == StillOwed(n)' \/ back' = Append(back, SettledWord(n))
<1> USE DEF StillOwed
<1>1. ASSUME UNCHANGED worker PROVE Goal
  BY <1>1 DEF worker
<1>2. ASSUME NEW m \in Nodes, Notify({m}) PROVE back' = Append(back, SettledWord(m))
  BY <1>0, <1>2, NotifyOne DEF SettledWord
<1>3. ASSUME NEW m \in Nodes, WorkerStep(m) PROVE Goal
  <2>1. ASSUME WorkerTakesStop(m) PROVE Goal
    <3>1. Head(calls) \in On(calls) /\ Head(calls).kind = "stop"
      BY <1>0, <2>1, OnTail DEF WorkerTakesStop, Took
    <3> QED
      BY <3>1 DEF ToldInv
  <2>2. ASSUME WorkerReports(m) \/ \E k : WorkerRefuses(k, m) PROVE Goal
    BY <1>1, <2>2 DEF WorkerReports, WorkerRefuses
  <2>3. ASSUME NEW k \in {"ack", "forget"}, WorkerIsAcked(k, m) PROVE Goal
    <3>1. m # n
      <4>1. Head(calls) \in On(calls) /\ Head(calls).kind = k /\ Head(calls).node = m
        BY <1>0, <2>3, OnTail DEF WorkerIsAcked, Took
      <4> QED
        BY <4>1 DEF ToldInv, A!Settled
    <3>2. UNCHANGED worker \/ B!ResultAcked(m)
      BY <2>3 DEF WorkerIsAcked
    <3> QED
      BY <1>1, <3>1, <3>2 DEF B!ResultAcked, B!SettleDelivery
  <2>4. ASSUME WorkerTakesStart(m) PROVE Goal
    BY <2>4 DEF WorkerTakesStart, B!StartArrives
  <2>5. ASSUME WorkerStopSettles(m) PROVE Goal
    BY <2>5 DEF WorkerStopSettles, B!StopSettles, ToldInv
  <2>6. ASSUME WorkerAlone(m) PROVE Goal
    BY <1>0, <2>6 DEF WorkerAlone, B!AgentLeaves, B!OweResult, B!DeliverEnds, B!StopEnds,
       ToldInv
  <2>7. ASSUME WorkerTells(m) PROVE Goal
    <3>1. CASE m = n
      BY <1>2, <2>7, <3>1 DEF WorkerTells
    <3>2. CASE m # n
      BY <2>7, <3>2 DEF WorkerTells, B!DeliverTells
    <3> QED
      BY <3>1, <3>2
  <2> QED
    BY <1>3, <2>1, <2>2, <2>3, <2>4, <2>5, <2>6, <2>7 DEF WorkerStep, WorkerAnswers
<1>4. ASSUME NEW m \in Nodes, AgentEnds(m) PROVE Goal
  <2>1. PICK s \in {"done", "failed"} : B!AgentEnds(m, s)
    BY <1>4 DEF AgentEnds
  <2>2. CASE m = n
    BY <1>0, <2>1, <2>2 DEF B!AgentEnds, ToldInv, A!Settled
  <2>3. CASE m # n
    BY <1>0, <2>1, <2>3 DEF B!AgentEnds
  <2> QED
    BY <2>2, <2>3
<1>5. ASSUME NEW m \in Nodes, WorkerStops(m) PROVE Goal
  <2>1. CASE m = n
    BY <1>2, <1>5, <2>1 DEF WorkerStops, ToldInv
  <2>2. CASE m # n
    BY <1>0, <1>5, <2>2 DEF WorkerStops, B!PersonStops
  <2> QED
    BY <2>1, <2>2
<1>6. ASSUME WorkerJudges PROVE Goal
  BY <1>6 DEF WorkerJudges, B!StartDismissed, B!StartJudged
<1>7. ASSUME WorkerStarts \/ WorkerFailsStart PROVE Goal
  <2>1. ASSUME B!StartClaims \/ B!StartEnqueues \/ B!StartDone \/ B!StartRefused PROVE Goal
    BY <2>1 DEF B!StartClaims, B!StartEnqueues, B!StartDone, B!StartRefused
  <2>2. ASSUME B!StartOpens \/ B!StartFails \/ B!StartAbandons PROVE Goal
    <3>1. start.node # n
      BY <1>0, <2>2, IdleStep DEF B!StartOpens, B!StartFails, B!StartAbandons
    <3> QED
      BY <1>0, <2>2, <3>1 DEF B!StartOpens, B!StartFails, B!StartAbandons
  <2> QED
    BY <1>7, <2>1, <2>2 DEF WorkerStarts, WorkerFailsStart
<1>8. ASSUME WorkerUnbinds \/ WorkerForgets PROVE Goal
  BY <1>0, <1>8 DEF WorkerUnbinds, WorkerForgets, B!UnbindEnds, B!UnbindDrops, B!UnbindUnlinks,
     PlainLasting, Inv, BP!Lasting
<1>9. ASSUME LinkUp \/ LinkLost \/ GiverCrashes \/ Leave PROVE Goal
  BY <1>9 DEF LinkUp, LinkLost, GiverCrashes, Leave, worker, B!ChannelOpens, B!ChannelCloses
<1>10. ASSUME WorkerCrashes PROVE Goal
  BY <1>10 DEF WorkerCrashes, B!Crash
<1>11. ASSUME NEW m \in Nodes, GiverStep(m) \/ GiverEvent(m) PROVE Goal
  BY <1>1, <1>11 DEF GiverStep, GiverAlone, GiverAsks, GiverHears, GiverIsTold, GiverEvent
<1> QED
  BY <1>3, <1>4, <1>5, <1>6, <1>7, <1>8, <1>9, <1>10, <1>11 DEF Next

\* Word of the end is still to come, or comes behind a place in what is on its way.
Told(n, i) == \E j \in 1 .. Len(back) : j > i /\ back[j].kind = "settled" /\ back[j].node = n
Knows(n, i) == StillOwed(n) \/ Told(n, i)

\* Whoever is told that a task is open, or waits on that, hears of its end.
KnowsInv ==
  /\ \A n \in Nodes, i \in Nat :
       (/\ i \in 1 .. Len(back) /\ back[i].node = n
        /\ back[i].kind = "result" /\ back[i].answer = "open"
        /\ given[n] = "open")
       => Knows(n, i)
  /\ \A n \in Nodes :
       n \in (takes \cap waiting) \ starts /\ link /\ given[n] = "open" => Knows(n, 0)

\* What is on its way stays in its order.
LEMMA ToldMoves ==
  ASSUME back \in Seq(Word), NEW n, NEW i \in Nat
  PROVE  /\ back' = back /\ Told(n, i) => Told(n, i)'
         /\ \A v \in Word : back' = Append(back, v) /\ Told(n, i) => Told(n, i)'
         /\ back # <<>> /\ back' = Tail(back) /\ Told(n, i + 1) => Told(n, i)'
         /\ \A v \in Word : i <= Len(back) /\ back' = Append(back, v) /\ v = SettledWord(n)
              => Told(n, i)'
<1>0. Len(back) \in Nat
  OBVIOUS
<1>1. back' = back /\ Told(n, i) => Told(n, i)'
  BY DEF Told
<1>2. ASSUME NEW v \in Word, back' = Append(back, v), Told(n, i) PROVE Told(n, i)'
  <2>1. Len(back') = Len(back) + 1 /\ \A j \in 1 .. Len(back) : back'[j] = back[j]
    BY <1>2
  <2> QED
    BY <1>0, <1>2, <2>1 DEF Told
<1>3. ASSUME back # <<>>, back' = Tail(back), Told(n, i + 1) PROVE Told(n, i)'
  <2>1. PICK j \in 1 .. Len(back) :
          j > i + 1 /\ back[j].kind = "settled" /\ back[j].node = n
    BY <1>3 DEF Told
  <2>2. /\ Len(back') = Len(back) - 1
        /\ \A k \in 1 .. Len(back') : back'[k] = back[k + 1]
    BY <1>3, OnTail
  <2>3. j - 1 \in 1 .. Len(back') /\ j - 1 > i /\ (j - 1) + 1 = j
    BY <1>0, <2>1, <2>2
  <2> QED
    BY <2>1, <2>2, <2>3 DEF Told
<1>4. ASSUME NEW v \in Word, i <= Len(back), back' = Append(back, v), v = SettledWord(n)
      PROVE  Told(n, i)'
  <2>1. Len(back') = Len(back) + 1 /\ back'[Len(back) + 1] = v
    BY <1>4
  <2>2. v.kind = "settled" /\ v.node = n
    BY <1>4 DEF SettledWord
  <2> QED
    BY <1>0, <1>4, <2>1, <2>2 DEF Told
<1> QED
  BY <1>1, <1>2, <1>3, <1>4

LEMMA KnowsStep ==
  ASSUME PlainEvents, PlainLasting, PlainLasting', Next, StartedInv, ToldInv, LaneInv, KnowsInv
  PROVE  KnowsInv'
<1>0. /\ back \in Seq(Word) /\ back' \in Seq(Word) /\ Len(back) \in Nat /\ CanUnbind = FALSE
      /\ link = up /\ link' = up' /\ (~ up => back = <<>>) /\ (~ up' => back' = <<>>)
      /\ takes \subseteq Nodes
  BY EventsAssumption DEF PlainEvents, PlainLasting, Inv, WireInv, OnTheWire, AP!OwedInv,
     AP!TypeOK, Word, Answers, A!Settled
<1>1. ASSUME NEW n \in Nodes, Ran(n), given'[n] = "open" PROVE given[n] = "open"
  <2>1. given[n] # "none"
    BY <1>1 DEF PlainLasting, OverInv, Nothing
  <2>2. given[n] \in {"none", "open"} \cup A!Settled
    BY DEF PlainLasting, Inv, AP!OwedInv, AP!TypeOK, AP!Settled, A!Settled
  <2>3. given[n] \in A!Settled => given'[n] = given[n]
    BY SettledStays DEF PlainLasting
  <2> QED
    BY <1>1, <2>1, <2>2, <2>3 DEF A!Settled
<1>2. ASSUME NEW n \in Nodes, Started(n), given[n] = "open", up, up', StillOwed(n),
             NEW i \in Nat, i <= Len(back)
      PROVE  Knows(n, i)'
  <2>1. CASE StillOwed(n)'
    BY <2>1 DEF Knows, StillOwed
  <2>2. CASE back' = Append(back, SettledWord(n))
    <3>1. SettledWord(n) \in Word
      BY DEF SettledWord, Word, Answers
    <3>2. Told(n, i)'
      BY <1>0, <1>2, <2>2, <3>1, ToldMoves
    <3> QED
      BY <3>2 DEF Knows, Told
  <2> QED
    BY <1>2, <2>1, <2>2, OwedStep
<1>3. ASSUME NEW n \in Nodes, Started(n), given[n] = "open", up, up', NEW i \in Nat,
             i <= Len(back), Knows(n, i), back' = back \/ \E v \in Word : back' = Append(back, v)
      PROVE  Knows(n, i)'
  <2>1. CASE StillOwed(n)
    BY <1>2, <1>3, <2>1
  <2>2. CASE Told(n, i)
    <3>1. Told(n, i)'
      BY <1>0, <1>3, <2>2, ToldMoves
    <3> QED
      BY <3>1 DEF Knows, Told
  <2> QED
    BY <1>3, <2>1, <2>2 DEF Knows
<1>4. ASSUME NEW n \in Nodes, Started(n), given[n] = "open", up, up', NEW i \in Nat,
             i + 1 <= Len(back), Knows(n, i + 1), back # <<>>, back' = Tail(back)
      PROVE  Knows(n, i)'
  <2>1. CASE StillOwed(n)
    BY <1>2, <1>4, <2>1
  <2>2. CASE Told(n, i + 1)
    <3>1. Told(n, i)'
      BY <1>0, <1>4, <2>2, ToldMoves
    <3> QED
      BY <3>1 DEF Knows, Told
  <2> QED
    BY <1>4, <2>1, <2>2 DEF Knows
<1>5. \/ back' = back \/ IsHeard \/ \E v \in Word : back' = Append(back, v)
      \/ back' = <<>> /\ ~ up'
  BY <1>0, BackIs, StartAnswers DEF BackShape, SaysMore, PlainLasting
<1>6. ASSUME NEW i \in Nat, i \in 1 .. Len(back'), NEW n \in Nodes, back'[i].node = n,
             back'[i].kind = "result", back'[i].answer = "open", given'[n] = "open"
      PROVE  Knows(n, i)'
  <2> DEFINE w == back'[i]
  <2>0. up' /\ w \in On(back')
    BY <1>0, <1>6 DEF On
  <2>1. ASSUME w \in On(back) PROVE Started(n) /\ given[n] = "open" /\ up
    <3>1. Started(n)
      BY <1>6, <2>1 DEF StartedInv
    <3>2. back # <<>>
      BY <1>0, <2>1, OnNothing
    <3> QED
      BY <1>0, <1>1, <1>6, <2>0, <3>1, <3>2 DEF Started
  <2>2. CASE back' = back
    <3>1. w \in On(back) /\ Knows(n, i)
      BY <1>6, <2>1, <2>2 DEF KnowsInv, On
    <3> QED
      BY <1>0, <1>3, <1>6, <2>0, <2>1, <2>2, <3>1
  <2>3. CASE IsHeard
    <3>1. i + 1 \in 1 .. Len(back) /\ w = back[i + 1]
      BY <1>0, <1>6, <2>3, OnTail DEF IsHeard
    <3>2. w \in On(back)
      BY <3>1 DEF On
    <3>3. Knows(n, i + 1)
      BY <1>6, <2>1, <3>1, <3>2 DEF KnowsInv
    <3> QED
      BY <1>0, <1>4, <1>6, <2>0, <2>1, <2>3, <3>1, <3>2, <3>3 DEF IsHeard
  <2>4. ASSUME NEW v \in Word, back' = Append(back, v) PROVE Knows(n, i)'
    <3>1. /\ Len(back') = Len(back) + 1 /\ back'[Len(back) + 1] = v
          /\ \A j \in 1 .. Len(back) : back'[j] = back[j]
      BY <2>4
    <3>2. CASE i \in 1 .. Len(back)
      <4>1. w \in On(back) /\ w = back[i]
        BY <3>1, <3>2 DEF On
      <4>2. Knows(n, i)
        BY <1>6, <2>1, <3>2, <4>1 DEF KnowsInv
      <4> QED
        BY <1>0, <1>3, <2>0, <2>1, <2>4, <3>2, <4>1, <4>2
    <3>3. CASE i = Len(back) + 1
      <4>1. w = v
        BY <3>1, <3>3
      <4>2. SaysMore
        <5>0. BackShape
          BY <1>0, BackIs DEF PlainLasting
        <5>1. ~ (AnswersFirst \/ AnswersLast)
          <6> SUFFICES ASSUME AnswersFirst \/ AnswersLast PROVE FALSE
            OBVIOUS
          <6>1. PICK u \in Word : back' = Append(back, u) /\ u.kind = "start"
            BY StartAnswers DEF PlainLasting
          <6>2. back'[Len(back) + 1] = u
            BY <1>0, <6>1
          <6> QED
            BY <1>6, <3>1, <4>1, <6>1, <6>2
        <5>2. back' # back /\ back' # <<>>
          BY <1>0, <3>1
        <5>3. IsHeard => Len(back') = Len(back) - 1
          BY <1>0, OnTail DEF IsHeard
        <5>4. ~ IsHeard
          BY <1>0, <3>1, <5>3
        <5> QED
          BY <5>0, <5>1, <5>2, <5>4 DEF BackShape
      <4>3. PICK u \in Word : /\ back' = Append(back, u)
                              /\ u.kind = "result" =>
                                   /\ task' = task
                                   /\ u.answer = "open" => task[u.node] = "open"
        BY <4>2 DEF SaysMore
      <4>4. u = v
        BY <2>4, <3>1, <4>3
      <4>5. task'[n] = "open"
        BY <1>6, <4>1, <4>3, <4>4
      <4> QED
        BY <4>5 DEF Knows, StillOwed
    <3> QED
      BY <1>0, <1>6, <3>1, <3>2, <3>3
  <2> QED
    BY <1>5, <1>6, <2>0, <2>2, <2>3, <2>4
<1>7. ASSUME NEW n \in Nodes, n \in (takes' \cap waiting') \ starts', link',
             given'[n] = "open"
      PROVE  Knows(n, 0)'
  <2>0. /\ link /\ up /\ up'
        /\ n \in (takes \cap waiting) \ starts \/ (Hears("result", n, "open") /\ UNCHANGED worker)
    BY <1>0, <1>7, LaneStep DEF LaneMoves, WaitsWell
  <2>1. CASE n \in (takes \cap waiting) \ starts
    <3>1. n \in Nodes /\ Started(n) /\ given[n] = "open" /\ Knows(n, 0)
      BY <1>0, <1>1, <1>7, <2>0, <2>1 DEF StartedInv, Started, KnowsInv
    <3>2. CASE StillOwed(n)
      BY <1>0, <1>2, <2>0, <3>1, <3>2
    <3>3. CASE Told(n, 0) /\ IsHeard
      <4>1. ~ (Head(back).kind = "settled" /\ Head(back).node = n)
        <5> SUFFICES ASSUME GiverIsTold(n) PROVE FALSE
          BY <3>3 DEF IsHeard
        <5>1. n \in takes
          BY <2>1
        <5> QED
          BY <1>7, <5>1 DEF GiverIsTold, A!Unwaited, A!PeerSettled, A!Wake
      <4>2. PICK j \in 1 .. Len(back) : back[j].kind = "settled" /\ back[j].node = n
        BY <3>3 DEF Told
      <4>3. j > 1
        BY <1>0, <4>1, <4>2
      <4>4. Told(n, 0 + 1)
        BY <4>2, <4>3 DEF Told
      <4>5. Told(n, 0)'
        BY <1>0, <3>3, <4>4, ToldMoves DEF IsHeard
      <4> QED
        BY <4>5 DEF Knows, Told
    <3>4. CASE Told(n, 0) /\ ~ IsHeard
      BY <1>0, <1>3, <1>5, <2>0, <3>1, <3>4 DEF Knows
    <3> QED
      BY <3>1, <3>2, <3>3, <3>4 DEF Knows
  <2>2. CASE Hears("result", n, "open") /\ UNCHANGED worker
    <3>1. /\ 1 \in 1 .. Len(back) /\ back[1].kind = "result" /\ back[1].node = n
          /\ back[1].answer = "open" /\ back # <<>> /\ back' = Tail(back)
      BY <1>0, <2>2, OnTail DEF Hears
    <3>2. n \in Nodes /\ Started(n)
      BY <1>0, <3>1, WordsOfNodes DEF StartedInv, On
    <3>3. given[n] = "open" /\ Knows(n, 0 + 1)
      BY <1>1, <1>7, <3>1, <3>2 DEF Started, KnowsInv
    <3> QED
      BY <1>0, <1>4, <2>0, <3>1, <3>2, <3>3
  <2> QED
    BY <2>0, <2>1, <2>2
<1> QED
  BY <1>6, <1>7 DEF KnowsInv, Knows, Told, StillOwed

WordInv == StartedInv /\ ToldInv /\ LaneInv /\ KnowsInv

LEMMA WordLasts ==
  ASSUME PlainEvents
  PROVE  Spec => []WordInv
<1>1. Init => WordInv
  <2> SUFFICES ASSUME Init PROVE WordInv
    OBVIOUS
  <2>1. On(back) = {} /\ On(calls) = {} /\ Len(back) = 0 /\ 1 .. Len(back) = {}
    BY OnNothing DEF Init
  <2>2. StartedInv
    BY <2>1 DEF Init, A!Init, StartedInv
  <2>3. ToldInv
    BY <2>1 DEF Init, B!Init, ToldInv
  <2>4. LaneInv
    BY DEF Init, A!Init, LaneInv, A!TakeSteps
  <2>5. KnowsInv
    <3>1. \A i \in Nat : i \notin 1 .. Len(back)
      BY <2>1
    <3>2. takes \cap waiting = {}
      BY DEF Init, A!Init
    <3> QED
      BY <3>1, <3>2 DEF KnowsInv
  <2> QED
    BY <2>2, <2>3, <2>4, <2>5 DEF WordInv
<1>2. PlainLasting /\ PlainLasting' /\ WordInv /\ [Next]_vars => WordInv'
  <2>1. CanUnbind = FALSE
    BY EventsAssumption DEF PlainEvents
  <2>2. PlainLasting /\ PlainLasting' /\ WordInv /\ Next => WordInv'
    BY <2>1, StartedStep, ToldStep, LaneStep, KnowsStep
    DEF WordInv, PlainLasting, Inv, LaneMoves
  <2>3. WordInv /\ UNCHANGED vars => WordInv'
    BY DEF vars, giver, worker, wire, WordInv, StartedInv, ToldInv, LaneInv, KnowsInv,
       Started, Ran, On, B!Idle, Knows, Told, StillOwed, A!Linked, A!TakeSteps, A!Settled
  <2> QED
    BY <2>2, <2>3
<1> QED
  BY <1>1, <1>2, PlainLasts, PTL DEF Spec

\* remote-tasks.ts:314-316, peer-tasks.ts:574-588, 610-618: as long as tasks end by what the
\* machines say of them, no wake-up is lost.  An entry that waits over an open link for the
\* result of a task that settled there has word of it on the way, or the other machine still
\* has it to send, whatever links, crashes and refusals came between.
THEOREM NoWordIsLost ==
  ASSUME PlainEvents
  PROVE  Spec => []WordComes
<1>1. PlainLasting /\ WordInv => WordComes
  <2> SUFFICES ASSUME PlainLasting, WordInv, NEW n \in (takes \cap waiting) \ starts, link,
                      given[n] = "open", B!Report(n) \in A!Settled
               PROVE  \/ \E i \in 1 .. Len(back) : back[i].kind = "settled" /\ back[i].node = n
                      \/ n \in pending /\ n \in owing \cup (deliver \ told)
    BY DEF WordComes
  <2>1. task[n] # "open"
    BY DEF B!Report, A!Settled
  <2>2. n \in Nodes
    BY DEF PlainLasting, Inv, AP!OwedInv, AP!TypeOK
  <2>3. Knows(n, 0)
    BY <2>2 DEF WordInv, KnowsInv
  <2> QED
    BY <2>1, <2>3 DEF Knows, StillOwed, Told
<1> QED
  BY <1>1, WordLasts, PlainLasts, PTL

-----------------------------------------------------------------------------
(* No start waits in vain for a place: the end of some task still wakes it. *)

\* An entry comes to wait for a place over an open link once it heard that there is none.
PlaceWaits ==
  /\ \A n \in (starts' \cap waiting') \ takes' : link' =>
       /\ link
       /\ \/ n \in (starts \cap waiting) \ takes
          \/ Hears("start", n, "peer-busy") /\ n \notin woken
  /\ \A n \in Nodes : n \in woken /\ pc'[n] = "asked" => n \in woken'

\* What waits is owed.
WaitsOwed == waiting \subseteq starts \cup takes

PlaceMoves == WaitsOwed' /\ PlaceWaits

LEMMA PlaceWaitsStep ==
  ASSUME PlainEvents, PlainLasting, LaneInv, WaitsOwed, [Next]_vars
  PROVE  PlaceMoves
<1>0. /\ pc \in [Nodes -> {"idle"} \cup A!StartSteps \cup A!TakeSteps]
      /\ takes \subseteq Nodes /\ starts \subseteq Nodes /\ waiting \subseteq Nodes
      /\ dead \subseteq Nodes /\ woken \subseteq Nodes
      /\ \A n \in Nodes : pc[n] \in {"sending", "marking", "asked"} => n \in starts
      /\ \A n \in giving : n \notin starts \cup takes
      /\ stops = {} /\ ending = {} /\ stale = {}
  BY DEF PlainLasting, PlainInv, Inv, AP!OwedInv, AP!TypeOK, A!StartSteps, A!TakeSteps,
     AP!StartSteps, AP!TakeSteps, AP!GivingIsFirst
<1> USE DEF PlaceMoves, PlaceWaits, WaitsOwed, LaneInv, A!Linked, A!TakeSteps, A!StartSteps,
            A!Running, A!disk, A!lane, A!carried, A!stopLane, A!aside, A!To, A!Returns,
            A!ReturnsAndWakes, A!Wake, A!OtherStarts, A!Ready
<1>1. ASSUME NEW n \in Nodes, GiverAlone(n) PROVE PlaceMoves
  <2>1. CASE A!StartIsMoot(n) \/ A!StartWaitsForLink(n) \/ A!StartSends(n)
    BY <1>0, <2>1 DEF A!StartIsMoot, A!StartWaitsForLink, A!StartSends
  <2>2. CASE A!StartMarks(n) \/ A!StartIsDropped(n)
    BY <1>0, <2>2 DEF A!StartMarks, A!StartIsDropped
  <2>3. CASE A!StartIsHeard(n)
    BY <1>0, <2>3 DEF A!StartIsHeard
  <2>4. CASE A!StartCloses(n)
    BY <1>0, <2>4 DEF A!StartCloses
  <2>5. CASE A!StartBreaks(n)
    BY <1>0, <2>5 DEF A!StartBreaks
  <2>6. CASE A!TakeWaitsForLink(n) \/ A!TakeIsStale(n)
    BY <1>0, <2>6 DEF A!TakeWaitsForLink, A!TakeIsStale
  <2>7. CASE A!TakeBreaks(n)
    BY <1>0, <2>7 DEF A!TakeBreaks
  <2>8. CASE A!GiveOwes(n)
    BY <1>0, <2>8 DEF A!GiveOwes
  <2>9. CASE A!CancelOwes(n) \/ A!GiveUpFails(n) \/ A!LeaveFails(n)
    BY <1>0, <2>9 DEF A!CancelOwes, A!GiveUpFails, A!LeaveFails
  <2> QED
    BY <1>0, <1>1, <2>1, <2>2, <2>3, <2>4, <2>5, <2>6, <2>7, <2>8, <2>9 DEF GiverAlone
<1>2. ASSUME NEW n \in Nodes, GiverEvent(n) PROVE PlaceMoves
  <2>1. A!GiveOpens(n)
    BY <1>0, <1>2 DEF GiverEvent, PlainEvents, A!GiveUpDrops
  <2> QED
    BY <1>0, <2>1 DEF A!GiveOpens
<1>3. ASSUME NEW n \in Nodes, GiverAsks(n) PROVE PlaceMoves
  <2>1. CASE A!StartAsks(n)
    BY <1>0, <2>1 DEF A!StartAsks
  <2>2. CASE A!TakeAsks(n)
    BY <1>0, <2>2 DEF A!TakeAsks
  <2>3. CASE A!TakeSettles(n)
    BY <1>0, <2>3 DEF A!TakeSettles
  <2> QED
    BY <1>0, <1>3, <2>1, <2>2, <2>3 DEF GiverAsks
<1>4. ASSUME NEW n \in Nodes, GiverHears(n) PROVE PlaceMoves
  <2>1. CASE A!StartHears(n)
    BY <1>0, <2>1 DEF A!StartHears
  <2>2. ASSUME A!StartIsPutOff(n), Hears("start", n, "peer-busy") PROVE PlaceMoves
    BY <1>0, <2>2 DEF A!StartIsPutOff
  <2>3. CASE A!StartIsRefused(n) \/ A!StartErrs(n)
    BY <1>0, <2>3 DEF A!StartIsRefused, A!StartErrs
  <2>4. CASE A!TakeHearsOpen(n) \/ A!TakeErrs(n)
    BY <1>0, <2>4 DEF A!TakeHearsOpen, A!TakeErrs
  <2>5. ASSUME NEW s \in A!Settled, A!TakeHears(n, s) PROVE PlaceMoves
    BY <1>0, <2>5 DEF A!TakeHears
  <2>6. CASE A!TakeHearsUnknown(n)
    BY <1>0, <2>6 DEF A!TakeHearsUnknown
  <2>7. CASE A!TakeIsAcked(n)
    BY <1>0, <2>7 DEF A!TakeIsAcked
  <2>8. CASE A!TakeIsRefused(n)
    BY <1>0, <2>8 DEF A!TakeIsRefused
  <2> QED
    BY <1>0, <1>4, <2>1, <2>2, <2>3, <2>4, <2>5, <2>6, <2>7, <2>8 DEF GiverHears
<1>5. ASSUME NEW n \in Nodes, GiverIsTold(n) PROVE PlaceMoves
  BY <1>0, <1>5 DEF GiverIsTold, A!PeerSettled, giver
<1>6. ASSUME UNCHANGED giver PROVE PlaceMoves
  BY <1>6 DEF giver
<1>7. ASSUME NEW n \in Nodes, WorkerStep(n) \/ AgentEnds(n) \/ WorkerStops(n) PROVE PlaceMoves
  BY <1>6, <1>7 DEF WorkerStep, WorkerAnswers, WorkerRefuses, WorkerTakesStart, WorkerReports,
     WorkerIsAcked, WorkerTakesStop, WorkerStopSettles, WorkerAlone, WorkerTells,
     AgentEnds, WorkerStops
<1>8. CASE \/ WorkerJudges \/ WorkerStarts \/ WorkerFailsStart \/ WorkerUnbinds
           \/ WorkerForgets \/ UNCHANGED vars
  BY <1>6, <1>8 DEF WorkerJudges, WorkerStarts, WorkerFailsStart, WorkerUnbinds,
     WorkerForgets, vars
<1>9. ASSUME A!LinkLost PROVE PlaceMoves
  BY <1>0, <1>9 DEF A!LinkLost
<1>10. ASSUME A!LinkUp PROVE PlaceMoves
  BY <1>0, <1>10 DEF A!LinkUp, A!WakeOwed
<1>11. CASE LinkUp \/ LinkLost \/ WorkerCrashes
  BY <1>6, <1>9, <1>10, <1>11 DEF LinkUp, LinkLost, WorkerCrashes
<1>12. CASE GiverCrashes
  BY <1>0, <1>12 DEF GiverCrashes, A!Crash
<1>13. ~ Leave
  BY DEF PlainEvents, Leave, A!Leave
<1> QED
  BY <1>1, <1>2, <1>3, <1>4, <1>5, <1>7, <1>8, <1>11, <1>12, <1>13 DEF Next, GiverStep

\* A result is taken until it is acknowledged, and a task settles here while its result is
\* taken, or never ran.
TakesWell ==
  /\ \A m \in takes : m \in takes' \/ A!TakeIsAcked(m)
  /\ \A m \in Nodes : given[m] = "open" /\ given'[m] # "open" => m \in takes' \/ Nothing(m)

LEMMA TakesStep ==
  ASSUME PlainEvents, PlainLasting, LaneInv, Next
  PROVE  TakesWell
<1>0. /\ takes \subseteq Nodes /\ \A n \in Nodes : failing[n] = "no"
      /\ given \in [Nodes -> {"none", "open"} \cup A!Settled]
      /\ dropping = {} /\ stale = {}
  BY DEF PlainLasting, PlainInv, Inv, AP!OwedInv, AP!TypeOK, AP!Settled, A!Settled
<1> USE DEF TakesWell, A!disk, A!lane, A!carried, A!stopLane, A!aside, A!FailTask, A!TakeSteps
<1>1. ASSUME NEW n \in Nodes, GiverAlone(n) PROVE TakesWell
  <2>1. CASE \/ A!StartIsMoot(n) \/ A!StartWaitsForLink(n) \/ A!StartSends(n)
             \/ A!StartMarks(n) \/ A!StartIsDropped(n)
    BY <2>1 DEF A!StartIsMoot, A!StartWaitsForLink, A!StartSends, A!StartMarks,
       A!StartIsDropped
  <2>2. CASE A!StartIsHeard(n) \/ A!StartCloses(n) \/ A!StartBreaks(n)
    BY <2>2 DEF A!StartIsHeard, A!StartCloses, A!StartBreaks
  <2>3. CASE A!TakeWaitsForLink(n) \/ A!TakeIsStale(n) \/ A!TakeBreaks(n) \/ A!GiveOwes(n)
    BY <2>3 DEF A!TakeWaitsForLink, A!TakeIsStale, A!TakeBreaks, A!GiveOwes
  <2>4. ~ (A!CancelOwes(n) \/ A!GiveUpFails(n) \/ A!LeaveFails(n))
    BY <1>0 DEF A!CancelOwes, A!GiveUpFails, A!LeaveFails
  <2>5. ASSUME NEW e, A!StopHasNoLink(e) PROVE TakesWell
    BY <2>5 DEF A!StopHasNoLink
  <2> QED
    BY <1>1, <2>1, <2>2, <2>3, <2>4, <2>5 DEF GiverAlone
<1>2. ASSUME NEW n \in Nodes, GiverEvent(n) PROVE TakesWell
  <2>1. A!GiveOpens(n)
    BY <1>2 DEF GiverEvent, PlainEvents, A!GiveUpDrops, PlainLasting, PlainInv
  <2> QED
    BY <1>0, <2>1 DEF A!GiveOpens
<1>3. ASSUME NEW n \in Nodes, GiverAsks(n) PROVE TakesWell
  <2>1. CASE A!StartAsks(n) \/ A!TakeAsks(n)
    BY <2>1 DEF A!StartAsks, A!TakeAsks
  <2>2. CASE A!TakeSettles(n)
    BY <1>0, <2>2 DEF A!TakeSettles, LaneInv
  <2>3. ASSUME NEW e, A!StopAsks(e) PROVE TakesWell
    BY <2>3 DEF A!StopAsks
  <2> QED
    BY <1>3, <2>1, <2>2, <2>3 DEF GiverAsks
<1>4. ASSUME NEW n \in Nodes, GiverHears(n) PROVE TakesWell
  <2>1. CASE A!StartHears(n) \/ A!StartIsPutOff(n) \/ A!StartErrs(n)
    BY <2>1 DEF A!StartHears, A!StartIsPutOff, A!StartErrs
  <2>2. ASSUME A!StartIsRefused(n), Hears("start", n, "refused") PROVE TakesWell
    <3>1. Nothing(n)
      BY <2>2, HeardIsTrue DEF PlainLasting
    <3> QED
      BY <1>0, <2>2, <3>1 DEF A!StartIsRefused
  <2>3. CASE A!TakeHearsOpen(n) \/ A!TakeErrs(n)
    BY <2>3 DEF A!TakeHearsOpen, A!TakeErrs
  <2>4. ASSUME NEW s \in A!Settled, A!TakeHears(n, s) PROVE TakesWell
    BY <2>4 DEF A!TakeHears
  <2>5. CASE A!TakeIsAcked(n)
    BY <2>5 DEF A!TakeIsAcked
  <2>6. ~ Hears("result", n, "unknown")
    BY HeardIsTrue DEF PlainLasting, TrueWord
  <2>7. ~ Hears("result", n, "refused") /\ ~ Hears("ack", n, "refused")
    BY HeardIsTrue DEF PlainLasting, TrueWord, PlainEvents
  <2>8. ending = {}
    BY DEF PlainLasting, PlainInv
  <2> QED
    BY <1>4, <2>1, <2>2, <2>3, <2>4, <2>5, <2>6, <2>7, <2>8 DEF GiverHears
<1>5. ASSUME NEW n \in Nodes, GiverIsTold(n) PROVE TakesWell
  BY <1>5 DEF GiverIsTold, A!PeerSettled, giver
<1>6. ASSUME UNCHANGED giver PROVE TakesWell
  BY <1>6 DEF giver
<1>7. ASSUME NEW n \in Nodes, WorkerStep(n) \/ AgentEnds(n) \/ WorkerStops(n) PROVE TakesWell
  BY <1>6, <1>7 DEF WorkerStep, WorkerAnswers, WorkerRefuses, WorkerTakesStart, WorkerReports,
     WorkerIsAcked, WorkerTakesStop, WorkerStopSettles, WorkerAlone, WorkerTells,
     AgentEnds, WorkerStops
<1>8. CASE \/ WorkerJudges \/ WorkerStarts \/ WorkerFailsStart \/ WorkerUnbinds \/ WorkerForgets
  BY <1>6, <1>8 DEF WorkerJudges, WorkerStarts, WorkerFailsStart, WorkerUnbinds, WorkerForgets
<1>9. CASE LinkUp \/ LinkLost \/ WorkerCrashes \/ GiverCrashes
  BY <1>6, <1>9 DEF LinkUp, LinkLost, WorkerCrashes, GiverCrashes, A!LinkUp, A!LinkLost, A!Crash
<1>10. ~ Leave
  BY DEF PlainEvents, Leave, A!Leave
<1> QED
  BY <1>1, <1>2, <1>3, <1>4, <1>5, <1>7, <1>8, <1>9, <1>10 DEF Next, GiverStep

\* Word that the task of a node settled is on its way.
Announced(n) == \E w \in On(back) : w.kind = "settled" /\ w.node = n

\* What wakes the other starts is still to come of a task: its result is taken, or word of
\* its end is on the way or still to be sent.
Comes(n) ==
  \/ n \in takes
  \/ /\ given[n] = "open"
     /\ Announced(n) \/ (Started(n) /\ task[n] # "open" /\ StillOwed(n))

\* The tasks that hold a place no start of theirs gives back.
Fills == {n \in Nodes : Started(n) /\ task[n] = "open"}
Filled == Cardinality(Fills) >= MaxOpen

\* The machine said that it has no place for the start of a node.
Busy(n) == \E w \in On(back) : w.kind = "start" /\ w.node = n /\ w.answer = "peer-busy"

\* A start that waits for a place, or will once it hears that there is none.
Placeless(n) == \/ link /\ n \in (starts \cap waiting) \ takes
                \/ Busy(n) /\ n \notin woken

PlaceInv ==
  \A n \in Nodes : Placeless(n) =>
    /\ Nothing(n)
    /\ Filled \/ \E m \in Nodes \ {n} : Comes(m)

\* What the giving machine wakes its other starts for.
Heeds(m) == A!TakeIsAcked(m) \/ (given[m] = "open" /\ GiverIsTold(m))

LEMMA HeedWakes ==
  ASSUME AP!TypeOK, NEW m \in Nodes, NEW n \in Nodes, n # m, n \in starts, Heeds(m)
  PROVE  n \notin waiting' /\ (pc[n] # "idle" => n \in woken')
BY DEF Heeds, AP!TypeOK, A!TakeIsAcked, A!ReturnsAndWakes, GiverIsTold, A!Unwaited,
   A!PeerSettled, A!Wake, A!OtherStarts, A!Running

LEMMA OnHeadTail ==
  ASSUME NEW S, NEW s \in Seq(S), s # <<>>
  PROVE  On(s) \subseteq {Head(s)} \cup On(Tail(s))
<1> SUFFICES ASSUME NEW i \in 1 .. Len(s), i # 1 PROVE s[i] \in On(Tail(s))
  BY OnTail DEF On
<1>1. i - 1 \in 1 .. Len(Tail(s)) /\ (i - 1) + 1 = i
  BY OnTail
<1> QED
  BY <1>1, OnTail DEF On

LEMMA ComesStays ==
  ASSUME PlainEvents, PlainLasting, PlainLasting', Next, StartedInv, ToldInv, LaneInv,
         NEW m \in Nodes, up, up',
         Comes(m) \/ (m \in Fills /\ task'[m] # "open")
  PROVE  Comes(m)' \/ Heeds(m)
<1>0. /\ back \in Seq(Word) /\ CanUnbind = FALSE
      /\ task[m] \in {"none", "open"} \cup A!Settled
  BY EventsAssumption DEF PlainEvents, PlainLasting, Inv, WireInv, OnTheWire, BP!Lasting,
     BP!TypeOK, BP!Status, BP!Settled, A!Settled
<1>1. CASE m \in takes
  BY <1>1, TakesStep DEF TakesWell, Comes, Heeds
<1>2. ASSUME Ran(m), given[m] = "open", given'[m] # "open" PROVE Comes(m)'
  BY <1>2, TakesStep DEF TakesWell, Nothing, Comes
<1>3. ASSUME given[m] = "open", given'[m] = "open", Announced(m) PROVE Comes(m)' \/ Heeds(m)
  <2>1. PICK w \in On(back) : w.kind = "settled" /\ w.node = m
    BY <1>3 DEF Announced
  <2>2. w \in On(back') => Comes(m)'
    BY <1>3, <2>1 DEF Comes, Announced, On
  <2>3. ASSUME NEW v \in Word, back' = Append(back, v) PROVE w \in On(back')
    BY <1>0, <2>3, OnAppend
  <2>4. CASE IsHeard
    <3>1. CASE w = Head(back)
      BY <1>3, <2>1, <2>4, <3>1 DEF IsHeard, Heeds
    <3>2. CASE w # Head(back)
      BY <1>0, <2>2, <2>4, <3>2, OnHeadTail DEF IsHeard
    <3> QED
      BY <3>1, <3>2
  <2>5. AnswersFirst \/ AnswersLast => \E v \in Word : back' = Append(back, v)
    BY StartAnswers DEF PlainLasting
  <2> QED
    BY <1>0, <2>2, <2>3, <2>4, <2>5, BackIs DEF BackShape, SaysMore, PlainLasting
<1>4. ASSUME given[m] = "open", given'[m] = "open", Started(m), StillOwed(m), task'[m] # "open"
      PROVE  Comes(m)'
  <2>1. Started(m)'
    BY <1>0, <1>4, StartedStays DEF PlainLasting
  <2>2. CASE StillOwed(m)'
    BY <1>4, <2>1, <2>2 DEF Comes
  <2>3. CASE back' = Append(back, SettledWord(m))
    <3>1. SettledWord(m) \in Word /\ SettledWord(m).kind = "settled" /\ SettledWord(m).node = m
      BY DEF SettledWord, Word, Answers
    <3>2. SettledWord(m) \in On(back')
      BY <1>0, <2>3, <3>1, OnAppend
    <3> QED
      BY <1>4, <3>1, <3>2 DEF Comes, Announced, On
  <2> QED
    BY <1>4, <2>2, <2>3, OwedStep
<1>5. Announced(m) => Ran(m)
  BY DEF Announced, StartedInv
<1>6. task[m] # "open" /\ Started(m) => task'[m] # "open"
  BY <1>0, Moves DEF PlainLasting, WorkerKeeps, Started, Ran, A!Settled
<1>7. m \in Fills => Started(m) /\ StillOwed(m) /\ given[m] = "open"
  <2> SUFFICES ASSUME m \in Fills PROVE given[m] = "open"
    BY DEF Fills, StillOwed
  <2>1. given[m] \in {"none", "open"} \cup A!Settled
    BY DEF PlainLasting, Inv, AP!OwedInv, AP!TypeOK, AP!Settled, A!Settled
  <2> QED
    BY <2>1 DEF Fills, Started, PlainLasting, OverInv, Nothing
<1> QED
  BY <1>1, <1>2, <1>3, <1>4, <1>5, <1>6, <1>7 DEF Comes, Started

\* The tasks that hold a place are open there, and no others are unless a start is at work.
LEMMA FillsOpen ==
  ASSUME PlainLasting
  PROVE  /\ Fills \subseteq B!OpenNodes /\ IsFiniteSet(B!OpenNodes)
         /\ start = B!Idle => Fills = B!OpenNodes
<1>1. claimed \subseteq Nodes /\ \A n \in Nodes : task[n] # "none" => n \in claimed
  BY DEF PlainLasting, Inv, BP!Lasting, BP!TypeOK
<1>2. IsFiniteSet(B!OpenNodes)
  BY <1>1, NodesAssumption, FS_Subset DEF B!OpenNodes
<1> QED
  BY <1>1, <1>2 DEF Fills, B!OpenNodes, Started, Ran

LEMMA SameCount == ASSUME NEW S PROVE B!Cardinality(S) = Cardinality(S)
BY DEF Cardinality, B!Cardinality

\* A start hears that there is no place for it when every place is taken, and then nothing of
\* it is under way.
LEMMA PutOff ==
  ASSUME PlainEvents, PlainLasting, PlainLasting', Next, NEW n \in Nodes, Busy(n)', ~ Busy(n)
  PROVE  Nothing(n)' /\ Filled'
<1> USE DEF PlainLasting, Inv, WireInv
<1>0. /\ back \in Seq(Word) /\ CanUnbind = FALSE /\ BP!TypeOK /\ asked \in Seq(B!Jobs)
      /\ OneStart /\ InOrder
  BY EventsAssumption, JobsOfNodes DEF PlainEvents, OnTheWire, BP!Lasting
<1>1. PICK w \in On(back') : w.kind = "start" /\ w.node = n /\ w.answer = "peer-busy"
  BY DEF Busy, On
<1>2. w \notin On(back)
  BY <1>1 DEF Busy
<1>3. ASSUME NEW v \in Word, back' = Append(back, v) PROVE w = v
  BY <1>0, <1>1, <1>2, <1>3, OnAppend
<1>4. AnswersFirst
  <2>1. back' # back
    BY <1>1, <1>2
  <2>2. ~ IsHeard
    BY <1>0, <1>1, <1>2, OnTail DEF IsHeard
  <2>3. ~ SaysMore
    BY <1>1, <1>3 DEF SaysMore
  <2>4. ~ AnswersLast
    <3> SUFFICES ASSUME AnswersLast PROVE FALSE
      OBVIOUS
    <3>1. PICK a \in Answers \ {"peer-busy"} : back' = Append(back, StartWord(start.node, a))
      BY DEF AnswersLast
    <3>2. StartWord(start.node, a) \in Word /\ StartWord(start.node, a).answer = a
      BY <1>0, StartsInStep DEF AnswersLast, StartWord, Word
    <3> QED
      BY <1>1, <1>3, <3>1, <3>2
  <2>5. back' # <<>>
    BY <1>1, OnNothing
  <2> QED
    BY <1>0, <2>1, <2>2, <2>3, <2>4, <2>5, BackIs DEF BackShape
<1>5. /\ B!Verdict(n) = "peer-busy" /\ UNCHANGED <<calls, claimed, task>>
      /\ start = B!Idle /\ start' = B!Idle /\ asked # <<>> /\ asked' = Tail(asked)
      /\ Head(asked).chan = chan /\ Head(asked).node = n
  <2>1. PICK a \in Answers \ {"refused"} :
          /\ back' = Append(back, StartWord(Head(asked).node, a))
          /\ a = "peer-busy" => /\ B!Verdict(Head(asked).node) = "peer-busy"
                                /\ UNCHANGED <<calls, claimed, task>>
    BY <1>4 DEF AnswersFirst
  <2>2. /\ StartWord(Head(asked).node, a) \in Word
        /\ StartWord(Head(asked).node, a).answer = a
        /\ StartWord(Head(asked).node, a).node = Head(asked).node
    BY <1>0, <1>4, JobsOfNodes DEF AnswersFirst, StartWord, Word
  <2>3. a = "peer-busy" /\ Head(asked).node = n
    BY <1>1, <1>3, <2>1, <2>2
  <2> QED
    BY <1>4, <2>1, <2>3 DEF AnswersFirst
<1>6. B!Full /\ task[n] = "none"
  <2>1. B!Full /\ ~ B!Again(n)
    BY <1>5 DEF B!Verdict
  <2> QED
    BY <2>1 DEF B!Again, BP!Lasting
<1>7. Filled'
  <2>1. Fills' = B!OpenNodes
    BY <1>5, FillsOpen DEF Fills, Started, Ran, B!Idle
  <2> QED
    BY <1>6, <2>1, SameCount DEF Filled, B!Full
<1>8. n \notin Calling
  <2>1. /\ Head(asked) \in On(asked) /\ Head(asked) \in B!Jobs
    BY <1>0, <1>5, JobsOfNodes
  <2>2. Head(asked) = [node |-> n, chan |-> chan]
    BY <1>5, <2>1 DEF B!Jobs
  <2>3. n \in Waits
    BY <2>1, <2>2 DEF Waits
  <2> QED
    BY <1>0, <2>3 DEF OneStart
<1>9. ASSUME NEW j \in On(asked') PROVE j.node # n
  <2>1. /\ Len(asked) \in Nat /\ Len(asked) >= 1 /\ Head(asked) = asked[1]
        /\ Len(Tail(asked)) = Len(asked) - 1
        /\ \A i \in 1 .. Len(Tail(asked)) : Tail(asked)[i] = asked[i + 1]
    BY <1>0, <1>5, OnTail
  <2>2. PICK i \in 1 .. Len(Tail(asked)) : j = asked[i + 1]
    BY <1>5, <2>1 DEF On
  <2>3. i + 1 \in 1 .. Len(asked) /\ 1 \in 1 .. Len(asked) /\ 1 < i + 1 /\ 1 # i + 1
    BY <2>1
  <2>4. asked[1].chan <= asked[i + 1].chan /\ asked[i + 1].chan <= chan
        /\ asked[1] # asked[i + 1]
    BY <1>0, <2>3 DEF InOrder
  <2>5. asked[1] \in B!Jobs /\ asked[i + 1] \in B!Jobs
    BY <1>0, <2>3
  <2>6. chan \in Nat /\ asked[i + 1].chan \in Nat
    BY <1>0, <2>5, BoundsAssumption DEF B!Jobs, B!Channels, BP!TypeOK
  <2>7. asked[i + 1].chan = asked[1].chan
    BY <1>5, <2>1, <2>4, <2>6
  <2> QED
    BY <1>5, <2>1, <2>2, <2>4, <2>5, <2>7 DEF B!Jobs
<1> QED
  BY <1>5, <1>6, <1>7, <1>8, <1>9 DEF Nothing, Ran, Calling, StartsIn, On, B!Idle

LEMMA PlaceStep ==
  ASSUME PlainEvents, PlainLasting, PlainLasting', Next, StartedInv, ToldInv, LaneInv,
         WaitsOwed, PlaceInv
  PROVE  PlaceInv'
<1>0. /\ CanUnbind = FALSE /\ AP!TypeOK /\ link = up /\ link' = up'
      /\ (~ up => back = <<>>) /\ (~ up' => back' = <<>>)
      /\ back \in Seq(Word) /\ PlaceMoves
  BY EventsAssumption, PlaceWaitsStep DEF PlainEvents, PlainLasting, Inv, WireInv, OnTheWire,
     AP!OwedInv
<1>1. ASSUME NEW n \in Nodes, Busy(n) PROVE up /\ pc[n] = "asked" /\ n \in starts
  <2>1. n \in Answered
    BY <1>1 DEF Busy, Answered, StartsIn
  <2>2. up
    BY <1>0, <1>1, OnNothing DEF Busy
  <2> QED
    BY <2>1, <2>2 DEF PlainLasting, Inv, WireInv, OneStart, PlainInv
<1>2. ASSUME NEW n \in Nodes, Busy(n)' PROVE up' /\ pc'[n] = "asked"
  <2>1. n \in Answered'
    BY <1>2 DEF Busy, Answered, StartsIn, On
  <2>2. up'
    BY <1>0, <1>2, OnNothing DEF Busy, On
  <2> QED
    BY <2>1, <2>2 DEF PlainLasting, Inv, WireInv, OneStart
<1>3. ASSUME NEW n \in Nodes, Placeless(n)', ~ (Busy(n)' /\ ~ Busy(n))
      PROVE  /\ Placeless(n) /\ up /\ up' /\ n \in starts
             /\ n \in waiting' \/ (pc[n] # "idle" /\ n \notin woken')
             /\ ~ (pc[n] = "marking" /\ pc'[n] = "asked")
  <2>1. CASE link' /\ n \in (starts' \cap waiting') \ takes'
    <3>1. /\ link
          /\ \/ n \in (starts \cap waiting) \ takes
             \/ Hears("start", n, "peer-busy") /\ n \notin woken
      BY <1>0, <2>1 DEF PlaceMoves, PlaceWaits
    <3>2. Hears("start", n, "peer-busy") => Busy(n)
      <4> SUFFICES ASSUME Hears("start", n, "peer-busy") PROVE Busy(n)
        OBVIOUS
      <4>1. /\ Head(back) \in On(back) /\ Head(back).kind = "start"
            /\ Head(back).node = n /\ Head(back).answer = "peer-busy"
        BY <1>0, OnTail DEF Hears
      <4> QED
        BY <4>1 DEF Busy
    <3>3. pc[n] # "marking"
      BY <1>1, <3>1, <3>2 DEF LaneInv
    <3> QED
      BY <1>0, <1>1, <2>1, <3>1, <3>2, <3>3 DEF Placeless
  <2>2. CASE Busy(n)' /\ n \notin woken' /\ Busy(n)
    <3>1. up' /\ pc'[n] = "asked" /\ up /\ pc[n] = "asked" /\ n \in starts
      BY <1>1, <1>2, <2>2
    <3>2. n \notin woken
      BY <1>0, <2>2, <3>1 DEF PlaceMoves, PlaceWaits
    <3> QED
      BY <2>2, <3>1, <3>2 DEF Placeless
  <2> QED
    BY <1>3, <2>1, <2>2 DEF Placeless, Busy
<1>4. ASSUME NEW n \in Nodes, Placeless(n)', ~ (Busy(n)' /\ ~ Busy(n))
      PROVE  Nothing(n)' /\ (Filled' \/ \E m \in Nodes \ {n} : Comes(m)')
  <2>0. /\ Placeless(n) /\ up /\ up' /\ n \in starts
        /\ n \in waiting' \/ (pc[n] # "idle" /\ n \notin woken')
        /\ ~ (pc[n] = "marking" /\ pc'[n] = "asked")
    BY <1>3, <1>4
  <2>1. Nothing(n) /\ (Filled \/ \E m \in Nodes \ {n} : Comes(m))
    BY <2>0 DEF PlaceInv
  <2>2. Nothing(n)'
    BY <1>0, <2>0, <2>1, NothingStays DEF PlainLasting
  <2>3. ASSUME NEW m \in Nodes \ {n}, Comes(m) \/ (m \in Fills /\ task'[m] # "open")
        PROVE  Comes(m)'
    <3>1. ~ Heeds(m)
      BY <1>0, <2>0, HeedWakes
    <3> QED
      BY <2>0, <2>3, <3>1, ComesStays
  <2>4. CASE \E m \in Nodes \ {n} : Comes(m)
    BY <2>2, <2>3, <2>4
  <2>5. CASE Filled /\ Fills \subseteq Fills'
    <3>1. IsFiniteSet(Fills')
      BY NodesAssumption, FS_Subset DEF Fills
    <3>2. Cardinality(Fills) <= Cardinality(Fills')
          /\ Cardinality(Fills) \in Nat /\ Cardinality(Fills') \in Nat
      BY <2>5, <3>1, FS_Subset, FS_CardinalityType
    <3> QED
      BY <2>2, <2>5, <3>2, BoundsAssumption DEF Filled
  <2>6. ASSUME NEW m \in Fills, m \notin Fills' PROVE m \in Nodes \ {n} /\ Comes(m)'
    <3>1. m \in Nodes /\ Started(m) /\ m # n
      BY <2>1, <2>6 DEF Fills, Nothing, Started
    <3>2. Started(m)'
      BY <1>0, <3>1, StartedStays DEF PlainLasting
    <3>3. task'[m] # "open"
      BY <2>6, <3>1, <3>2 DEF Fills
    <3> QED
      BY <2>3, <2>6, <3>1, <3>3
  <2> QED
    BY <2>1, <2>2, <2>4, <2>5, <2>6
<1>5. ASSUME NEW n \in Nodes, Busy(n)', ~ Busy(n) PROVE Nothing(n)' /\ Filled'
  BY <1>5, PutOff
<1> QED
  BY <1>4, <1>5 DEF PlaceInv

LEMMA PlaceStays ==
  ASSUME UNCHANGED vars
  PROVE  /\ WaitsOwed' = WaitsOwed /\ Filled' = Filled
         /\ \A n \in Nodes : /\ Placeless(n)' = Placeless(n)
                             /\ Nothing(n)' = Nothing(n) /\ Comes(n)' = Comes(n)
<1> USE DEF vars, giver, worker, wire
<1>1. WaitsOwed' = WaitsOwed
  BY DEF WaitsOwed
<1>2. Fills' = Fills
  BY DEF Fills, Started, Ran, B!Idle
<1>3. ASSUME NEW n \in Nodes PROVE Placeless(n)' = Placeless(n)
  BY DEF Placeless, Busy, On
<1>4. ASSUME NEW n \in Nodes PROVE Nothing(n)' = Nothing(n)
  BY DEF Nothing, Ran, Calling, StartsIn, On, B!Idle
<1>5. ASSUME NEW n \in Nodes PROVE Comes(n)' = Comes(n)
  BY DEF Comes, Announced, Started, Ran, StillOwed, On, B!Idle
<1> QED
  BY <1>1, <1>2, <1>3, <1>4, <1>5 DEF Filled

\* remote-tasks.ts:158-182, 222-228: as long as tasks end by what the machines say of them,
\* no start waits for a place in vain.  While one waits over an open link and the other machine
\* has a place, the end of another task is still to be told, heard or acknowledged, and every
\* one of these wakes the starts that wait.
THEOREM NoStartWaitsInVain ==
  ASSUME PlainEvents
  PROVE  Spec => []PlaceComes
<1> DEFINE I == WaitsOwed /\ PlaceInv
<1>1. Init => I
  <2> SUFFICES ASSUME Init PROVE I
    OBVIOUS
  <2>1. On(back) = {} /\ waiting = {}
    BY OnNothing DEF Init, A!Init
  <2> QED
    BY <2>1 DEF WaitsOwed, PlaceInv, Placeless, Busy
<1>2. PlainLasting /\ PlainLasting' /\ WordInv /\ I /\ [Next]_vars => I'
  <2>1. PlainLasting /\ PlainLasting' /\ WordInv /\ I /\ Next => I'
    BY PlaceWaitsStep, PlaceStep DEF WordInv, PlaceMoves
  <2>2. I /\ UNCHANGED vars => I'
    BY PlaceStays DEF PlaceInv
  <2> QED
    BY <2>1, <2>2
<1>3. PlainLasting /\ I => PlaceComes
  <2> SUFFICES ASSUME PlainLasting, I, NEW n \in (starts \cap waiting) \ takes,
                      link, Cardinality(B!OpenNodes) < MaxOpen
               PROVE  \/ \E i \in 1 .. Len(back) : back[i].node # n
                      \/ owing \cup (deliver \ told) # {}
                      \/ (takes \ {n}) \cup ended # {}
    BY DEF PlaceComes
  <2>1. n \in Nodes
    BY DEF PlainLasting, Inv, AP!OwedInv, AP!TypeOK
  <2>2. ~ Filled
    <3>1. /\ Cardinality(Fills) <= Cardinality(B!OpenNodes)
          /\ Cardinality(Fills) \in Nat /\ Cardinality(B!OpenNodes) \in Nat
      BY FillsOpen, FS_Subset, FS_CardinalityType
    <3> QED
      BY <3>1, BoundsAssumption DEF Filled
  <2>3. PICK m \in Nodes \ {n} : Comes(m)
    BY <2>1, <2>2 DEF PlaceInv, Placeless
  <2> QED
    BY <2>3 DEF Comes, Announced, On, StillOwed
<1> QED
  BY <1>1, <1>2, <1>3, WordLasts, PlainLasts, PTL DEF Spec

=============================================================================
